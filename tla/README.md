# Verification of wapc-rs

wapc-rs embeds WebAssembly guests in Rust programs. A host calls named
operations of a guest, the guest calls named operations of its host, and both
directions may be synchronous or asynchronous. This directory holds TLA+
modules of the parts of wapc-rs in which something can go wrong between
threads, tasks and callbacks, TLC configurations that check them on small
instances, and TLAPS proofs of the central results for every instance.

    tlc -workers 2 -config WapcCallSafety.cfg WapcCall
    tlc -workers 2 -config HostPoolSafety.cfg MCHostPool
    tlc -workers 2 -config WapcGuestSafety.cfg WapcGuest
    tlc -workers 2 -config Loading.cfg MCLoading
    tlapm WapcCallProofs.tla        (and every other *Proofs module)

`PROJECT.json` lists the runs, gives for every definition the source lines it
translates, and for every property a plausible slip in that code
(a definition of the modules, with the suffix of what it gets wrong) that makes
the property fail.

## Inventory

| Part | State | Operations | Interacts with |
|---|---|---|---|
| `ModuleState` (`crates/wapc/src/wapchost/modulestate.rs`) | `invocations`: map from id to `CallState` (guest request, response, error; host response, error; sender of a oneshot) behind a lock; `call_index`, an atomic counter that starts at 1 | `new_invocation`, `init_host_call`, `do_host_call`, `do_async_host_call`, setters and getters, `take_state`, `finish_guest_invocation` | the import functions (the guest), the caller, the tasks of host calls |
| `WapcHost`, `WapcCallContext` (`crates/wapc/src/wapchost.rs`) | the engine provider; a context per call | `call`, `call_async`, `new_context`, `replace_module` | engine provider, `ModuleState` |
| Wasmtime engine (`crates/wasmtime-provider/src/engine_provider.rs`) | per context: store behind a mutex, instance, channel, `JoinHandle` of the handler task | `new_context`, `init`, `call`, `call_async`, the handler loop, `Drop` | guest exports, `ModuleState`, tokio |
| Wasmtime imports (`crates/wasmtime-provider/src/wapc_wasmtime.rs`) | none of their own | one function per import of the guest; the callback of `__async_host_call` sends to the handler's channel | `ModuleState`, guest memory |
| `HostPool` (`crates/wapc-pool/src/hostpool.rs`) | `Option<ThreadPool>`, both ends of a channel of capacity one, `min_threads`, `max_threads`, `max_wait`, `max_idle` | `call`, `spawn`, `num_active_workers`, `shutdown` | one `WapcHost` per worker |
| Guest library (`crates/wapc-guest/src`) | registered functions, dispatcher, table of waiting host calls, single-threaded executor | `register_function`, `__guest_call`, `__async_guest_call`, `host_call`, `async_host_call`, `__host_call_response_ready`, `exhaust_tasks` | the imports |
| WASI (`crates/wasmtime-provider/src/wasi.rs`) | `OPEN_DIRECTORIES`, a process-wide cache of opened directories behind a mutex | `init_ctx`, `compute_preopen_dirs`, `get_dir` | `new_context`, the file system |
| Names (`crates/wapc/src/wapc_functions.rs`) | none | `HostExports`, `GuestExports` to and from their names, `REQUIRED_STARTS` | both providers |
| wasm3 provider (`crates/wasm3-provider/src/lib.rs`) | `inner`, the runtime that `init` leaves | `new`, `init`, `call` | wasm3, an earlier `ModuleState` |
| Pool builder, errors, codec, test guests | settings or none | | |

What is hard in this code:

- **Concurrency.** An asynchronous call runs its guest in the caller's thread
  and then, one frame per notification, in the handler task; replies are stored
  by tasks on other threads; the guest's reads of a reply come as separate
  calls; dropping the future cancels at any await. The pool decides to grow on
  a number it reads before it acts on it.
- **Failure.** The guest traps, or the host panics on its stack, in the
  caller's frame or in a frame of the handler; a host callback fails or panics;
  context creation or a starter fails; a worker panics with a request in its
  hands.
- **Ordering.** A reply must be stored before its notification is received; the
  invocation must be in the table as long as it is open, and out of it once it
  is answered.
- **Timeouts.** `max_wait` expires as the channel becomes free, `max_idle` as a
  request arrives; the request that timed out is sent again.

What makes each part correct:

- The call: no two frames of the guest at once; every host call is answered
  once and only after its answer is readable; answers do not change; the caller
  gets what the guest said; every call returns and leaves no task behind.
- The pool: each request is executed exactly once; calls return; the pool
  shrinks back to its minimum.
- Loading: a context gets the directories its own parameters name, whatever
  other hosts and the file system do; whether a guest is linked depends on the
  guest alone; no failure that matters is passed over.
- The guest library: each waiting host call is woken once, by its own reply;
  the executor runs until only tasks that wait for the host are left.

Where each of these can break is under `hazards` in `PROJECT.json`, with the
property that would notice.

## Modules

### `ModuleState.tla`

The table as a variable `calls` (a function from ids to records with the fields
of `CallState`) and the counter `call_index`. Its methods are operators from
tables to tables, so that an action of another module performs exactly the
sequence of methods that its code performs. A payload is a model value; `Empty`
is the empty byte string. Host replies are recorded by the id of their call, 0
for none: that is all the properties tell apart, and it makes a reply that ended up
under another id visible.

`FinishStatus` is what `finish_guest_invocation` sends: error and response are
looked at in the order of the code. Locks: each method takes the lock of the
map once per access, and the model makes one step of the methods one import
performs. `fetch_add` and the insertion after it are one step as well; between
the two no other actor can name the id.

### `WapcCall.tla`

One `call` or `call_async`, from `new_context` to the end of its last task. A
context, with its table, store, channel and handler, is made for every call and
shared with no other, so one call is the whole unit of interaction.

| Actor | Actions | Code |
|---|---|---|
| caller | `NewContext`, `ContextFails`, `EnterStarter`, `SkipStarter`, `StarterReturns`, `StarterTraps`, `Invoke`, `EnterCall`, `ExportMissing`, `CallReturns`, `CallTraps`, `TakeState`, `AsyncCallReturns`, `AsyncCallTraps`, `CallPanics`, `Receive`, `Cancel` | `wapchost.rs`, `engine_provider.rs` |
| guest | `HostCall`, `HostCallReturns`, `AsyncHostCall`, `GuestResponse`, `GuestError`, `GuestResponseReady` | the imports in `wapc_wasmtime.rs`, `modulestate.rs` |
| host-call task | `Resolve`, `Notify`, `CallbackPanics` | `do_async_host_call` and the callback in `wapc_wasmtime.rs` |
| handler | `Recv`, `Closed`, `Aborted`, `Resume`, `ResumeReturns`, `ResumeTraps`, `ResumePanics` | the loop in `engine_provider.rs` |

`Finish` is the common end of a call: the result, and the drop of the context,
which sends `Close` and aborts the handler. An abort takes effect where the
handler awaits, never inside a frame of the guest (`Aborted`).

The guest and the host callbacks are not part of these crates. The guest
follows the waPC protocol: in a synchronous call it sets responses and errors
and makes host calls as it likes and returns 0 or 1; in an asynchronous one it
answers once with `__guest_response_ready`, and leaves a frame without having
answered only while it waits for a host call (`MayLeave`). `Faults` adds a
dropped future (`cancel`), a trap in a frame of the handler (`resume_trap`), a
panicking asynchronous callback (`callback_panic`), and a panic of an import
function or of the synchronous callback it runs, in a frame of the caller
(`call_panic`) or of the handler (`resume_panic`); a trap in the caller's frame
and a failing callback are always possible. Such a panic unwinds through the
guest: in the caller's frame it drops the guard of the store and the context and
reaches the caller, in a frame of the handler it ends the handler task.

The order of steps follows the code: a task stores the reply (`Resolve`) and
notifies in a later step (`Notify`); the handler receives (`Recv`) and then
waits for the store (`Resume`); a trap in `__async_guest_call` is handled with
the store still locked, because its guard lives to the end of the match.

### `WapcCallProofs.tla`, `WapcAnswerProofs.tla`, `WapcProtocolProofs.tla`

Theorems and proofs about `WapcCall`, each module building on the one before;
`HostPoolProofs`, `WapcGuestProofs`, `WapcGuestTaskProofs` and `LoadingProofs`
are those of the other components. See below.

### `GuestProtocol.tla`

The conversation between a host and one instance of a guest, as either side may
rely on it: frames do not overlap, an invocation is answered once, every
asynchronous host call is called back once, under its own id and never into a
running frame, and a frame is given up with open invocations only if as many
host calls are owed. It is the abstract specification of both `WapcCall` (the
host, with any guest that follows the protocol) and `WapcGuest` (the guest,
with any host that does). Each is shown to implement it with a refinement
mapping (`Protocol`, `KeepsProtocol`), so what one of the modules assumes of
its environment is what the other guarantees.

### `HostPool.tla`, `MCHostPool.tla`

Each member of `Callers` makes one call on a pool, from outside or from the host
callback of a guest that a worker is running (event `nested`). Such a callback
is a detached task (`modulestate.rs:231`) on the runtime of that worker, which
has no thread but the worker's own. `home` is that worker, and three things
follow: the blocking part of `HostPool::call` stops the worker (`Blocked`), its
`rx.await` is polled only while the worker awaits its host (`Polling`,
`Polled`), and it is dropped with the worker's runtime (`LoopEnds`). The guest
may answer before the callback has returned, so `Serve` does not wait for it;
`parent` is only the request whose guest may have chosen to wait, which matters
for fairness (`Waits`).

`slot` is the channel, `loop` what each thread runs, `queued` the closures for
which rusty_pool had no thread, `ran` how often a request was executed (a history
variable). The check of `num_active_workers` (`CheckSize`) and the spawn (`Grow`)
are two steps, as they are in the code, where other calls come in between.
rusty_pool and the crossbeam channel are external, modelled from how they are
configured and used: core size `min_threads`, maximum `max_threads`,
`keep_alive` zero. That there are never more than `max_threads` threads is
therefore an assumption about rusty_pool (`RoomForThread`) and no property of the
pool. The thread that replaces one that panicked holds no worker loop and only
takes queued closures; a factory that panics leaves its thread without a loop as
well (`Started`). Durations are abstracted: `max_wait` may expire whenever the
channel is full, `max_idle` whenever it is empty. Running the host is one step,
justified by `CallReturnsEventually` of `WapcCall`. `MCHostPool` adds the
permutations of callers, which are interchangeable.

### `WapcGuest.tla`

One instance of a guest built with the guest library, which has a single
thread: the host runs one frame at a time. `frame` says which, `current` whose
handler or task is running in it. The statics of `protocol.rs` are variables
(`ASYNC_HOST_CALLS` as the set of its keys; the registries as whether they hold
the one operation that is called), and each exported or public function is an
action: `register_function`, `register_async_function`, `register_dispatcher`,
`GuestCall`/`HandlerReturns`, `AsyncGuestCall`/`Complete`, `host_call`,
`async_host_call`, `HostCallResponseReady`, and `Poll`/`ExhaustReturns`/
`ExhaustTraps` for `exhaust_tasks`. `async_host_call` is made by a task
(`TaskCallsHost`) or, as event `early`, in `wapc_init` or a synchronous handler
(`HandlerCallsHost`), which cannot await its future. The future of `async_host_call` is taken
apart into the call itself (made at once), `Await` (it has a value) and
`Suspend`. The unsigned subtraction of `exhaust_tasks` traps or wraps according
to `overflow_checks`, which is chosen once and for all in `Init`.

External are the executor (`run_while(f)` polls a ready task as long as `f()`),
the host, and what users write: handlers and tasks. What users do beyond
awaiting one host call at a time is named in `Events`.

The library numbers host calls
itself and passes the number as the first of nine parameters, while the
import functions of `wapc_wasmtime.rs` take eight and let `ModuleState` draw the id.
`WapcGuest` therefore has the host that the library is written for.

### `WapcFunctions.tla`, `Hosts.tla`, `Wasm3Provider.tla`, `Loading.tla`, `MCLoading.tla`

How a guest gets its engine. `WapcFunctions` has the tables of names and, for
each import, the number of parameters and results with which the Wasmtime
provider defines it and the guest library declares it.

`Hosts` takes the Wasmtime provider from `WapcHost::new` to a context that is
ready, where `WapcCall` takes over (its `NewContext` and `ContextFails` are the
outcomes `ready`, and `no_dir`, `no_wasi` or `not_linked`). Opening a directory
and cloning its handle may fail at any directory (`OpenFails`), `init_ctx` after
the last one (`InitCtxFails`). Hosts are used by a thread
each, as the workers of a pool are: the contexts of one are created one after
the other, those of different ones concurrently. `get_dir` is one step, because
it holds the lock of `OPEN_DIRECTORIES` from the lookup to the insertion; between
two directories of a context others come in, and the file system, whose
directories have an identity (`fs`, `origin`), may change. `add_to_linker` works
on a clone of the provider's linker (`ProviderLinker`), to which it adds every
name of `HostExports`; a guest is instantiated if it finds its imports there
with the types it declares and exports the callback.

`Wasm3Provider` is `init` of the wasm3 provider, import by import, and `call`.
An environment that cannot be created is a panic (`EnvironmentFails`), every other
failure an error. `link_closure` fails alike for a missing import and for one of another type; what
follows depends on the import (`Required`). Its closures have the types of an
earlier protocol without ids.

`Loading` puts a guest and one of the two engines together; `MCLoading` has the
guests: for Wasmtime with the host's or the library's types, with and without
host calls, with and without the callback; for wasm3 every guest that lacks at
most one import, has at most one of another type, and exports what it needs, more,
or not enough.

## Runs

| Run | Expectation | Instance | What it shows |
|---|---|---|---|
| `call_safety` | pass | both modes, two host calls, an empty and a non-empty payload, all faults | `GuestNotReentered`, `NotifiedIsStored`, `NotifiedExactlyOnce`, `OpenInvocationInTable`, `ResultMatchesGuest`, `HostReplyStable` |
| `call_liveness` | pass | the same with cancellation, panicking callbacks and a panicking caller's frame | every call returns unless its guest waits for nothing but panicked callbacks (`CallReturnsEventually`), its handler ends (`HandlerEnds`), the host keeps the protocol (`KeepsProtocol`) |
| `call_resume_trap` | violation | a trap in a frame of the handler | `call_async` then waits for ever: finding 1 |
| `pool_safety` | pass | four calls, one to two workers, nested calls, cancellation, panics, shutdown | `ExactlyOnce` |
| `pool_liveness` | pass | three calls, two to three workers, nested calls, panics | `CallsAnswered`, `ReceivedIsAnswered`, `ShrinksToMinimum` |
| `pool_no_minimum` | violation | `min_threads = 0` | the first call is never served: finding 2 |
| `pool_shutdown` | violation | one call and a shutdown | `shutdown` never returns: finding 3 |
| `guest_safety` | pass | two invocations, three host calls, both builds, all events | `OpenCallHasSender`, `NeverWaitsInVain`, `ResolvedByOwnAnswer` |
| `guest_liveness` | pass | the same, tasks that await one host call at a time | `NeverTraps`, `QuietAtHost`, `InvocationAnswered`, `KeepsProtocol` |
| `guest_join` | violation | one task, two host calls in flight | it is never answered: finding 4 |
| `loading` | pass | two hosts, three calls, two paths, three directories; the guests of `MCLoading` | `RightDirectories`, `SameDirectories`, `LinkedByGuestAlone`, `Wasm3Ready`, `TrapsOnlyOnForeignImports` |
| `loading_library` | violation | guests of the library | one that makes host calls is not instantiated: finding 5 |

**Bounds.** `MaxHostCalls = 2`: two tasks can resolve in either order, two
notifications can be queued while the handler runs the guest, one host call can
be synchronous while another is outstanding; a third adds only another copy of
an actor that shares nothing but the table and the channel with the others. Two
payloads tell an empty answer from any other, the one distinction the code
makes. Four callers with a maximum of two: one request is executed, one sits in
the channel, and two have timed out and both found room to grow, which is the
least that makes the race of `CheckSize` and `Grow` queue a closure. Three are enough for two to find room while
the first is in the channel, and for a chain of nested calls that occupies two
core workers, which is what the liveness run needs. Thread names are bounded by the calls,
each of which spawns at most one worker. Two invocations of a guest and three
host calls: two calls joined by one task while another task has one, answered in
any order. Two hosts that use one name for two paths and one path under two
names; three contexts, so that one host has two of them and the other comes in
between; three directories, so that a path is removed and created again.
`call_index` is a natural number; it
is an `i32` in the code and would wrap after 2^31 host calls of one call.

**Deadlock.** A finished call has no next step, and under faults a caller may
wait for ever, so the runs that finish do not check deadlock; what must go on is
stated as liveness.

**Fairness.** `WapcCall`: weak fairness of the caller's thread, the handler,
and the tasks, which the operating system and tokio schedule, of the answer of
the guest and of the host callbacks, without which no call could return. The
store mutex needs no strong fairness: a call has at most two users of it, and
once the caller waits for the answer only the handler is left. Nothing is
assumed of cancellation or of the faults. `HostPool`: weak fairness of each
caller and of each worker thread, whose timeouts expire, of the join of
`shutdown`, and of a worker's call of its host, except while the guest may be
waiting for the pool (`Serve(w) /\ ~Waits(w)`). Nobody has to call, cancel,
panic or shut down. That a call of the host returns is `CallReturnsEventually`,
whose fairness assumes a tokio runtime that is not blocked. The worker's
`current_thread` runtime is blocked while a host callback sends to the pool
(`Blocked`) and, between calls, in `recv`: a call of a host callback that a
finished call left behind has its answer and does not see it until the next
request comes (`LeftBehind`, excepted in `CallsAnswered` and
`ReceivedIsAnswered`). `CallsAnswered` speaks of behaviours in which, again and
again, some core worker is held neither by a guest that waits for the pool nor
by a send of its own; the others, in which all core workers are lost or wait for
the pool they belong to, do occur. It holds under weak fairness because each
caller makes one call: a blocked `send` is overtaken only finitely often.
`WapcGuest`: weak fairness of what the guest
does in a frame, and of the host's answers to accepted calls. The host need not
call the guest at all.

## Findings

1. `engine_provider.rs:133` discards the result of calling the guest back. If
   the guest traps there, the sender of the invocation's oneshot stays in the
   table, which the waiting caller itself keeps alive: `call_async` never
   returns, although its documentation promises "either an error or an opaque
   reply of bytes". The trap in `__async_guest_call` itself is handled. A panic of
   the host in such a frame has the same effect, as it ends the handler task.
2. The pool starts workers only when `send_timeout` fails, and the channel has
   room for one request without any worker. With `min_threads = 0` the first call
   waits for ever. With the default settings the same happens to a host callback
   that calls the pool from its only worker: its request finds the channel empty,
   and the second worker that `max_threads` allows is not started (the exception
   in `CallsAnswered`).
3. `shutdown` joins core workers that wait in `recv` on a channel of which the
   pool holds both ends, so that it never returns when `min_threads > 0`.
4. `exhaust_tasks` subtracts the host calls in flight from the number of tasks,
   as if every task had at most one. One task with two calls makes the
   subtraction underflow: a trap, or, without overflow checks, a loop that has
   nothing to poll in a frame that the host's answers cannot enter. A task that
   ends before its call is answered, a call made outside any task, and a refused
   call, whose sender stays in the table, do the same (reached in
   `guest_safety`).
5. The guest library declares `__host_call` and `__async_host_call` with nine
   parameters, the id of the call first; the Wasmtime provider defines them with
   eight. A guest of the library that makes host calls cannot be instantiated.

Known disagreements that need no exploration of states, and have no run:

- A failed `do_host_call` stores the error under the call's id and returns 0
  (`modulestate.rs:207`). `__host_error` needs that id, so the guest cannot
  obtain the error as `crates/wapc/README.md` says.
- `async_host_call` ignores the code with which it is called back, so that a
  failed host call resolves to `Ok` of an empty buffer, and a refused one to `Ok`
  of the error's text (`Resolution`).
- `host_call` takes any code but 1 for a failure, whereas the documented
  convention (`traits.rs`), and `ModuleState`, have any positive code for success.
- `register_async_function` fills `ASYNC_REGISTRY`, which no code reads; without a
  dispatcher the call of an operation registered there traps.
- The host callback gets the id of the call (`modulestate.rs`, `f(id, ...)`), not
  the id of the module as the documentation of `WapcHost::id` says.

## Proofs

Every invariant and every safety property that a passing run checks, and both
refinements, are theorems: they hold for every value of the constants. The
assumptions are the named ASSUMEs of the modules, all evaluated by the runs;
some theorems have hypotheses on the faults or events, given below. Each inductive
invariant was checked with TLC on the instances of the runs before it was
proved.

| Module | Theorem | Statement |
|---|---|---|
| `WapcCallProofs` | `TypeCorrect` | `Spec => [](TypeOK /\ Locking)` |
| | `Exclusion` | `Spec => []GuestNotReentered` |
| | `StoredBeforeNotified` | `Spec => []NotifiedIsStored` |
| | `RepliesStable` | `Spec => HostReplyStable` |
| `WapcAnswerProofs` | `InvocationStaysOpen` | `Spec => []OpenInvocationInTable` |
| | `ResultIsTheAnswer` | `Spec => []ResultMatchesGuest` |
| `WapcProtocolProofs` | `NotificationsExact` | `Spec => []NotifiedExactlyOnce` |
| | `HostKeepsProtocol` | `"resume_trap" \notin Faults`, `"resume_panic" \notin Faults` give `Spec => KeepsProtocol` |
| `HostPoolProofs` | `PoolTypeCorrect` | `Spec => [](TypeOK /\ Size)` |
| | `PoolExactlyOnce` | `Spec => []ExactlyOnce` |
| `WapcGuestProofs` | `GuestTypeCorrect` | `Spec => []TypeOK` |
| | `SenderIsThere` | `Spec => []OpenCallHasSender` |
| | `NoWakeUpLost` | `Spec => []NeverWaitsInVain` |
| | `ResolvedByAnswer` | `Spec => []ResolvedByOwnAnswer` |
| `WapcGuestTaskProofs` | `GuestNeverTraps` | `Events = {}` gives `Spec => []NeverTraps` |
| | `TasksAreExhausted` | `Events = {}` gives `Spec => []QuietAtHost` |
| | `GuestKeepsProtocol` | `Events = {}` gives `Spec => KeepsProtocol` |
| `LoadingProofs` | `LoadingTypeCorrect` | `Spec => []TypeOK` |
| | `DirectoriesAreRight` | `Spec => []RightDirectories` |
| | `DirectoriesAreShared` | `Spec => []SameDirectories` |
| | `LinkingIsRepeatable` | `Spec => []LinkedByGuestAlone` |
| | `Wasm3IsReady` | `Spec => []Wasm3Ready` |
| | `Wasm3TrapsAreTheGuests` | `Spec => []TrapsOnlyOnForeignImports` |

**The call.**

- `TypeOK` is not inductive: that `starter` stays within `REQUIRED_STARTS`
  depends on init() running a starter only while it holds the store. `Locking`
  (the store belongs to the caller exactly while it runs the guest, to the
  handler exactly while it does) supplies that, and gives `Exclusion` at once.
- `Replies` ties the reply under an id to the state of its host call: none while
  the callback runs, the right one afterwards, and never one under the id of the
  invocation or of a synchronous call in progress. With it every step other
  than the end of a host call leaves all replies alone (`RepliesKept`), and that
  end writes an entry that had none. This gives `RepliesStable`.
- `Notifications` says that each message in the channel or with the handler
  belongs to a task that is done and whose reply is stored with the announced
  code. It is inductive only together with `Replies` (`DeliveredStable`): a
  reply could otherwise be replaced after it was announced.
- `Conversation` follows the invocation: which stages of the call go with what
  the guest has said (`Stages`), what the table and the oneshot hold of it
  (`Entries`: exactly what the guest has said so far, then nothing in the table
  and the answer in the oneshot), and the result (`Outcome`). The property
  `ResultMatchesGuest` alone says nothing before the call returns; `Entries` is
  what carries the guest's words through frames of two threads to the result.
- `Custodies` says who has the notification of each host call: its task, the
  channel or the handler, one of them, and once. `NotifiedExactlyOnce` compares
  only counts.
- `HostKeepsProtocol` needs these and `WithinBound` (no more host calls than the
  bound). Steps are sorted into those the protocol does not see (`SameView`) and
  one lemma for each kind of frame. The hypotheses exclude the faults of
  finding 1: a guest that traps, or is unwound, when called back ends its frame
  with the invocation open and nothing to wait for, which the protocol forbids,
  and which is why that call never returns. A panic in the caller's frame is no
  such exception: the caller gets it, and with it the invocation is answered
  (`PanicFrame`).

**The pool.**

- `TypeOK` is inductive only with `Size`: a new thread finds a free name
  because there are at most `max_threads` (what `Execute` assumes of rusty_pool),
  the queue holds at most one closure for each call past its check, which bounds
  it by the number of calls, and only a loop has a request.
- `Requests` says where a request is (`Located`) and that no two workers have the
  same one. `ExactlyOnce` counts places, and `LocatedOnce` derives the count. A
  loop that ends drops the tasks on its runtime, but these have been sent
  (`TasksWereSent`), so that the requests they sent stay where they are.

**The guest library.**

- `Sound`, for all events: a number given out belongs to a call with a state; a
  sender is in the table exactly while its channel is open and the host has not
  answered; futures are of calls that were made; what a suspended task awaits is
  owed. `OpenCallHasSender` alone is not inductive, as nothing in it keeps a new
  number from being one that is still in use (`NumberIsFresh`).
- `Single`, when a task awaits one host call at a time: who runs in which frame
  (`Frames`), and that each call in flight is held by one task, which holds
  no other (`OneCallEach`). Between polls this makes a bijection from suspended
  tasks to calls in flight (`OneTaskPerCall`), so that `tasks_count -
  num_in_flight` is the number of ready tasks (`CountOfTasks`): it never goes
  below zero, in either build, and is zero exactly when nothing is left to poll.
  The same bijection is what the protocol asks of a frame that ends with
  invocations open. The hypothesis `Events = {}` is the one under which the run
  `guest_liveness` checks these properties; with "join", "detach" or "refuse" the
  bijection fails and so do they (finding 4).

**Loading.**

- `Cached`: the cache has for a path a directory created there, and a context's
  directories are those of the cache at its host's paths. It is inductive
  because `get_dir` looks up, opens and inserts in one step (`GetDir`) and nothing
  is ever overwritten. `HostIdsAssumption` (there is a host) gives
  unused contexts a host of the right type.
- `Linked`: the provider's own linker has no host function, so every context
  starts from the same one; with the names of `HostExports` all different
  (`NamesDiffer`, `NoClash`), instantiating is the same as being compatible
  (`LinksCompatible`).
- `Linking`: by the n-th closure of the wasm3 init, exactly those of the first n
  that the guest declares with the same type are linked, and none that is
  required was passed over.

**Only model-checked.** Liveness under fairness, and anything that needs ENABLED,
is out of the prover's reach: `CallReturnsEventually`, `HandlerEnds`,
`CallsAnswered`, `ReceivedIsAnswered`, `ShrinksToMinimum`, `InvocationAnswered`.
So is what a recursive definition computes for every input (the modules have
none, nor RECURSIVE operators, with which the prover loses its SMT backend).

## Not modelled

- The guest's `console_log` and the copying of its buffers.
- A guest instance that is called again after a trap, as the handler of the
  Wasmtime provider would: what it finds is an executor abandoned in the middle
  of a run. `WapcGuest` ends there.
- A future of `async_host_call` that a synchronous handler hands to a task; in
  the model such a future is dropped. The `Err` of `recv.await` in it
  (`protocol.rs:340`) cannot occur: a sender leaves the table only to send.
- A synchronous host callback that blocks on the pool; it holds its worker as an
  asynchronous one does whose guest waits for it.
- `replace_module` and the counters of modules and contexts: they act between
  calls, and a context keeps the module it was made from.
- The arguments and environment that WASI passes on; compilation and its cache;
  the copying between host and guest memory; logging.
- The callbacks of `wasm3-provider`, written for an earlier `ModuleState` that the
  repository no longer has. `wapc-codec`, the pool builder and the error types
  have no state. Test guests and examples are programs that use the crates.

`WapcGuest` and `WapcCall` are not composed into one state machine: the two sides
disagree on who numbers host calls (finding 5), so the composed program does not
exist. `GuestProtocol` connects them instead, and abstracts from the numbers.

## Plan

The modules above are complete as planned and their safety is proved. What could
be added:

1. What `GuestProtocol` itself guarantees, as theorems about the abstract
   specification that both sides inherit through the refinements (an invocation
   is not both open and answered, what is owed was made).
2. The safety half of the liveness properties: for each place where an actor
   waits, the invariant that somebody else is left who will end the wait.
