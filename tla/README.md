# A TLA+ model of cpp-rpc

This directory holds a formal model of the RPC framework in `src/` and of the
concurrent utilities in `include/`: TLA+ modules translated from the C++ code,
the TLC configurations that check them on small instances, and proofs that TLAPS
checks for every value of the constants. Line numbers refer to the sources as
they are in the repository. `PROJECT.json` lists the runs, the line range behind
each definition, one mutant for each property (a plausible bug that the property
must catch), the hazards and the theorems.

## The system

A process has a **main thread**, which runs user code, coroutines, handlers and
the loop `Update()` or `Serve()`, and the **network thread** of the LLBC library,
which calls `RpcConnComp`. They share two single-producer single-consumer rings,
`sendQueue_` and `recvQueue_`, and nothing else. A third thread, of the ZooKeeper
library, delivers watch events.

| Part | Source | State | Operations |
|---|---|---|---|
| SPSC ring | `include/spsc_queue.h` | slots, `head_`, `tail_` | emplace, pop, size, destructor |
| Client | `rpc_channel`, `rpc_coro`, `rpc_coro_mgr`, `rpc_controller`, `rpc_conn_comp`, `rpc_service_mgr` (`HandleRpcRsp`) | suspended contexts, timeout heap, coroutine frames, controllers | CallMethod, Update (HandleCoroTimeout, Tick), KillCoro |
| Blocking calls | `rpc_channel`, `rpc_conn_mgr` | poll counter | BlockingCallMethod, BlockingRecvPacket |
| Server | `rpc_service_mgr`, `rpc_server`, `rpc_conn_comp` | live controllers and messages, sessions | HandleRpcReq, handlers, OnRpcDone, OnUpdate |
| Lifecycle | `rpc_client`, `rpc_server`, `rpc_conn_mgr` | `initialized_`, `stop_`, `is_server_`, `svc_`, LLBC | Init, Listen, Serve, Destroy, SIGINT |
| Registry | `rpc_registry`, `zk/zk_cpp`, `rpc_service_mgr` | ZooKeeper nodes, sessions, watches; cached list | RegisterService, InitServices, watch, reconnect |
| MPMC ring | `include/mpmc_queue.h` | slots, a turn per slot, tickets | emplace, pop |
| Logger | `include/logger.*` | level, queue, log thread, file | init, log, processLogTasks, destructor |
| Schedulers, pool | `include/scheduler.h`, `thread_pool.h` | task container, condition variable, ids | add, cancel, execute, stop, destructor |
| Hash map | `include/hashmap.h` | table, size | insert, erase, `operator[]`, rehash, move |
| UringFile (in Logger) | `include/uring_aio.h`, `file.h` | submission and completion queues, buffers, `pending_` | open_file, write_async, fsync_and_wait, wait_all, close_file |
| Deque | `include/deque.h` | chunk map, chunks, two iterators | push, pop at both ends, erase, copies, moves |
| Vector | `include/vector.h` | block, size | push_back, pop_back, resize, reserve, clear, copies, moves |
| String | `include/str.h` | buffer in the object or on the heap, size | push_back, append, `+`, resize, reserve, clear, `>>`, copies, moves |
| Generator, singleton, macros | `include/generator.h`, `singleton.h`, `rpc_macros.h` | not modelled: thin wrappers | |

A call goes through the parts like this. A coroutine calls a stub;
`CallMethod` draws a sequence number, stores a context in the map and in the
timeout heap, and pushes a packet into `sendQueue_`. The network thread sends it.
At the server the packet goes through `recvQueue_` to `HandleRpcReq`, which
creates a controller and starts the handler; `OnRpcDone` pushes the answer and
deletes the controller. Back at the client, `Tick` pops the answer,
`HandleRpcRsp` finds the context by its number, reads the body into the caller's
response object and resumes the coroutine, which may at once make its next call.
Each `Update()` first kills the calls whose deadline has passed.

What is hard here, and what the properties are about:

* a response and a timeout race for the same call, contexts stay in the heap
  after the answer, and a resumed coroutine makes new calls while the frames
  below it on the stack have not finished;
* packets are dropped silently when a ring is full, an encoding fails or a session
  is gone, so only the timeout stands between a lost packet and a coroutine that
  waits for ever;
* the rings are lock-free, and each thread works with an old copy of the other's index;
* handlers finish in any order, for sessions that share their sequence numbers;
* a server ends or loses its ZooKeeper session at any moment, and watch events
  arrive between any two steps of the main thread;
* the pool and the logger are destroyed while tasks and lines are still queued;
* the containers manage raw memory themselves: holes in probe chains, chunks freed at
  either end, pointer arithmetic with unsigned numbers, terminators nobody writes.

## Modules

`SPSCQueue` implements `BoundedFifo`; `RpcClient`, `RpcServer` and `BlockingCall`
use the rings as bounded sequences on the strength of that. `RpcSystem` composes
`RpcServer` with the steps of `RpcClient` and implements `RpcClient`. `HashMap`
implements `AbstractMap`; `Deque`, `Vector` and `String` implement `AbstractSeq`, in
which a call leaves the sequence that it should. `MCContainers` puts the four
containers, `MCProcess` the two roles of a process (`BlockingCall`, `Lifecycle`) and
`MCQueues` the two rings into one run each, one at a time; the parts of each share no
state. `Containers` is the part of `MCContainers` that there are proofs about, the
deque and the vector. The other modules stand alone. The names in `Registry` begin with
`Registry` where a reader would expect `Init`, `Next` or `Spec`, because one proof module
is about it and about `MCProcess`. An operator called a *mutant* in its comment is
a changed version of the definition that follows it; no specification uses it.

**`SPSCQueue`** models each atomic access of `emplace` and `pop` as a step. A load
of the other thread's index returns any value since the one it returned last
(`Loadable`), which is all that the coherence of a C++ atomic guarantees; the
release/acquire pair then makes the slot's content visible. So the model is weaker
than sequential consistency. A slot holds an object or `Raw`.

**`RpcClient`** has the main thread (`Start`, `Call`, `Finish`, `Kill`,
`TimeoutSkip/Kill/Break`, `TickResume/Drop/Done`), the network thread (`OnUpdate`,
`OnRecvPacket`) and an environment that answers a request at most once, at any
time, or never. Everything the main thread does between two accesses of a ring is
one action, except that resuming a coroutine hands control to it: `run` is the
coroutine that has control, `killing` the context `KillCoro` erases when control
comes back. `OnRecvPacket` replaces the status of a packet by 0, as the code does.

**`RpcServer`** follows a call from the wire through `inQ`, `serving` (its
controller and messages exist) and `outQ` back to the wire. `OnRpcDone` may find
the ring full or fail to encode, and cleans up in every case. The server ends at
any time. A session that closes is not a state of its own (`OnSessionDestroy` only
logs): each send may fail and each packet may be lost, which includes that all do
from some moment on.

**`RpcSystem`** joins one client to one server session, with peers on the other
sessions. The wire is a set: packets are lost and overtake each other, which
includes what TCP does. `reqNet`, `rspNet` and `srvFailed` of `RpcClient` are
state functions of the server and the wire (the refinement mapping), so that the
composition discharges what `RpcClient` assumes of its environment.

**`BlockingCall`** has a process that makes only blocking calls. All packets carry
sequence number 0; the model remembers which call a packet belongs to only to
state the properties.

**`MPMCQueue`** has tickets drawn by `fetch_add`, the wait for the slot's turn, the
use of the slot and the hand-over, each a step. An old value of a turn only makes
the waiting loop go round once more, so atomic reads lose nothing.

**`Logger`** puts logging threads and the log thread on that queue (the n-th pop
gets the n-th emplace), with `init` called once or twice and the destructor at any
moment. The log thread, and after it the destructor, use the file.

**`UringFile`** is that file: `File` over `UringAIO` in the one instance the code
has, with a kernel thread that polls the submission queue and a registered file.
The kernel sees an entry once a submit has published it, takes entries in order and
completes them in any order, also the `fsync` before the writes; writes succeed,
fail or are short, opens and submits fail. A call on the file is several steps, with
the kernel in between.

**`Scheduler`** has the three schedulers, told apart by `kind`, with the pool's
threads on one of them. A critical section is a step; `notify_one` after the
unlock is another, and wakes any waiting thread. Waits end spuriously. Tasks add
and cancel tasks. `stop()` may overtake an `add()`.

**`HashMap`** has every hash function as an initial state, and fresh entries that
hold any key, because `new Entry[n]` leaves `key_` of a type like `int`
uninitialized and `find_index` compares it.

**`Deque`** has the map of chunks, the chunks that are allocated, and `start_` and
`finish_`, and computes positions as the iterators do, with the unsigned arithmetic
of `operator+=`: `Word` stands for 2^64 and `PtrSize` for the size of a pointer. A place
in a chunk holds an object or `Raw`, so that a leaked chunk, an object constructed twice
and a read outside of the chunks can be told.

**`Vector`** and **`String`** have their block, place by place. A string keeps up to
`MIN_CAPACITY` characters in the object and more on the heap; going back from the heap
leaves any bytes in the object, those of a pointer. `c_str()` reads to the first null
character, which need not be at `size()`. `Spec` of `String` is every program, `CarefulSpec`
one that calls `push_back`, also through `+` and `>>`, only where the character behind is
null (`Pushable`), and puts no null characters into the text. The vector is that of a
program that does not push an element of the vector itself when it is full.

**`Registry`** has ZooKeeper as an external service (sessions, ephemeral nodes,
one-shot watches), servers that register, exit, crash, restart and reconnect, and
a client that reads the list, sets the watch, adds the handler and stores the list, each
a step. The event thread looks for the handler and reads the list in one step and calls
the handler in another, also between the client's last two.

**`Lifecycle`** has the flags that `Init`, `Listen`, `Serve` and `Destroy` test and
set, each step succeeding or failing, and SIGINT between any two steps.

## Runs

`tlc -config <run>.cfg <module>`; all bounds are constants of the modules. Each
module's type invariant is a conjunct of one of the invariants that are checked.

| Run | Distinct states | What it checks |
|---|---|---|
| `Queues` | 90 thousand | `SPSCQueue`: four slots, two values. The inductive invariant `SpscRingInv` (`RingInv` of `SPSCQueue`): views of the indices are old but in order, objects live just in the occupied slots, the destructor leaves none; the ring is a FIFO of three elements (`ImplementsFifo`); the front is popped (`FrontIsPopped`). `MPMCQueue`: two producers, two consumers, two slots, two turns. A slot has one user (`SlotIsExclusive`); the n-th pop gets the n-th emplace (`TicketOrder`); nobody waits in a circle (`EveryCallReturns`); and the inductive invariant `RingInv`. |
| `RpcClient` | 119 thousand | Two coroutines (one without a response object), two calls, timeout 1, three clock values, rings of one element. No suspended coroutine is forgotten (`NoneForgotten`); success means the response to one's own call (`SuccessMeansOwnReply`); no expired call survives `HandleCoroTimeout` (`NoExpiredLeft`); control goes only to new or suspended coroutines (`ResumeOnlySuspended`); every call ends (`EveryCallEnds`); and the inductive invariant `ClientInv`, by which contexts belong to coroutines suspended on that call. |
| `RpcClientStatus` | violation | `ServerFailureReported`: see Disagreements. |
| `RpcSystem` | 366 thousand | One client with two calls, a peer with the same sequence number, rings of one element, a server that ends at any time. The composition implements `RpcClient` (`ImplementsClient`); a call that succeeded was executed, and none is executed twice (`SuccessMeansExecuted`); each call is handled and answered at most once (`AtMostOnce`), and answered with its own status (`StatusTold`). |
| `Process` | 19 thousand | As a client: four blocking calls, two polls each. A call gets its own response as long as none has timed out (`OwnUntilTimeout`); the packets under way, but for one of the call that waits, are no more than the calls that timed out (`StraysAreTimeouts`); calls return (`CallReturns`). As a server: up to twelve services created one after the other. `Serve` runs only on a service that is up and listens (`ServesWhileUp`). |
| `Containers` | 43 thousand | Hash map: three keys, every hash function into four values, tables of two and four entries, for programs that never insert past a hole; the unbounded search for a free entry ends (`ProbeEnds`), and look-ups and size are those of a map (`ImplementsMap`). Deque: four elements in chunks of two, maps of up to six nodes; every chunk has one owner, objects live just between the iterators and `back()` is the last element (`DequeInv`); it is a sequence (`DequeIsSequence`). Vector and string: four elements, `MIN_CAPACITY` two; they are sequences, too (`VectorIsSequence`, `StringIsSequence`), the string for careful programs. |
| `HashMapInsert` | violation | `SizeIsCount` for every program: see Disagreements. |
| `DequeBack` | violation | `BackIsLast` with chunks larger than a pointer: see Disagreements. |
| `StringPush` | violation | `PushedIsSeen` for every program: see Disagreements. |
| `Scheduler` | 86 thousand | The three schedulers, two threads, one client, three tasks, three clock values. No task is lost, run twice or run after its cancellation, and `id_it_map_` has the queued events and no dangling iterator (`InOnePlace`); the destructor drains (`DestroyedDrained`); FIFO order (`FifoOrder`); no lost wake-up (`NoLostWakeup`); tasks run (`EveryTaskRuns`) and the destructor returns (`DestructorReturns`). |
| `Logger` | 133 thousand | Two threads, two slots, three lines, a submission queue of two entries. What was logged before the destructor is in the file when it returns (`NothingUnwritten`); every buffer lives until the ring has done with it and no longer, `pending_` counts the entries, and few wait for a submit (`BuffersAlive`); `log` returns (`LogReturns`); the destructor returns (`DestructorReturns`). Each of them unless a submit fails, and the first but for lines that could not be written. |
| `Registry` | 1 million | Two servers, four sessions. A server that was told it is registered is listed, but for two named cases (`RegisteredIsListed`); no change of the children is missed, but for three named cases, whatever the event thread does before the list is stored (`NoChangeMissed`). |

**Why the bounds are enough.** The rings fill, empty and wrap at every offset. Two
calls are enough for a late response to meet the coroutine's next call, for two
deadlines to tie in the heap and for a stale entry to lie above a live one; the
timeout is one tick and the clock goes on after it. Two sessions with one shared
number are enough to confuse answers. Two turns on two slots let tickets of
different turns meet in a slot. Three lines and the `fsync` fill a submission queue
of two entries while a completion waits, and let a submit fail (as in the code, the
batch of completions is no larger than that of submits). Three keys make a probe chain with a hole in the
middle. Four elements fill two chunks and a third, at either end, and make the
deque's map grow once; a vector grows twice, and a string moves to the heap and back. For
every module but `HashMap` and `String` the proofs remove the bounds for safety.

**Fairness.** Liveness assumes only what the code's scheduling gives. `RpcClient`:
the user keeps calling `Update()`, a coroutine with control awaits or returns at
last, and time passes; nothing of the network, the network thread or the server.
`SPSCQueue`: the consumer keeps popping, and a store becomes visible in finite
time. `BlockingCall`: the main thread runs. `MPMCQueue`, `Scheduler`, `Logger`:
threads inside a call run when they can, tasks end, time passes; nobody has to
call anything again, and spurious wake-ups are not relied on; for `Logger`, the kernel also executes what
was submitted. Deadlock is checked where the system cannot stop; the runs
that switch it off end in states where all calls were made or the object is
destroyed.

## What is proved

TLAPS checks the theorems for every value of the constants, from the assumptions named in
the modules. Most of them only say that a constant is what it stands for: at least one
slot, session or worker, a positive timeout, `Me \in Sessions`, producers that are not
consumers, special values outside the sets they complement. Those that say more are

* `PendingMod > MaxLines + 1` (`LoggerAssumption`): the counter `pending_`, a `size_t`, does
  not wrap upwards;
* `Word > MaxLen + ChunkSize` and `Word > MaxNodes * PtrSize` (`DequeAssumption`): the deque
  and its map fit in the address space; `Word % PtrSize = 0`: both are powers of two;
  `MaxNodes > (MaxLen \div ChunkSize) + 2`: the bound on the map leaves room for a deque of
  `MaxLen` elements;
* `PtrSize % ChunkSize = 0`, a hypothesis of `DequeReadsBack` alone: see `DequeBack` under
  Disagreements.

Each bullet names a proof module, its theorems, and the inductive invariant behind them.

* **`QueueProofs`**, the two rings (`MCQueues`).
  `SPSCQueue`: `SpscInvariant`, `NeverOverwrites`, `NeverLeaks`, `RingImplementsFifo`.
  `NoOverwrite` is not inductive: it needs to know that the
  index a thread saw last is *old but in order*. `RingInv` says that the head
  seen by the producer, `head_`, the tail seen by the consumer and `tail_` follow
  each other within one turn (`ViewsInOrder`), and exactly which slots hold
  objects (`LiveSlots`). The refinement maps the slots from `head_` to `tail_` to
  a sequence.
  `MPMCQueue`: `MpmcInvariant`, `SlotsAreExclusive`, `PopsInOrder`, for any
  threads, slots and tickets. Its `RingInv` says that tickets are drawn once
  (`DrawnInv`), that a thread uses a slot only in its turn (`TurnInv`), and that a
  slot handed to a consumer holds the value of its ticket (`DataInv`). The argument
  rests on one fact about `idx` and `turn` (a ticket is known by its slot and its
  turn) and on parity: a producer's turn is even and a consumer's odd.
* **`RpcClientProofs`**: `ClientInvariant` and from it `FindsWaitingCoroutine`,
  `ForgetsNone`, `OwnReply`, `EndsExpired`, `ResumesSuspended`. The properties
  support each other: that only the owner's own reply is read needs that contexts
  belong to waiting coroutines, which needs that the erase after `KillCoro`'s
  resume hits no newer context, which needs that numbers in use were generated
  (`ControlInv`). `ClientInv` is their conjunction.
* **`RpcSystemProofs`**. The server alone: `ServerInvariant`, `ServesAtMostOnce`,
  `TellsStatus`. `ServerInv` says that a call is in one place: on the wire, in one cell of
  the ring, with its handler, or answered.
  The composition: `SystemImplementsClient`, for any number of sessions and
  peers. With the theorems about `RpcClient` it carries all of the client's safety
  properties over to the whole system. Every server step maps to a reply, a loss
  or a stutter of the client's environment; `ServerInv` rules out a second reply.
  `SystemServesAtMostOnce` and `SystemTellsStatus` carry the server's theorems over.
  `SuccessIsExecuted` needs both halves: the client knows that a success holds the
  reply to its own call, the server that an answered call was started, and
  `RepliesExecuted` links them, from the wire through the client's ring to the
  response object.
* **`ProcessProofs`**, the main thread of a process and the registry.
  `BlockingCall`: `CallInvariant`, `OwnResponse`, `StraysBounded`. The last is a
  count: the packets in the rings and on the wire are no more than the calls that timed
  out, plus the one that waits. It bounds how many late responses can still be taken for
  another call's; it does not say how far back such a call lies. That a call gets its own response needs that, before the
  first timeout, every packet anywhere is of the current call (`AllOfCall`), and that
  a new call has no packets yet (`FreshCall`).
  `Lifecycle`: `LifecycleInvariant`, `ServesOnlyUp`. That `Serve` runs on a service that is up
  is a matter of the step before it: `stop_` is unset only when the service that was made
  last listens (`LifecycleInv`).
  `Registry`: `RegistryInvariant`, `RegisteredStaysListed`, `ChangesTold`, for
  any servers and number of sessions. A registered server is listed because the node
  belongs to its session and only the end of that session removes it, which needs that
  no two processes have the same session (`SessionInv`). That no change is missed is
  carried from the read that sets the watch over the two steps that add the handler and
  store the list: all along the watch is set and the newest list is current, or an event
  is on its way. The newest list is the one read with the watch until the event thread
  reads another, which it can from the moment the handler is added (`WatchInv`).
* **`SchedulerProofs`**: `PoolInvariant`, `TasksInOnePlace`, `DestructorDrains`,
  `FifoInOrder`, `WakeupsKept`, for any threads, tasks and times and each kind of
  scheduler. `InOnePlace` says that the accepted tasks are, disjointly, the queued ones,
  those in the hands of one thread each, the finished and the cancelled ones. It needs
  that a task about to be added has an id of its own (`AddInv`). That the destructor drains
  needs that a thread leaves `execute()` for good only with the scheduler stopped and the
  queue empty, after which `add()` throws (`StopInv`).
* **`LoggerProofs`**: `LoggerInvariant`, `BuffersStayAlive`, `NothingLeftUnwritten`, for any
  threads, lines, slots and ring entries. That nothing is left unwritten spans the queue, the
  log thread, the destructor and the kernel: a line that was logged before the destructor is
  drawn before the log thread sees `stop_` with an empty queue, and the file is used by one
  thread at a time (`ThreadsInv`); each line handed to the file is in it, lost or in an
  entry not completed, each entry is in one place (`EntriesInv`), and `pending_` counts the
  entries (`BuffersAlive`), so that none is left when `wait_all` has seen it reach 0.
* **`DequeProofs`** and **`ContainersProofs`**. The deque: `DequeInvariant`,
  `DequeOwnsChunks`, `DequeReadsBack`, `DequeImplementsSequence`, for any values, chunk size
  and length. `DequeShape` says that the nodes from that of `start_` to that of `finish_`, and
  no others, have a chunk each (`Chunks`), and that objects live just between the iterators
  (`Whole`). `DequeProofs` shows what each operation does to the places: where element
  k lies, that a push makes room first, also in a map that has grown, that a pop frees the
  chunk it leaves, that an iterator moved by k with unsigned arithmetic gets to element k, and
  what `erase`, a copy and the destructor leave. `ContainersProofs` joins this into one step
  per call. That a new chunk can be had, with an address not in use, is a matter of counting
  (`Counting`).
  The vector: `VectorInvariant`, `VectorImplementsSequence`. Objects live in just the first
  `size_` places of the block (`VectorInv`), so each operation constructs and destroys as
  the sequence says.

Only model-checked:

* liveness, on every run: TLAPS has no proofs under fairness here;
* the hash map (`ProbeEnds`, `ImplementsMap`): what `rehash()` leaves is defined by
  recursion along the table, and to say that it keeps the entries needs induction over it;
* the string (`StringIsSequence`), about which nothing is proved.

## Disagreements between the code and what it says

Shown by a run:

* **A server-side failure never reaches the caller** (`RpcClientStatus`).
  `OnRecvPacket` (`rpc_conn_comp.cpp:52`) copies the packet with status 0, so the
  branch "failed due to other reasons" (`rpc_service_mgr.cpp:123`) is dead and a
  failed call ends as a success.
* **`HashMap::insert` stores a key twice** (`HashMapInsert`). It takes the first
  free entry (`hashmap.h:104`) without looking for the key behind it; after an
  `erase` before it in the chain, `size()` counts the key twice.
* **`Deque::back` reads outside of the deque** (`DequeBack`). `finish_ - 1` adds
  2^64 - 1, and `operator+=` (`deque.h:110`) divides that sum as an unsigned number. When
  the step crosses into the previous chunk the node it names is right only if the chunk
  size divides the size of a pointer, as 4 and 8 in the tests do; with the default
  `CHUNK_SIZE` of 128, `push_front(7)` on an empty deque followed by `back()` reads through
  a pointer outside of the map. `deque_test.cpp:150` expects the last element. With small
  chunks `Containers` shows that `back()` is right.

* **`String::push_back` leaves no terminator** (`StringPush`). It writes the character at
  `size_` (`str.h:99`) and nothing behind it. After `append("aa")`, `clear()` and
  `push_back('a')`, `c_str()` is still `"aa"` while `size()` is 1; `string_test.cpp:163`
  expects `c_str()` to be what was pushed. `operator>>`, which clears and pushes, over a
  longer string leaves its end there. `Containers` shows that the string is right where
  the next character is null already.

Exceptions that the passing properties state, or that the model has without a run
of its own:

* after a blocking call has timed out, its late response is taken for the response
  to the next one (`rpc_channel.cpp:144`). `OwnUntilTimeout` says that this needs a
  timeout, and `StraysAreTimeouts` bounds the packets left; a response that was on the
  wire for long may be that of any earlier call;
* `Reset()` of a controller does nothing (`rpc_controller.h:16`), so a call on a controller
  that failed before ends as failed, whatever its response;
* a child event between setting the watch and adding the handler
  (`zk_cpp.cpp:396`) is dropped and the watch is never set again (`early` in
  `NoChangeMissed`); and the watch only logs, the cached list is never renewed. An event just
  after the handler was added is told before the older list is stored (`zk_cpp.cpp:399`);
* a server whose ZooKeeper session expired does not create its node again, and one
  that restarts quickly takes over the node of its former session (`excused` in
  `RegisteredIsListed`);
* `is_server_` survives `Destroy()` (`rpc_conn_mgr.cpp:60`), so a server that was
  initialized again cannot listen again: in `Lifecycle`, `ListenDone` is then
  never enabled; and an `Init` that fails after LLBC was started leaves it started
  (`rpc_client.cpp:62`), so that no later `Init` succeeds;
* two timer events of the same time are refused as a "double add"
  (`scheduler.h:195`, `AddThrow`);
* a second `Logger::init` joins a thread nobody stops (`logger.cpp:33`, `InitAgain`);
* when `io_uring_submit` fails, `write_async` deletes a buffer whose entry stays in
  the queue and does not count it (`uring_aio.h:117`): the kernel may read the freed
  buffer, its completion deletes it again, and `pending_` may pass below zero, after
  which `wait_all` never ends (`broken` in `UringFile`);
* a short write counts as complete (`uring_aio.h:233`, `lost`), and the `fsync` of
  `fsync_and_wait` is not ordered after the writes that it is waited for with;
* a moved-from heap string, and a copy of an empty one, have capacity 0, which
  `push_back` doubles to 0, and then it writes over the only null character (`str.h:97`);
  null characters inside the text, as `resize()` puts there by default, end it for
  `strcpy`, so that growing or a copy loses what follows; `operator>>` does not end at the
  end of the input;
* `Vector::push_back(v[i])` at full capacity reads the element after its block was freed
  (`vector.h:80`);
* the deque's map doubles whenever either end reaches its edge, however few nodes are in
  use, so that of a deque used as a queue grows without bound (`deque.h:415`); popping an empty deque is not checked;
* `SPSCQueue::size` (`spsc_queue.h:62`) subtracts unsigned numbers and is wrong
  once `tail_` has wrapped and `head_` has not; nothing but a unit test calls it.

## Not modelled

* **LLBC** (`3rd/llbc`), which is vendored and by far the most of the lines in the
  repository, and the ZooKeeper and protobuf libraries. They are modelled only as the
  framework uses them: sessions, sends that fail, packets that arrive or do not, a
  started or stopped library, ephemeral nodes and one-shot watches. Packet pools, which
  LLBC shares between threads without locks, are left out. The lines that the model
  stands for are therefore about half of `include/` and `src/`, and about one in a
  hundred of all.
* **Generator, singleton, macros**: `Generator` wraps one coroutine handle and is
  used by no other part; `Singleton` is a function-local static; the macros log and
  return early, and their early returns are in the actions of the modules that use them.
* **Demo programs and generated code**: they call what is modelled.
* Text, logging and protobuf encoding: a packet is its call, a body is readable or
  not.
* Sequence numbers have 64 bits and do not wrap here. The clock does not go back.
* The destructor of `MPMCQueue`, which destroys slots never constructed; copies of
  `HashMap` and its `insert(const Key&, const Value&)`, which names members that do not
  exist; `Deque::erase(iterator)`, which needs an operator that does not exist; and
  `handle.done()` read after `resume()` for a log line.
* Use against the documented order: `Destroy()` between `Listen()` and `Serve()`,
  blocking and coroutine calls mixed in one process, nested coroutines.
* `RpcServiceMgr::RegisterRpcChannel`, which opens a connection to a random address of the
  cached list and keeps it in a map for ever.
* Data watches, `exists`, `set` and ACLs of `zk_cpp`, which nothing here uses.
* Calls that change nothing are stutters: `cancel()` of an id that is not queued,
  `erase()` of an absent key, calls that throw.
* `Logger` uses the promise of `MPMCQueue` (the n-th pop gets the n-th emplace), not its
  steps.
