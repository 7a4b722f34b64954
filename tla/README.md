# A TLA+ verification of pqnet

pqnet is a C++11 network library for Linux after the Reactor pattern: event
loops around edge-triggered epoll, TCP servers with one accepting loop (the
leader) and one loop per processor for the connections (the followers), timers,
buffers, and a few utilities (thread pool, loggers). The repository also holds
examples that use the library and `raw-examples`, self-contained programs around
queues, locks, timers and servers. This directory models the parts of it that
carry its logic, checks them with TLC on small instances, and
proves some of the results for instances of every size with TLAPS.

`PROJECT.json` lists the components, the runs, the mutants that show each
property to be sensitive to the code, the source lines of every definition, the
hazards and the theorems. This file explains them.

## 1. Inventory

| Component | State | Operations | Works with | What is hard | What makes it correct |
|---|---|---|---|---|---|
| `Buffer` (core/buffer) | byte vector, reader and writer index | append, get, integer variants, readFrom (recursive), writeTo | TcpConnection | growth, moving bytes, recursion over an fd that changes | FIFO byte queue; result of readFrom; when append is safe |
| `Trigger` (core/trigger) | fd, events, revents | addToLoop, likeWriting, ..., handleEvent | epoll | edge triggering | handlers run in order; nothing waits for an edge that is not coming |
| `TimerQueue`, `Timer` (core/timerqueue, timer.h) | ordered set of (end, timer), `rhTimerId` | addTimer, delTimer, handle, getExpire | EventLoop, user callbacks | callbacks change the set that is being walked; ids; 32-bit arithmetic | one-shot once, periodic for ever, never early, cancelled never |
| `EventLoop` (core/eventloop) | loop flag, functor queue under a mutex, timer queue | loop, quit, pushFunctor, runFunctors, runAfter, ... | all of the above | functors pushed by other threads; EINTR; quit before loop | functors run in order, in the loop's thread |
| `EventLoopThread(Pool)` | threads, round-robin index | start, join, getNextEventLoop | TcpServer | joining a thread that never quits | every follower can be joined |
| `TcpConnection` (core/connection) | status, both buffers, write interest | connectEstablished, connectDestroyed, send, shutdown, handlers | Trigger, EventLoop, TcpServer, user | partial writes, half-close, hang-ups, raw `this` in functors | byte stream intact, output drains, close noticed |
| `TcpServer` (core/server) | connection pool by descriptor, leader, followers | start, onAccept, removeConnection, shutdown, destructor | all loops | descriptors closed in one thread and reused in another; shared_ptr lifetimes; shutdown at any time | one close and one destruction per connection, objects outlive their registration, clean exit |
| `TcpClient` (core/client) | one connection, one loop | start, shutdown, destructor | TcpConnection | hang-up before destruction | descriptor closed once |
| `ThreadPool` (util/threadpool) | flags, task queue, condition variable | run, addTask, shutdown, destructor | users | lost wake-ups, shutdown racing submitters | queued tasks run; destructor returns |
| `AsyncLog`, `Logger` (util) | singleton, log queue, file | addLog, consume, rotation, static destructor | every component | as ThreadPool; file closed before the queue is drained | every log written once |
| `http` (core/http) | parsed request, routes | parse, handle | user | pure algorithm | |
| socket, ipaddr, endian, platform, timestamp, random, signal | none, or a table | wrappers | | | |
| examples/rand64k | bytes left to send, timers, a package | onConnect, onMsgArrived, onClose, signal handler | TcpClient, TcpServer, the network | TCP cuts packages; peer, signal and last acknowledgement race | close reported once; what is counted has arrived; the sender gets through |
| lockFreeQueue/spsc, mpmc | ring of slots, atomic indices, counts per slot | push, pop | threads of their programs | unlocked accesses, wrap-around | a slot has one user; values come out once and in order |
| doublebufferedqueue, ringbuffer | two queues; ring with two indices and `full` | push, pop; append, get | one producer, one consumer | unlocked `empty()`; indices that may equal SIZE | first in, first out |
| rwlock, semaphore, countdownlatch | counters, condition variables | lock, wait, post, countDown | threads of their programs | lost and stolen wake-ups, wait without predicate | exclusion, order, everybody ends |
| linux/shm | segment, two semaphores | one process writes, one reads | kernel | either starts first, either removes the objects | turns taken, no message lost |
| timingwheel/1, /2 | lists of timers by slot; five cascading wheels | addTimer, delTimer, handle | callbacks | callbacks change the list that is walked; borders of wheels | every timer in its own tick |
| linux/timerqueue | ordered set, timerfd | addTimer, delTimer, handle | kernel, callbacks | the descriptor is the only alarm | armed for the first timer |
| win32/iocp | contexts, completion port | main, routine | kernel, threads | ownership of a context, failures of every kind | one owner, never used deleted; stops |
| win32/select, common, linux/unixsock | set of sockets, or one | select, accept, recv, send | clients | the set is walked while it changes; errors end the server | an accepted client gets its echo |

Two threads meet at these places: the functor queue of a loop (any thread pushes,
the loop's thread swaps it out under the mutex), the descriptor table of the
process (followers close, the leader accepts), the plain flag `loopFlag`, and
the mutex and condition variable of `ThreadPool` and `AsyncLog`. Everything else
of the library belongs to one loop's thread; there the difficulty is the order of callbacks, and the user code
that runs inside them.

## 2. Modules

| Module | Models | Kind |
|---|---|---|
| `ByteQueue` | what a buffer promises: a FIFO byte queue with guaranteed room | abstract |
| `Buffer` | core/buffer.cpp, .h | detailed; refines `ByteQueue` |
| `TcpConnection` | core/connection.cpp and trigger.cpp, one connection in its loop | detailed |
| `ConnectionLife` | what a server promises about connections: who serves which, in what order, and how each ends | abstract |
| `TcpServer` | core/server.cpp, eventloop.cpp (round and functors), eventloopthread(pool).cpp, life cycle of connections | composition; refines `ConnectionLife` |
| `TimerQueue` | core/timerqueue.cpp, timer.h, and the loop that calls it | detailed |
| `ThreadPool` | util/threadpool.h, .cpp | detailed |
| `AsyncLog` | util/asynclog.h, .cpp | detailed |
| `Rand64k` | core/client.cpp and the sender and receiver of examples/rand64k | composition: client, network, server's user |
| `SpscQueue`, `MpmcQueue` | raw-examples/cpp11/lockFreeQueue | detailed |
| `DoubleBufferedQueue`, `RingBuffer` | raw-examples/cpp11 | detailed |
| `RWLock`, `Semaphore`, `CountDownLatch` | raw-examples/cpp11 | detailed |
| `ShmChannel` | raw-examples/linux/shm | detailed |
| `TimingWheel`, `TimerManager` | raw-examples/cpp11/timingwheel/1 and /2 | detailed |
| `FdTimerQueue` | raw-examples/linux/timerqueue | detailed |
| `IocpServer` | raw-examples/win32/iocp | detailed |
| `EchoServers` | raw-examples/win32/select, common, client.cpp and linux/unixsock | detailed |
| `MCSync` | the queues, locks and channels above, side by side | model checking |
| `MCNet` | the timers, servers and `Rand64k`, side by side | model checking |
| `Buffer_proofs`, `TcpConnection_proofs`, `TcpServer_proofs`, `TimerQueue_proofs`, `ThreadPool_proofs`, `AsyncLog_proofs`, `MCSync_proofs`, `MCNet_proofs` | theorems about the module they extend and those it instantiates | proofs |

Definitions keep the names of the C++ functions and members. The modules of the
library get the values of their `CONSTANTS` from `.cfg` files of their own. The
programs of raw-examples are small and independent: `MCSync` and `MCNet`
instantiate several of them each, a variable `program` says which one runs, and
the others stay in their initial states, so that one run covers all behaviours of
each (and no product of two). Definitions named
`Mut...` are plausible bugs: none is used by the specifications, and each one,
put in the place of the definition below it, breaks a property.

### Buffer

State: the vector, `readerIndex`, `writerIndex`, and for the recursion of
`readFrom` the bytes read by the levels that wait. Every public operation is an
action. A read returns any number of bytes up to the room, an end of stream or an
error, independently at each level. `append` past the end of the vector is
undefined behaviour in C++; the model sets `overrun` and stops, and
`AppendContract` says exactly when it cannot happen.

### TcpConnection

The loop thread's control is `pc`: waiting, handling the events of a round,
running functors, or in a user callback, where the user may send, read the input
buffer and call `shutdown()`. The kernel is external: receive count, end of
stream, a bounded send buffer, reset, and membership of epoll's ready list
(`armed`), which an edge or an `EPOLL_CTL_MOD` sets and `epoll_wait` clears. Of
received bytes only the number matters, because `Buffer` has shown that their
order is kept; sent bytes are numbered, because `send` has two paths. A write to a
reset socket raises SIGPIPE, which pqnet never ignores: the state `killed` is
final, so these runs do not check for deadlock.

`outputBuffer` is a `Buffer`, so `append` keeps its size and reader index
(`outCap`, `outRead`): too long a remainder runs past the vector, which sets `overrun`
and ends the run, and `OutputRoom` says that this takes more pending bytes than the
buffer's first size. The close callback runs in the middle of `handleClose` and of
`connectDestroyed`, while the connection is still CONNECTED: the states "close" and
"destroy" of `pc` are where it returns to, and it may send or call `shutdown()`.
`connectDestroyed` comes from the leader, which answers a removal, or from
`~TcpServer`, which may push it at any moment while the connection is in the pool
(`pool`). `shutdownInLoop` is bound to a bare `this`: `ShutdownBeforeDestroy` says what
holds the object for it, and that one runs behind `connectDestroyed` only while the
server is being destroyed, when the pool outlives the loop.

### TcpServer

The main thread's control is `lpc`, a follower's is `pc[f]`. A loop's round is:
wait, handle events, swap the functor queue, run the batch. The batch keeps its
shared pointers until it ends, as the local vector of `runFunctors` does. A
descriptor (reused, lowest first), the socket behind it, and the object that holds
its number are three different things in the model; `close` and `epoll_ctl` act on
the socket that the number stands for at that moment. `Alive` is the set of
objects to which `connpool` or a functor holds a shared pointer. The wake-up
through the eventfd is left out: `epoll_wait` always has a timeout, so it changes
how soon, not whether, functors run.

Of the traffic it keeps what makes triggers ready. `PeerHangsUp` ends a stream, with
unread data in front of the end (`behind`) or not; `Traffic` makes a socket ready again,
as data, room to write (EPOLLOUT), `EPOLL_CTL_MOD` or a reset do, and a read of a socket
at the end of its stream runs `handleClose` each time, as the code does, since
`handleClose` tests the status for the close callback only. So one FIN may remove a
connection twice, and `removeConnectionInLoop`, which erases by descriptor number, may
then hit the connection that has got the number in the meantime. Nothing in the code
prevents it, and what the code promises ends there: the properties of this module are
stated up to the second removal of a connection (`RemovedOnce`), and the run
`server_again` shows what follows it. An end of stream behind data that a read stopped
short of is not noticed until something makes the socket ready again;
`PeerGoneCleaned` is about an end that an event is still to show (`EndToBeFound`).

`ConnectionLife` is what of this concerns users: connections are accepted in order
and dealt to the followers in turn, each follower establishes its own in order, and
a connection leaves because its peer has gone or ends because the server stops. No
thread, queue, pool or descriptor number occurs in it. `TcpServer` implements it
(`RefinesLife`) with `status` for the state, `looper` for the follower, the sockets
behind descriptors for the open ones, the hang-ups counted so far for the peers that
have gone, and the leader's being in the destructor for `stopping`. A functor that is
queued, swapped or dropped, and the whole round trip of a removal through the leader,
is a stutter; the steps are `onAccept`, the follower's `connectEstablished`,
`handleClose` and `connectDestroyed`, a peer's hang-up and the beginning of
`~TcpServer`. The promise of `ConnectionLife` ends at the step `Again`, when the
server is told a second time that the peer of a connection that is going down has gone.

### TimerQueue

The set is a set of nodes ordered by end and id. The iterators of `handle` are
nodes with a flag that says whether the node has been erased; using one that has
is undefined behaviour, the state "undefined". Time is a scaled clock that goes
forward at any moment. A timer's id is the address of a local variable of
`addTimer`: timers added at the same stack depth share one. `addTimer` picks any
address, so both cases occur. That callbacks are never early and that the loop
does not oversleep is shown for all; what `delTimer`, `rhTimerId` and the set's
keys tell apart by id (`TimerInv`, `NoDangling`, `CancelledNeverFires`) holds, and
is stated, for timers with ids of their own (`DistinctIds`). With shared ids two
periodic timers restarted by one `handle()` become one, and a one-shot timer may
run twice.

### ThreadPool

What happens under the mutex is one step, except for the gap between evaluating
the predicate of `cond.wait` and sleeping, during which `shutdown()` and the
destructor may act, because they do not take the mutex.

### AsyncLog

The same treatment of mutex and condition variable, for one consumer. `consume`
is three steps (threshold and time, `checkDate`, `fprintf`), because midnight,
`setTarget`, `setLogLevel` and the exit of the program may fall between them.
`setTarget` is two steps and may overlap with `consume`, which is a data race on
`target` and `lf`: `racing` marks such a log, and its consumer may end in the
state "undefined". Printing on, or closing, a file that has been closed leads
there too. That happens in two cases, which `FileTakenAway` names: `setTarget` overlaps
another call of it or a `consume()`, or the program exits with target FILE, when
`~Garbo` closes the file before `~AsyncLog` lets the consumer write what is queued
(asynclog.h:119). `LogInv` says that there is no third, and `LogHandled` that a queued
log is handled in all the others, an exit with target CONSOLE included. The histories
`added` and `handled` record what was queued and what became of it.

### Rand64k

The sender is a `TcpClient` in its loop, the steps of a round being those of
`EventLoop::loop` (wait, timers, events, test of `loopFlag`). Streams are
sequences of words, and the receiver gets any prefix of what is on the wire, as
TCP allows; it takes what is there for one package, as the code does. Connecting
may fail, the receiver may go at any time with or without a reset, a signal may
come at any time, and a write to a socket whose reset was reported kills the
sender (SIGPIPE). SIGINT sets the loop's flag, and interrupts `epoll_wait` only if
the thread is in it. The edge-triggered event is `ready`; the end of the stream is
read when no acknowledgement is left. A receiver that has got the protocol word and
nothing else takes a substring that is not there, and the exception ends it
(receiver.cpp:47-49). Once a package was cut
(`split`) the protocol has no way back, so the sender's account and its progress
are stated up to then; that the close callback runs exactly once is not.

### Queues, locks and channels

`SpscQueue` and `MpmcQueue` take one step per access to shared memory; accesses
interleave and are not reordered, which the release and acquire operations of the
code justify except for the relaxed loads noted among the hazards. In
`DoubleBufferedQueue`, `RWLock`, `Semaphore` and `CountDownLatch` what happens
under a mutex is one step, and a wait splits it: sleeping threads are woken by
notifications, and where the code has no predicate loop (`Semaphore`) also
spuriously. `early` remembers the threads that woke so; such a thread may print
before its turn, as the code lets it, and `WordsInOrder` says that no other does.
`RingBuffer` is sequential; every call that moves a byte is compared with the bounded
FIFO queue it stands for, `get(0)` on a full ring, which empties it, and an `append` of
nothing where the indices meet, which fills it, are stated as they are, and a `getIntN`
across the end of the buffer, which writes past its variable (ringbuffer.h:141), is
undefined and the last step. `ShmChannel` has the kernel's segment and semaphore set,
which either process may remove or, when it starts late, make anew.

### Timers of raw-examples

`TimingWheel` and `TimerManager` keep the lists and the iterators of `handle()`;
`now` and `jiffies` count ticks. A timer remembers the tick it is for (`due`,
`endtime`), which is what `OnTime` compares with. `TimingWheel` has shared ids as
`TimerQueue` does, and its own program may have them, since both calls of `addTimer` in
`main` stand at one stack depth; `OnTime` is about timers with ids of their own
(`DistinctIds`). One set inside of `handle()` for a whole number of turns may be a turn
late (`MayBeLate`).

In `TimerManager` users choose the names, which are taken to be
distinct. A timer is the address of its node, and an address that was freed may be
handed out again, also the one that `rmNode` still holds when a timer was cancelled
that was not the running one (timermanager.cpp:107). `handle()` then takes the new timer
for the removed one after its first run (line 125) and leaves it in its list, so that
it runs once more a turn later; `turns` counts the turns by which a timer may be late,
for this reason or because a callback added it for the very jiffy, and `OnTime`
allows for no more. There a step of `handle()` is one timer: `cascade` takes the first timer of
the list that is being distributed and puts it where it now belongs, `Cascaded` goes
on to the next wheel if this one has come round (`level` is the wheel), and `run` starts
the callback of the next timer of the current list. Its wheels are 2 lists long
instead of 256 and 64, so that delays up to
25 ticks reach the fourth and are cascaded down through all of them. A callback
that makes `handle()` use an erased node leads to "broken". `FdTimerQueue` adds the
kernel's timerfd, its repetition included, and the products and differences of 32 bits:
`addTimer` arms a delay in full but keeps 32 bits of it in the end time (`Kept`,
timerqueue.cpp:57). The first wait for such a delay is too long (`beyond`), which
`Armed` allows; every other is not.

### Servers of raw-examples

`IocpServer`: contexts move between the kernel, the completion port and the
threads; an operation may be refused, be pending, complete, fail, or fail in part.
The print after `WSASend`, which may read a context that is gone (server.cpp:182), is
left out.
`EchoServers`: `kind` is the server; a connection's traffic is a queue of "data",
"fin" and "rst". What the code does with errors is kept as it is: most end the
server, and one leaves a closed socket in the set, which ends it a little later; a client that
select's server accepts while its set is full is dropped, its socket left open.

## 3. Runs

Passing runs:

| Run | Shows | Bounds and why they suffice |
|---|---|---|
| `buffer` | index order, bounded growth, meaning of readFrom's result, append's contract, refinement of `ByteQueue` | initial size 1, maximum 4: the buffer doubles twice, data of up to 2 bytes fits or does not fit in every way |
| `connection` | stream intact; `ConnectionInv`: write interest exact, pending bytes within their vector, FIN behind data, the object alive for every functor on it; no unread bytes without reason; output drains, end of stream noticed | send buffer 2, 4 bytes each way: partial direct writes, partial buffered writes and a full input buffer all occur, and so does an append past the end of outputBuffer; two removals, two shutdowns pending; `~TcpServer` at any moment |
| `server` | up to the second removal of a connection: registered objects alive; `ServerInv`: one destruction and one close callback per connection, descriptors not mixed up, nothing left when joined; refinement of `ConnectionLife` | 2 followers, 2 descriptors, 2 connections, 2 reports of each end of stream: a descriptor is reused, one FIN removes a connection twice; followers may be interrupted |
| `server_live` | an end of stream that an event shows takes its connection down, shutdown completes with all descriptors closed, backlog served | 1 follower, 2 connections, as many descriptors, 2 reports of each end of stream; what two followers add, the order in which they are joined, is in `server` |
| `timer` | no dangling iterator; `TimerInv`: one-shot once, no timer lost; never early, cancelled never fires, bounded sleep | 3 timers over 3 addresses, one cancellation per callback; every due time coincides with others at this scale |
| `pool` | inductive invariant, no task stranded, early tasks run | 2 workers, 3 submitters |
| `asynclog` | `LogInv`: one instance, no log left at exit, one open file at most, closed files met only at an exit with target FILE or in an overlapping setTarget; logs handled once and in order, in the right file; but for those two cases queued logs are handled | 2 threads that log at 2 levels, 3 calls of setTarget or setLogLevel (file, console, file), 3 dates: every order of midnight, target and log occurs |
| `sync` | values come out once and in order, slots and the writer's section are exclusive, words (but of threads woken early) and turns in order; the mains of rwlock, semaphore, countdownlatch and doublebufferedqueue end | queues of 2 and 3 slots go round twice, 2 producers and 2 consumers; ring of 4 with integers of 1 and 2 bytes and calls of length 0 wraps in every place; 3 writers and 2 readers; 3 threads count down; 4 messages |
| `net` | timers in their own tick but for the late ones of `OnTime`, timerfd armed for the first timer, one owner of a context, the transfer's account, nobody who was accepted and kept stuck | wheel of 2 slots and 6 ticks, delays below a tick and of a whole turn; 2 nodes, reused, and 26 jiffies through five wheels; 3 timers over the timerfd, with delays below and beyond the wrap; 3 connections and 2 threads; 3 clients for a set of 3 sockets, so that one is too many; 3 packages |

The conjuncts of `ConnectionInv`, `ServerInv`, `TimerInv` and `LogInv` are
definitions of their own, each with its type invariant, and are explained where
they are defined.

Runs that TLC refutes, each against a line of the repository (`findings`):

| Run | What happens |
|---|---|
| `connection_shutdown` | `shutdown()` with output pending does nothing, then or later |
| `server_again` | the end of a stream that is reported again makes `handleClose` run twice; the second removal can erase a new connection with the same descriptor, which is deleted while a loop has an event for it. A status test in `handleClose` would prevent it |
| `timer_self_cancel` | a callback that cancels its own timer and then the next one: `erase` on a dangling iterator |

Those runs also delimit the passing ones: the properties of `server` and
`server_live` end with `RemovedOnce`, `timer` has one cancellation per callback and no overflow: with `UINT_MOD`
within reach of an expiration, `Delay` wraps as 2^32 microseconds do and a timer
runs early.

Fairness. A loop's thread is scheduled and its `epoll_wait` returns, because
`getExpire` always gives a finite timeout (weak fairness on the loop's steps). In
`connection` the peer keeps reading. In the pool the threads are scheduled,
the mutex is never held for long, and a `shutdown()` that has begun finishes;
nobody is obliged to call it, and spurious wake-ups are possible but not
guaranteed. The same holds for the threads of `AsyncLog`; nobody is obliged to exit.
In `sync` and `net` the threads and processes of each program are scheduled (weak
fairness on each thread's steps); clients, peers, signals, the kernel's completion
of an operation and spurious wake-ups are not obliged to do anything, and the network
delivers what `Rand64k` has sent to a receiver that is up.

What passing does not mean. `StreamIntact`, `OutputDrains` and `FinNoticed` end with an
append past the end of `outputBuffer`. What `TcpServer` promises ends with the second
removal of a connection, which ordinary traffic can bring about. `BacklogServed` needs
enough descriptors: when accept
fails with EMFILE the edge is spent. `ShutdownCompletes` speaks of a `shutdown()`
while the loop runs: one made between installing the signal handler and `start()`
is overwritten by `loop()`. A follower that is interrupted leaves its connections
open (`CleanJoin` covers only the others). `ClosedByNobodyElse` and `LogHandled` do not
say that an exit with target FILE is safe: `~Garbo` closes the log file before
`~AsyncLog` lets the consumer write the rest of the queue, and TLC reaches "undefined"
that way. No property
promises that `~ThreadPool` or `~AsyncLog` returns: both store a flag and notify
without the mutex, so that a worker between its predicate and its sleep may miss
both, and the model has that behaviour. `WordsInOrder` lets a thread print early that
was woken without a post. `MainReturns` is about four programs; the mains of the
lock-free queues join their threads too, but a consumer gives up after some failures,
and a producer that finds the queue full then waits for ever. `RingFifo` says nothing
of a `getIntN` across the end of the buffer. `WheelsOnTime` makes the exceptions stated
at `OnTime`: a timer put at the end of the list that is being walked, and one at the
address that `rmNode` still holds, may come a turn late; it is about timers with ids of
their own, and ends when a callback has cancelled the next timer or, in the first
wheel, itself from behind the first place. `TimerfdArmed` lets the first wait for a delay that
32 bits of microseconds do not hold be too long.
`ContextOwned` leaves out the print after `WSASend`, which may meet a deleted
context. `NobodyStuck` lets a client go that the server has cut off or, with the set
full, has accepted and forgotten, and a sender whose package was cut.

## 4. Proofs

Every safety invariant, action property and refinement that a passing run checks is a
theorem, for all values of the constants that satisfy the assumptions below. What a
theorem adds to its run is the size: any number of threads, connections, timers,
slots, bytes, and wheels of any length.

### What is assumed

* The assumptions on constants, each named in its module (`BufferAssumption`,
  `ConnectionAssumption`, `ServerAssumption`, `TimerAssumption`, `PoolAssumption`,
  `LogAssumption`, `SyncAssumption`, `NetAssumption`); TLC evaluates them on every
  run. They give the constants their kinds (sizes are positive, sets of threads are
  disjoint). Two say more: `INITSIZE <= MAXSIZE` in `TcpConnection`, which the
  constants of buffer.h satisfy, and that packages of `Rand64k` are not empty. That
  "end", "null", "none" and 0 are no timer, connection or id says that a null pointer
  or an end iterator is not an element.
* `ReachAssumption`: delays and intervals of `TimerManager` lie within the reach of its
  five wheels. In the code both are 32 bits of microseconds and the wheels reach 2^32,
  which is why the assumption holds of it.
* The four theorems about `TcpServer` assume nothing about events. Their properties
  themselves end with the second removal of a connection (`RemovedOnce`, `again`);
  that an event is then handled for a deleted connection is what `server_again` shows.
* `WheelsInTime` is about timers with ids of their own: `DistinctIds` in the first wheel;
  in the second names are distinct by the form of the model.
* `IteratorsHold` has `MaxCancels <= 1`; with two it is false (`timer_self_cancel`).
  It and `NeverEarly` have `NoWrap`: no delay in microseconds reaches 2^32. A delay
  that does puts the timer into the past, where the run `timer` does not go either.
* `TimerfdIsArmed` assumes `[]ShortHandle`: while `handle()` works, no timer of the queue
  ends 2^32 microseconds or more after it read the clock. End times keep less than that of
  a delay, so only a call of `handle()` that lasts very long breaks it. Delays of any
  length are in the model.

### Buffer

* `BufferInvariant`: `BufferInv` is inductive only with the recursion of
  `readFrom` in it. A level that waits has doubled the vector, therefore has room,
  and everything it counted is still readable.
* `ReadOutcomeHolds` and `AppendContractHolds`: action properties, from the
  invariant and one lemma per operation about what the vector becomes.
* `BufferRefinesByteQueue`: initial states map to initial states and every action
  maps to a put, a take, a break or a stutter; the lemmas say that moving and
  growing the vector leave the bytes between the indices alone.

### TcpConnection

The invariant is in parts that hardly meet. `SendInv`, about the bytes sent, is
types, `WritingIffPending`, `OutputRoom`, `FinAfterData`, `ResetEmpties` and `StreamIntact`: the
stream stays intact because `send` writes directly only when nothing is pending,
which `WritingIffPending` says. `LoopInv` is `RoundInOrder` and the types of what a
round uses, `LifeInv` the life cycle with the order of the functors that end it, from
the leader and from `~TcpServer`.
Together they give `ConnectionInv`. `NoLostWakeup` adds `Unread`: while the
connection is up, unread bytes have an event that is armed or in the round being
handled, or the last read found a full buffer of the maximal size.

### TcpServer

`ServerKept` has a part for each thing that can go wrong in the life of a
connection: `Phases` (what each thread holds in the phases of its loop, and in the
destructor), `QueueInv` (a follower's queue has a functor once, and
`connectEstablished` ahead of `connectDestroyed`), `Backlog`, `Owners` (objects,
descriptors and sockets belong together), `Stages` (what is queued for a connection
in each status), `Removals` (who is to be removed is disconnecting and still in the
pool), `Events` (an event that is ready or in hand is for a connected one) and
`ClosedOnce`. None of the four theorems' properties is inductive alone: that the
entry which the leader erases is the right one rests on the descriptor not being
closed before, that on the order of the functors, and that on a removal that was
pushed once. `ServerKept` holds until the second removal; that it does is one invariant
with the types, which hold after it too. Lemmas say what appending, swapping and running do to the positions in
the queues.

`ServerImplementsLife` is the refinement, `Spec => RefinesLife`. Beside `ServerKept`
its invariant `Orderly` keeps the order of things: `Line` (while the server runs the
backlog holds the connections after those accepted, and `currIndex` is the turn of the
next), `Turns` (each connection has the follower whose turn it was) and `Ordered` (in
every functor queue, the batch included, the `connectEstablished` of an earlier
connection comes first). Without `Ordered` the follower could establish connections
in another order than they came; without `Stages` and `Owners` `connectDestroyed` could
close a socket of another connection, and then `open` would lose the wrong one. Every
action then maps to one abstract step or a stutter, by one lemma for each kind.

### TimerQueue

`QueueKept` (types, nodes with different keys, iterators at nodes or erased ones),
`OwnIdsKept` (with ids of their own: what was cancelled is not in the set, what has run
for good is there only while it runs, and `rhTimerId` is the id of a cancelled timer),
`OnTime` (no node is earlier than the time asked for) and `WalkKept` (where the
iterators are, and what a callback may still do to them). `SleepsInTime` needs that
`wake` was computed from the first node; that a set of nodes has a first one is
well-founded induction on their order.

### ThreadPool

* `PoolInvariant`: `PoolInv` is inductive. `NoSleepOnWork` alone is not: it needs
  `MutexHeld` (while a worker is between its predicate and its sleep it holds the
  mutex and nothing is queued), which is why `addTask` must take the mutex.
  `NoTaskStranded` needs `EarlyAccounted` (early tasks are queued, being run, or
  have run), `ExitClean` (a worker leaves after the shutdown with no early task
  queued) and `Submitted` (a task is queued only by its own addTask).
* `PoolNeverSleepsOnWork`, `PoolStrandsNoTask`: its consequences.

### AsyncLog

`LogKept` is types, `LifeCycle` (the consumer runs until `~AsyncLog` has told it to
stop, when nobody logs any more) and `Streams` (where `setTarget` is, what
`consume()` has reached, which file is open, and who may have closed it). That a log goes to the file of its
date is inductive only with the note that `setTarget` overlapped (`racing`), and
`OnceInOrder` only as an equation between three sequences.

### Queues, locks and channels

The programs share no state, so each invariant is kept by its own program's steps
and framed by one lemma for all the others.

* `DbqPopsInOrder`: what is in the two queues together is a run of consecutive
  values, through the swap.
* `SpscInOrder`: the slots from `sHead` to `sTail` hold a run of consecutive values,
  with the index arithmetic modulo any number of slots.
* `MpmcSlotsExclusive`: slot counts name rounds. A thread that has claimed a position
  is the only one of its kind there, and the slot's two counts say whose turn it is;
  what a delayed thread remembers of a count is a lower bound, which is all that
  the stale comparison needs (`MpmcSeen`).
* `RWWriterAlone`: the counters are the cardinalities of the sets of threads that
  read, and that write or wait to.
* `SemPrintsInOrder`: for each of the two semaphores, posts, waits and sleepers
  account for its count, the threads that were woken early included.
* `ShmInTurns`: with semaphores, their two counts are the messages handed over less
  those taken, and the reverse; without, `ShmLife` says where each process can be.
* `RingIsFifo`: an action property. `RingInv` says that `full` means equal indices;
  with it the number of readable bytes moves as the index does, through every wrap.
  What `strncpy` stores in two pieces is the text itself when no byte follows a NUL. The
  calls of length 0 are cases of their own.

### Timers and servers of raw-examples, rand64k

* `ContextsOwned`: `IocpTypes`, `Owned` (for each context: kernel, port and threads
  exclude each other, and the owner's is live) and `Addressed` (packets of `main`
  carry no context).
* `WheelsInTime`, from one theorem for each wheel. That a timer is never early or
  late is not inductive; where it hangs and when it is looked at must be tied together.
  * `WheelTimersOnTime`: `WheelInv` says that the lists hold each timer once, in the slot
    of its `due`, that a timer that is still ahead of the walk comes up at `due` when
    its remaining rounds are counted down one per turn (or a turn later, for one put at
    the end of the list being walked), and one that was passed comes up a turn later.
    Also that no timer in a list has the id in `rhTimerId`, or `handle()` would drop it for
    the cancelled one, and where the iterators may point; all this with distinct ids.
  * `ManagerTimersOnTime`: `NodeInv` says of a timer in a list of wheel n that its moment,
    `endtime` rounded down to `Unit(n)`, is one at which that list is dealt with, comes
    within a turn of the wheel, and is not the present jiffy if that list has been dealt
    with in it. Within a turn of a wheel each list's
    moment comes once, and wheel n + 1 moves exactly when wheel n has come round
    (lemmas on division and remainder with units of any size), so each cascade puts the
    timer where its moment is again ahead. `NodeCursor` keeps
    the positions of `handle()` in their lists, unless their timers were cancelled. A timer
    runs `turns` turns late at most, which counts up when its address is the one in
    `rmNode`; the invariant says that this happens once (`turns < 2` for the timer there).
* `TimerfdIsArmed`: `FdInv`. The timerfd is right not only by what `timerfd_settime`
  wrote but through the repetition of the kernel's timer until it is set again.
* `TransferIsAccounted`: `RandInv` is types, `ClosedOnce`, `OneTurn` (of a package,
  its acknowledgement and the timer for the next there is one at most), `Woken` (an
  event means an acknowledgement as long as the receiver is there) and `Intact` (up
  to the first package that was cut). That TCP delivers any prefix, at any time, is
  handled by lemmas about where the header of the one package in the stream is.

### What stays with TLC

Liveness and anything that needs `ENABLED`: `OutputDrains` and `FinNoticed`,
`PeerGoneCleaned`, `ShutdownCompletes` and `BacklogServed`, `TaskRuns`, `LogHandled`,
`MainReturns`, `NobodyStuck`. Of refinements only the safety part is claimed and
proved: `ByteQueue` and `ConnectionLife` state no fairness.

## 5. Not modelled

* `Logger`: the rotation of `AsyncLog`, called by every thread without a lock.
  Every access from two threads is a data race, of which the model could only say
  that anything happens.
* `http`: string handling within one call, without state that outlives it; a model
  would be the code again.
* Sockets, addresses, byte order, platform, time and random numbers: wrappers of
  system calls and the standard library, without state. The system calls that matter
  are actions of the modules that make them.
* The echo, http and protobuf examples: users whose calls are among the user
  actions of `TcpConnection`, or (protobuf) `Rand64k` with another encoding.
* The thread pools of raw-examples: earlier forms of `ThreadPool`.
* The other raw examples: demonstrations of system interfaces and language bindings.

Data races on plain variables (`loopFlag`, `isIdle()` from outside) are not
explored beyond the interleavings of their accesses, nor are reorderings by the
relaxed loads of the lock-free queue. The clock does not go back. An
interval of `TimerManager` whose microseconds are a multiple of 2^32, periodic for the
flag and 0 for the arithmetic, is left out. Of the
start-up code of the servers only the success is modelled.

### Hazards beyond the list

`PROJECT.json` lists the hazards the properties are for. The code has others, which
a reader of the properties should know of:

* `server.cpp:110`: accept that fails with EMFILE leaves connections pending and the
  edge spent. `BacklogServed` is checked with descriptors enough for everybody.
* `eventloop.cpp:46`: `loop()` sets `loopFlag` on entry, so a shutdown() that comes
  earlier is lost; it is an action of the model, and `ShutdownCompletes` speaks of
  later ones.
* `timerqueue.cpp:10` and `timermanager.cpp:56`: milliseconds become microseconds in
  32 bits. The runs stay below the wrap.
* `timerqueue.cpp:23`: `rhTimerId` outlives `handle()`; with shared ids a one-shot
  timer may run twice. The properties ask for distinct ids.
* `asynclog.cpp:51`: the destructor notifies without the mutex, as in `ThreadPool`;
  no property promises that it returns. `asynclog.cpp:67`: fopen is not tested, and
  in the model succeeds.
* `ringbuffer.h:141`: the second piece of an integer that wraps is written behind the
  variable, where the model stops. `ringbuffer.h:52`: calls with length 0 empty a full
  ring or fill an empty one; `RingFifo` states it.
* `shm/util.h:43`: SEM_UNDO of a killed process is not modelled.
* `timingwheel.cpp:28` and `timermanager.cpp:122`: a callback that cancels the
  wrong neighbour leaves a dangling position, after which the model says nothing.
  A timer put into the list being walked may be a turn late, which `WheelsOnTime`
  allows, and so may one at an address that `rmNode` still holds
  (`timermanager.cpp:107` and `:125`).
* `linux/timerqueue/timerqueue.cpp:57`: an end time keeps 32 bits of a delay; `Armed` allows
  for the long first wait, and says of the timer itself only that it then runs.
* `iocp/server.cpp:182`: the context is printed after WSASend was started, when it may
  be gone; `ContextOwned` leaves the print out.
* `select/server.cpp:90`: with the set full a connection is accepted and forgotten;
  `NobodyStuck` leaves its client out.

## 6. Plan

1. `Buffer`, `ByteQueue` and proofs; `TcpConnection`; `TcpServer`; `TimerQueue`;
   `ThreadPool` and proofs; `AsyncLog`. Done.
2. `TcpClient` with rand64k; queues, locks, channels, timers and servers of
   raw-examples. Done.
3. Proofs of the safety properties of all modules, the two timing wheels last. Done.
4. An abstract connection life cycle that `TcpServer` refines, with its proof. Done.
