# A TLA+ verification of the upcalls project

The repository holds *libupcall*, a thread-per-CPU event loop on two system
calls of a patched kernel (`upcall_create`, `upcall_submit`), four echo servers
that do the same job on libupcall, epoll, io_uring and blocking threads, a load
generator for them, and a tester of wake-up latency. This directory models the
parts whose correctness depends on the order in which things happen, checks
them with TLC, and proves the most important results with TLAPS.

1. [The system](#1-the-system) - inventory
2. [Modules](#2-modules) - what models what
3. [Runs](#3-runs) - what is checked, with which bounds
4. [Fairness and deadlock](#4-fairness-and-deadlock)
5. [Proofs](#5-proofs)
6. [What does not hold](#6-what-does-not-hold)
7. [Assumptions about the outside](#7-assumptions-about-the-outside)
8. [Not modelled](#8-not-modelled)
9. [Plan](#9-plan)

## 1. The system

| Component | Source | State | Operations | Talks to |
|---|---|---|---|---|
| libupcall start-up | `src/libupcall/upcall.c` 296-352, 522-611 | `g_init_count`, `g_go`, `g_batch_stats`, the threads | `upcall_init`, `upcall_workers_go`, first half of `upcall_worker_fn` | its caller; `setup_fn` |
| libupcall event loop and buffer pool | `upcall.c` 54-294 | per thread `work[]`, `buffers[]`, `receive[]` and their counters | `add_read`, `add_write`, `add_accept`, `add_close`, `return_buffer`, `run_event_loop` | the kernel; `work_fn`, `loop_fn` |
| batch statistics | `upcall.c` 68-87, 243-278, 354-520 | `g_batch_stats`, the monitor's copy | the workers' increments, `batch_monitor_fn`, `batch_ctl_poll` | all workers share one array |
| echo server on libupcall | `src/event-tester/upcall.c` | `conns[]`, one `struct connection` per descriptor | `my_accept`, `my_read`, `my_write`, `on_close` | libupcall; workers share `conns[]` |
| object cache | `src/event-tester/tcp_echo.c` 64-130 | per thread a linked list | `init_cache`, `cache_alloc`, `cache_free` | libupcall, epoll and io_uring servers |
| start-up of the other servers and the client | `epoll.c`, `iouring.c`, `threads.c`, `tcp_client.c` | `init_count`, `worker_hang_lock` | `init_threads`, tail of each worker's set-up | - |
| load generator | `tcp_client.c` | per client a state, a cursor and two counters; per worker `dying` | `do_state_transition`, `client_send`, `client_recv`, the epoll loop; `main` and `do_error_report` after the join | a server; its control loop |
| epoll server | `epoll.c` | `conns[]`, per worker `incoming.list`, `event_fd`, the epoll set | `on_accept`, `on_event`, `handle_new_conns`, `on_read`, `on_close` | workers hand connections to each other |
| io_uring server | `iouring.c` | `conns[]`, per worker a ring, `incoming.list`, `event_fd` | the cases of `worker_func`'s switch, `on_close` | workers hand connections to each other through their rings |
| threads server | `threads.c` | per connection a thread with a cursor | `worker_func`, `conn_handler` | nothing shared but the descriptors, and `exit` |
| TSC log | `tsc_logger.h` | a log buffer with a length claimed by compare-and-swap | `tsclog_*` | client, latency tester |
| latency tester | `src/scheduler_latency/tester.c` | two eventfds, two logs | `sleeper`, `waker`, `write_times` | - |
| control loop of the servers | `tcp_echo.c` 250-365, 552-571 | an epoll set with two listening sockets and their connections | `on_stats`, `on_error`, the loop | `main` of the client |
| perf counters, scripts | `tcp_echo.c` 160-248, `run_*.sh`, `initrd/`, `plot.py` | - | formatting and I/O | - |

What is hard here, and what makes each component correct:

* **Start-up** - two condition variables, a counter that several threads raise,
  failures half-way, spurious wake-ups. Nobody runs callbacks before all are
  set up; `upcall_init` returns only then; nobody is left waiting.
* **Event loop** - the UP_VEC queued for the kernel points at the same array
  that `return_buffer` writes; counters are reset between the submit and the
  callbacks; the two arrays grow. Each request is in one place, each buffer
  belongs to one party, each answer reaches its callback.
* **Statistics** - unlocked 64-bit counters, a monitor that reads them twice and
  may reset them. No increment is lost, no delta underflows.
* **Echo servers** - descriptors are reused by the kernel the moment they are
  closed, and `conns[]` is shared without a lock; a message arrives in pieces.
  A slot belongs to the socket that has the descriptor; bytes come back in
  order; every descriptor is closed.
* **Hand-over (epoll)** - a list under a lock, and an eventfd written after the
  lock is dropped. No connection waits on a list without a wake-up to come.
* **Hand-over (io_uring)** - the same, but the eventfd is read by a request of the
  owner's ring, armed again once per connection taken from the list and not at
  all by a wake-up that finds it empty, and written by a request of the other
  ring. There is always a read armed for the next connection, and the submission
  queue has room for all that pile up.
* **Threads server** - nothing is shared, but any thread's error ends them all.
* **Client** - a recursive state machine with two counters and an epoll set.
  Each transaction is counted once; every client that waits is watched.
* **Measurement** - two programs that read and write parts of a text until each
  thinks it is whole, either of which may be gone. 0 is returned only for a
  complete measurement, and the server closes every control connection.
* **Latency tester** - two logs, paired by position.

`PROJECT.json` lists each hazard at its line, with the property that covers it.

## 2. Modules

| Module | Models | How state and actions correspond |
|---|---|---|
| `StartBarrier` | the promise of every start-up here: the gate opens once, when all parties are ready, and nobody runs before | abstract |
| `UpcallStart` | `upcall_init`, `upcall_workers_go`, `upcall_worker_fn` up to the loop | variables carry the C names; a critical section of `g_init_lock` is one step, since it only waits in `pthread_cond_wait`; every call that may fail ends `upcall_init` and leaves the threads it made |
| `UpcallService` | the promise of libupcall to the callbacks of one worker | abstract |
| `UpcallLoop` | one worker's `run_event_loop`, queue and pool | `work`, `work_max`, `buffers`, `buf_cnt` as in C, `buf_max` is the array's length; an UP_VEC is its length and is read from `buffers` when the kernel reads the queue, which is what makes overwriting visible |
| `UpcallEcho` | `event-tester/upcall.c` | one action per handler; `on_close` is three steps (`conn->fd = -1`, `conns[fd] = NULL`, `close`), since other workers see `conns[]` and the descriptor; sees libupcall as `UpcallService` promises it |
| `BufferCache` | the cache of `tcp_echo.c` | pointers as in C; `order` is a history variable, the queue the list should be |
| `BatchStats` | the counters, the monitor and its reset | an increment is a load and a store; the monitor prints and copies one counter at a time, and `memset` is one step |
| `HangLockStart` | `init_threads` and the tail of each worker's set-up | a mutex with an owner; a critical section of `init_lock` is one step |
| `WakeUps` | a list of connections, signals, and reads of an eventfd that are armed again per connection | abstract; counts |
| `UringEcho` | `event-tester/iouring.c` | a step per completion handled; a ring is a bag of requests queued, a bag of requests in flight and the sequence of its completions; `on_close` is two steps; a full queue is the NULL dereference it is in C |
| `ThreadsEcho` | `event-tester/threads.c` | extends `HangLockStart`: workers accept once they are past the hang lock; a step per `read` and `write`; `exit` ends the behaviour |
| `Measurement` | `main` of `tcp_client.c` after the join, the control loop of `tcp_echo.c` | extends `TcpClient`; the control connection as the bytes written and read, in parts; a part of either side's `read`/`write` loop is a step |
| `TcpClient` | one worker thread of `tcp_client.c` | each level of the recursion of `do_state_transition` is a step, each `recv` is a step |
| `EpollEcho` | `event-tester/epoll.c` | a worker is a program counter over its system calls; `incoming.list`, `event_fd` and the epoll set are per worker |
| `SchedLatency` | `scheduler_latency/tester.c` | a step per log entry and per system call |
| `UpcallStart_proofs`, `UpcallLoop_proofs`, `UpcallEcho_proofs`, `ThreadsEcho_proofs` (with the hang lock), `Measurement_proofs` (with the load), `EpollEcho_proofs`, `UringEcho_proofs` (with its refinement of `WakeUps`), `Standalone_proofs` (cache, latency tester, batch statistics) | theorems and proofs | |
| `MCUpcallLoop`, `MCUpcallEcho`, `MCBatchStats`, `MCEpollEcho`, `MCUringEcho` | constants for TLC | |

The three abstract modules are implemented by the detailed ones: `UpcallStart` and
`HangLockStart` refine `StartBarrier`, by two entirely different mechanisms,
`UpcallLoop` refines `UpcallService`, and every worker of `UringEcho` refines
`WakeUps`. `ThreadsEcho` and `Measurement` are compositions: the first of the start-up
with the server that comes after it, the second of the load, `main` of the
client and the control loop of a server. `UpcallEcho` is written on top of what `UpcallService` promises: a request is answered once,
the handlers of a worker run one at a time.

Operators whose name ends in `_Something` (`Rewound_Not`, `GoRecheck_If`, ...)
stand next to the definition they vary. They are the bug that definition could
have had; no specification uses them. Each property of a passing run is violated
when one of them takes the definition's place.

## 3. Runs

Run with `tlc -config <cfg> <module>`. State counts are distinct states.

| Run | Configuration | Bounds | States | Shows |
|---|---|---|---|---|
| `start` | `UpcallStart.cfg` | 3 workers, 1 call | 642 | `InitReturnsAfterSetup`, `LoopAfterSetup`, `SlotsAgree`; every start completes; the two condition variables refine `StartBarrier` with its liveness |
| `start_retry` | `UpcallStartRetry.cfg` | 2 workers, 2 calls | violation | a second `upcall_init` after a failed one returns too early (section 6) |
| `loop` | `UpcallLoop.cfg` | 2 requests (one a read, one a read or a close), batch of 2, 3 buffers, queue grows by 1 | 419 996 | arrays are never overrun, requests and buffers are in one place each, the loop refines `UpcallService`, every answer to a request with a `work_fn` is what its `work_fn` runs with |
| `echo` | `UpcallEcho.cfg` | 2 workers, 2 clients (2 messages and 1), 2 descriptors, messages of 2 bytes | 174 524 | one owner per descriptor and one request per connection, no overrun, the echo is a prefix of what was sent, messages are echoed and descriptors released |
| `cache` | `BufferCache.cfg` | 4 blocks | 168 | the list is a queue of exactly the free entries |
| `stats` | `BatchStats.cfg` | 2 workers (2 batches and 1), 1 interval, 1 reset | 1 256 715 | no lost increment and histograms that add up, no underflow |
| `threads` | `ThreadsEcho.cfg` | 2 workers, 3 clients (2 messages; one may reset, one never reads), 2 descriptors | 159 926 | start-up and server together refine `StartBarrier`; the process exits for the code's reasons only; messages echoed, descriptors closed |
| `client` | `Measurement.cfg` | 2 clients, 4 transactions each, batches of 2, a text of 2 parts, with and without failures and immediate connects | 885 252 | one message at a time, each transaction counted once, clients that wait are watched; a healthy measurement comes to its end, 0 means complete, control connections are closed |
| `epoll` | `EpollEcho.cfg` | 2 workers, 2 clients with 1 message, 2 descriptors, one client may reset | 235 384 | one owner per descriptor, no lost hand-over, no stale event, messages echoed, descriptors closed |
| `epoll_reset` | `EpollEchoReset.cfg` | 1 client, 1 descriptor | violation | a broken connection is closed and then read from (section 6) |
| `latency` | `SchedLatency.cfg` | 50 turns | 401 | nobody waits for ever (deadlock is checked), the logs have room, the pairs of `write_times` are single wake-ups |
| `uring` | `UringEcho.cfg` | 2 workers, 2 clients with 1 message of 2 bytes, 2 descriptors, a queue of 4, one client may reset | 213 418 | one owner per descriptor, a queue is overrun only by requests for QUEUE_DEPTH / 2 - 1 connections, each worker refines `WakeUps`, messages echoed, descriptors closed |

Why these bounds are enough to meet the interesting cases:

* *start*: the count and the wake-ups are about the last of several workers
  against those before it; 3 workers give a first, a middle and a last one. The
  theorems of section 5 remove the bound.
* *loop*: 3 buffers with a pool of 2 make `return_buffer` double the array while
  two of its entries are in use; `EVTS = 1` makes the queue grow on nearly every
  `add_*`; two requests with a batch of two put a silent close in front of
  another answer, which `AnswerIsHandled` follows to its callback; that the kernel
  delivers it at all is assumed (section 4). Writes and accepts are not distinguished from a read without
  a buffer, since the loop does not. `SetupMayReturn` is FALSE here: no
  `setup_fn` of the repository returns a buffer.
* *echo*: a second message needs the cursor rewound; two bytes per message give
  partial reads and writes; each of the two descriptors is closed by one worker
  and taken by another. The clients arrive at different workers: the handlers of
  one worker are serial, so all interleaving is between workers. At most one
  accept fails, any number of reads and writes may.
* *stats*: a slot of 5 counters in cache lines of 3 makes the rounding matter,
  and one worker's second batch makes it count a time in user space. All times
  from 0 to 2 ns fall in the only bucket; the clamp at its end is what is
  checked. With one interval a baseline exists, with one reset it has to go.
* *client*: 4 transactions in batches of 2 end a batch and the run together, and
  a batch before that. A text of 2 parts can be cut before, in and after it.
* *threads*: with 2 descriptors and 3 clients an accept may find none left; the
  idler keeps one for ever. Clients connect from the first `listen` on, so that
  every position of the hang lock meets a full backlog.
* *uring*: two clients may arrive at one worker and belong to the other, which
  makes two signals one completion, or two completions of which the second finds
  the list empty. The queue has 4 entries, which two clients cannot overrun, so that
  `OneOwner`, `HandsOver` and the liveness are checked for behaviours that go on.
  `SqeFits` then says that no worker gets there with requests for no connection at
  all, which arming the eventfd's read once too often breaks. Nothing in the code keeps a
  queue from being overrun: with 2 or 3 entries the same two clients do it
  (`UringEchoFull.cfg`), the process ends, and all five properties of the run
  still hold. For longer queues and more connections see `SqeFitsAlways`.
* *epoll*: two workers accept and own, in all four combinations for the second
  client; the first one arrives at w1 because workers are interchangeable.

Every module states its type invariant, which holds with the constants of the
runs too; the runs leave their time to the properties that say more. Those of the
detailed modules are part of the inductive invariants of section 5, and proved
there. The same goes for `OneThread` and `Echoes` of `ThreadsEcho` and `OneSocket` and
`Echoes` of `EpollEcho`, which say that a server writes to a client what it read from
that client: they hold with the constants of the runs, and section 5 proves them
for all constants, so no run lists them. To see one by itself, add it to the cfg as an
`INVARIANT`.

`BatchStatsDeltas.cfg`, `BatchStatsReset.cfg`, `UpcallLoopSetup.cfg`,
`UpcallEchoStranded.cfg`, `TcpClientImmediate.cfg`, `TcpClientEof.cfg`,
`UringEchoFull.cfg`, `MeasurementReport.cfg` and `EpollEchoIdle.cfg` reproduce the other
observations of section 6.

## 4. Fairness and deadlock

* Threads that can run are scheduled: weak fairness of each worker's steps and
  of main's (`UpcallStart`, `EpollEcho`, `UringEcho`, `ThreadsEcho`, `TcpClient`,
  `Measurement`, `UpcallLoop`), and of each connection thread's in `ThreadsEcho`. The
  scheduler of Linux justifies it.
* A mutex that is free again and again is got one time: strong fairness of
  each worker's start in `ThreadsEcho`, since other workers hold `worker_hang_lock` for an instant each.
* The kernel answers the requests it can answer (weak fairness per descriptor in
  `UpcallEcho`), and `upcall_submit` does not pass over the same answer for ever
  (strong fairness of `Delivers` in `UpcallLoop`, because each batch has room for
  `batch_sz` events only).
* A ring that can complete requests completes one of them (weak fairness of
  `Completes` in `UringEcho`, per worker; which one is left open).
* Network and server do what they have to (weak fairness of `Connected` and
  `Echo` in `TcpClient`).
* Clients are not fair: they may stop at any time. Liveness properties are about
  what is owed after they acted.

Deadlock is checked in the loop and the latency tester. It is off
where the system really stops: the caller of `upcall_init` gives up after a
failure, clients have nothing more to send, counters have reached their bound,
the client program has ended, the server called `exit`, a block may stay with its
owner.

## 5. Proofs

`tlapm <module>_proofs.tla` for `UpcallStart`, `UpcallLoop`, `UpcallEcho`,
`ThreadsEcho` (which holds the hang lock too), `Measurement` (and the load), `EpollEcho`,
`UringEcho` (and its wake-ups) and `Standalone` (the cache, the latency tester and the
batch statistics, which share nothing). Every theorem is about the specification TLC runs, for
every value of the constants that the assumptions below admit.

| Theorem | For every | States |
|---|---|---|
| `TypeCorrect` | N, MaxInits | `[]TypeOK` of the start-up |
| `SlotsCorrect` | N, MaxInits | `[]SlotsAgree`: workers count where the monitor reads |
| `InitReturnsLate` | N, with MaxInits = 1 | `[]InitReturnsAfterSetup` |
| `LoopStartsLate` | N, with MaxInits = 1 | `[]LoopAfterSetup` |
| `BarrierImplemented` | N, with MaxInits = 1 | the start-up refines `BarrierSpec` of `StartBarrier` |
| `LoopTypeCorrect` | requests, buffers, batch size, queue step | `[]TypeOK` of the event loop |
| `LoopInBounds` | the same | `[]InBounds`: `work[]` and `buffers[]` are not written past their end |
| `LoopRequestOnce` | the same | `[]RequestOnce` |
| `LoopBufferOnce` | the same, without `SetupMayReturn` | `[]BufferOnce` |
| `LoopImplementsService` | the same, without `SetupMayReturn` | the loop refines the safety part of `UpcallService`, step by step |
| `EchoTypeCorrect` | workers, clients, descriptors, messages | `[]TypeOK` of the libupcall echo server |
| `EchoOneOwner` | the same | `[]OneOwner` |
| `EchoNoOverrun` | the same | `[]NoOverrun`: the `memcpy` of `my_read` stays in `conn->buffer` |
| `EchoEchoPrefix` | the same | `[]EchoPrefix`: each client gets back what it sent, in order and without gaps |
| `HangImplementsBarrier` | N | the hang lock refines `BarrierSpec` of `StartBarrier` |
| `ServerImplementsBarrier` | N, clients, descriptors, messages | so does the threads server as a whole |
| `ServerSurvives` | N, clients, descriptors, messages | `[]ExitsOnError`: only a reset or the want of descriptors ends it |
| `ThreadsTypeCorrect` | the same | `[]ThreadsTypeOK` |
| `ThreadsEchoBack` | the same | `[](OneThread /\ Echoes)`: a connection has one thread, which writes what it read from that client |
| `UringTypeCorrect` | workers, clients, descriptors, messages, queue | `[]TypeOK` of the io_uring server |
| `SqeFitsAlways` | the same | `[]SqeFits`: `io_uring_get_sqe` finds no entry only for a worker with requests for QUEUE_DEPTH / 2 - 1 connections in its queue |
| `OneOwnerAlways` | the same | `[]OneOwner`: one place per descriptor, as long as no queue was overrun |
| `NoWorkerLosesItsList` | the same | `ReadArmed` and `NoneForgotten` of `WakeUps` for each worker: a read of its eventfd is armed or has ended, and an entry on its list has a wake-up to come, as long as no queue was overrun |
| `HandsOverAlways` | the same | `HandsOver`: each worker refines `WakeUps`, step by step, until a queue is overrun |
| `TurnTypeCorrect` | count | `[]LatencyTypeOK` of the latency tester |
| `LatenciesAreWakeups` | count | `[]PairsAreWakeups`: `write_times` subtracts the two ends of one wake-up |
| `CacheExclusive` | set of blocks | `[]Exclusive` |
| `CacheQueue` | set of blocks | `[]CacheIsQueue` |
| `StatsTypeCorrect` | workers, batches, buckets, cache line | `[]StatsTypeOK`: nobody touches a cell outside `g_batch_stats` |
| `StatsCountsAgree` | the same | `[]CountsAgree`: no increment is lost without a reset, and a worker's histograms add up |
| `StatsNoUnderflow` | the same | `[]NoUnderflow`: a printed delta is never negative |
| `LoadTypeCorrect` | clients, transactions, batch and message size | `[]TypeOK` of the load generator |
| `LoadOneMessage` | the same | `[]OneMessage` |
| `LoadCountsAgree` | the same | `[]CountsAgree`: `complete` and the batches |
| `LoadWaitsAreWatched` | the same | `[]WaitsAreWatched` |
| `MeasurementTypeCorrect` | the same, length of the text | `[]MeasurementTypeOK` |
| `MeasurementSound` | the same | `[]SoundOutcome`: what a return of 0 means |
| `MeasurementLoadSound` | the same | the properties of the load, in the composition |
| `EpollTypeCorrect` | workers, clients, descriptors, messages | `[]TypeOK` of the epoll server |
| `EpollOneOwner` | the same | `[]OneOwner` |
| `EpollHandOver` | the same | `[]HandOver`: a connection on a list has a wake-up under way |
| `EpollEventsCurrent` | the same | `[]EventsCurrent`: no event is handled out of date until a connection is reset |
| `EpollEchoBack` | the same | `[](OneSocket /\ Echoes)`: a client has one descriptor, and is written what was read from it |

*Start-up.* `StartInv` = `TypeOK` and `SpawnInv` and `SlotsAgree` is inductive for
any number of calls. `SpawnInv` says how far the creation loop is: workers of
later calls, and those of this call that are not created yet, do not exist; it is
needed because `SlotsAgree` speaks of workers that are past `upcall_worker_setup`,
and only a worker that does not exist yet cannot have looked at an older
`g_batch_stats`. `BarrierInv` adds that `g_init_count` is the number of workers
that arrived, that `g_go` is set exactly once main is past
`upcall_workers_go`, and that main returned only at a count of N. With one call
there are N workers in all (`ThreadCount`, by cardinality of a product), so a
count of N means that all arrived (`AllArrived`, by subset and cardinality). Both
barrier properties follow, and `BarrierStep` maps each step to one of
`StartBarrier` or to a stutter. `MaxInits = 1` is necessary: with two calls the
property is false (run `start_retry`).

*Event loop.* Three layers. `BoundsInv` is `TypeOK`, `InBounds` and `SlotsFilled`: every
slot below `buf_cnt`, and every slot a queued UP_VEC covers, was written; without
it a UP_VEC might hand out a slot that holds nothing and the pool would lose its
type. `StoredBuffers` says what doubling the array keeps. `RequestOnce` is inductive
next to it, by what `Append` adds to the requests of a queue (`EntryAdded`,
`VecAdded`). `BufferOnce` is not: a UP_VEC is a length, and the entries it stands for
are read later. `LoopShape` closes the gap: a UP_VEC that was not read yet exists
only between the top of the loop and `upcall_submit`, and `buf_cnt` is 0 there, so that
nothing is stored over it, except by a `return_buffer` in `setup_fn`. That exception
is why the theorem assumes `~SetupMayReturn`; section 6 shows what happens
otherwise. With `LoopInv` each step of the loop is a step of `UpcallService` or a
stutter: `add_*` is its `Request`, `return_buffer` its `Give`, a dispatch its `Answer`,
while the growth of the arrays and the passage of requests and buffers through queue and
kernel change nothing the callbacks can see.

*libupcall echo.* `OwnInv` says who may use a descriptor: a request or an answer in
flight finds its connection in `conns[]`, no descriptor has two of them, an accepted
descriptor is not in `conns[]` yet, and a worker in `on_close` is alone with the descriptor
until the kernel may give it out again. `OneOwner` follows; by itself it is not inductive, since it
does not say that `conns[fd]` is still there when an answer arrives. `DataInv` says
where a connection is in its stream. Between two messages everything read and written is
a multiple of `msg_size` (`Messages`), and the client's discipline, that it
sends the next message after the echo of the one before, bounds what the kernel
can hold for a read to what `conn->buffer` has room for (`SendBound`). Hence
`NoOverrun` is a theorem about server and client together: the server alone does not
check it. `EchoPrefix` follows from the position: what `my_write` sends next is what comes
next in the stream.

*Hang lock.* `HangInv` says that main has the mutex from before the first worker
exists until it has counted all of them, and that `init_count` is the number of
workers that counted themselves in. Whoever is past the mutex therefore got it
from main, after a count of N, which by cardinality is everybody. No bound on
wake-ups is needed: the mutex, not the condition, is the gate.

*Threads server.* To the start-up every step of the running server is a stutter
(`ServerStep`), so `HangImplementsBarrier` carries over. `ExitsOnError` needs `Handled`:
a thread that reads or writes has a client's socket, hence its error is that
client's reset; `read` returning 0 is not an error. `Echoes` is an account: what was
read from a client is what was written to it and what its thread still owes, which is
its cursor (`Owed`). It needs `OneThread`, since a byte that two threads could read would be
owed twice, and `ClientsInv`: a client in a backlog was not read from yet, so that
the cursor of the thread it gets, which starts at 0, is right.

*io_uring server.* `Spot` says that a descriptor is asked about by a request, the subject of
a completion, accepted, on a list, or being closed, at a worker; `Unique` that an open one
is at one spot and has a connection while requests are made for it. This is `OneOwner`
without its sums, which the lemmas on bags and cardinality turn into `OneOwner`
at the end. `Unique` needs `Single` (nothing is about a descriptor twice within a
spot), and `Lens` that a request asks for no more than the message lacks. None of
this depends on the queue: a request that finds no entry ends the process, so that
`UringInv` is guarded by `Alive`.

How much a queue takes is a second account. Between two submits a worker queues at most two
requests for a descriptor it hears of (the read of its data, and for one from its list the
read of the eventfd), and an accept with at most one write of another's eventfd. `Fits` says so
of every queue, `Accepting` that a worker asks for one accept at a time. So a queue that asks about
n connections has at most 2 * n + 2 entries, and a worker that finds none for the two it
needs next has n >= QUEUE_DEPTH / 2 - 1 (`FindsNone`): 127 for the code's 256. No
theorem assumes that the queue is long enough; what happens with more connections is in section 6.

`HandAccount` is the account of wake-ups, `armed + listed >= 1 + signals`: an entry on the
list pays for the read it will arm, and the worker started with one. Without it neither
`ReadArmed` nor `NoneForgotten` is inductive, because a wake-up that finds the list
empty arms nothing and uses one read up. What of a bag or a queue counts for which
worker is settled by lemmas on `Copies`, so that each step of the server is one of
`WakeUps` or a stutter for every worker (`HandsOver`).

*Batch statistics.* `Counting` says which counters a worker has yet to raise for its
batch, in the order of the code; all lie in its own slot, and slots are disjoint
(`g_batch_stride` is no less than the counters of a slot, whatever the cache
line). So a counter between its load and its store changes by a reset only (`Loaded`), and
no increment is lost without one. `Totals` gives the sum of each histogram in the middle
of a batch: the number of batches less what is still to count. A sum is the cardinality of the set
of `Marks`, so that adding one mark to a cell is a lemma on finite sets and needs no
induction. For `NoUnderflow` a reset is as good as any step: it zeroes `prev` with the counters,
and a store that comes after it can only raise a counter.

*Latency tester.* `InPhase` lists where the two threads can be in a turn, with the two
counters and the lengths of the two logs.
`WritesAreLast` says that the longer log ends with the last entry of all, a write. So
the next entry of the other log is its read, and `PairsAreWakeups` is kept; the lengths in
`InPhase` leave room for every entry.

*Epoll server.* `OneOwner`, `HandOver` and `EventsCurrent` are about one
descriptor each, but a step of one worker moves a descriptor that another one
holds. `Placed` says that each socket is on one list, in one worker's hands or in one epoll
set, and `ListAt` that a list holds a connection once, so that `handle_new_conns` takes it away
from the list for good. `WorkerAt` says what a worker has in hand: a connection of its own
epoll set, which its batch has no other event for; this is what `epoll_wait` returning
each descriptor once is good for, and it is exactly what a reset destroys, so
that some of its parts hold only up to `Broken` (section 6). `HandOver` is inductive with the
types alone, because whoever puts an entry on a list owes the `write` of the eventfd
from that step on, and the owner, once it read the eventfd, leaves its loop over the
list only when it finds it empty. `Echoes` is the account of the threads server, with a cursor that
is in two places: in `conn->cursor` while the connection is in the epoll set, and in `on_read`'s local
while that runs (`Owed`). `EchoInv` adds that `conn->cursor` is 0 while a message is written
and that nothing was read from a connection on a list; a step of another worker leaves the account
alone because, by `EpollInv`, it has another descriptor in hand.

*Load and measurement.* `LoadInv` adds to the types where each client is.
`Batches`: a connection that is set up or used has transactions left in its batch, and
those before it were whole batches; that a client is DONE at the end of a batch or
of the run is not inductive without it. `Transit` and `Exact`: in SENT the bytes under way
and those received add up to one message, as long as the connection is up, and before
SENT nothing is under way. `Registered` and `Phases`: a
client out of the worker's hands is registered for what its state waits for, and the worker is in
`epoll_wait` with no client in hand. `CompleteExact` counts clients by cardinality.
`MeasurementSpec` implies the specification of the load (`MeasurementLoad`), so that all of this
holds in the composition (`MeasurementLoadSound`). `SoundOutcome` needs `Answered`:
how far the answer is on each side, and that `main` joins after the load ended for
a reason.

*Cache.* `CacheInv` = `TypeOK` and `Exclusive` and `CacheIsQueue` is inductive.
`Exclusive` alone is not: taking the head is right only because the head is the
oldest free entry, and linking at the tail only because the tail is the last
entry and no block outside the list points anywhere. `LinkKeepsQueue` and
`TakeKeepsQueue` are these two facts.

Assumptions on the constants: `StartAssumption` (N and MaxInits positive),
`LoopAssumption` (batches and queue steps are positive, a pool has as many buffers as a
batch), `HangAssumption` (N positive), `ThreadsAssumption`, `EchoAssumption`, `EpollAssumption` and
`UringAssumption` (descriptors and message sizes are positive; a queue has any length, 0 included), `StatsAssumption`
(workers, buckets and the counters in a cache line are positive),
`ClientAssumption` (clients are finitely many; positive counts), `MeasurementAssumption`
(the text is not empty), `CacheAssumption`, `CountAssumption` and the `NullAssumption`s (NULL is not a
client, a worker, a connection or a block: in C, a pointer that was allocated). The theorems
assume nothing of the environment that the models do not state (section 7). Some have a hypothesis of their own,
which the table gives: `MaxInits = 1` and `~SetupMayReturn`. They hold in the use the repository
makes of libupcall; section 6 shows what happens without each.

Every invariant of a passing run is proved, and so is the safety part of every
refinement. Only model-checked:

* all liveness, which is beyond the prover as soon as fairness (`ENABLED`) is
  involved: `StartCompletes`, `AnswerIsHandled`, the four `MessageEchoed`, the four
  `DescriptorReleased`, `Measured`, `ControlClosed`, and the fairness of `FairBarrierSpec`, which
  is part of `ImplementsBarrier` for `UpcallStart` (`BarrierImplemented` is about `BarrierSpec`);
* that the observations of section 6 do happen, which takes a behaviour and not a
  proof.

## 6. What does not hold

Places where the code does something else than its comments or the reader would
expect, each with a counterexample of TLC.

1. **A retried `upcall_init`** (`start_retry`). `g_init_count` is never reset, and
   the threads of a call that failed half-way stay. They count towards the next
   call, which can return 0 before its own workers ran `setup_fn`;
   `upcall.h:61` says it "Blocks until every worker has completed setup_fn".
2. **epoll: a broken connection** (`epoll_reset`). After `on_close` for EPOLLERR or
   EPOLLHUP (`epoll.c:304`) the loop falls through to `on_read(conns[fd])`, which
   is the NULL that `on_close` left there, or the connection of whoever has
   the descriptor by then.
3. **`return_buffer` in `setup_fn`** (`UpcallLoopSetup.cfg`, `BufferOnce`). The first
   UP_VEC is queued and `buf_cnt` set to 0 (`upcall.c:163`), so `return_buffer`
   overwrites an entry the kernel has not read: one buffer is lost and another
   given out twice. No `setup_fn` in the repository does this; `upcall.h:84-91`
   does not forbid it.
4. **libupcall echo: a read or write that fails** (`UpcallEchoStranded.cfg`,
   `NeverStranded`). `my_read` and `my_write` return without arming or closing
   anything; the descriptor is never closed.
5. **A delta that is never reported** (`BatchStatsDeltas.cfg`, `DeltasComplete`). The
   monitor prints from `cur[]` and copies `cur[]` again afterwards: what is counted
   in between is in no row.
6. **A reset that is undone** (`BatchStatsReset.cfg`, `ResetZeroes`). An increment
   that was loaded before the `memset` stores the old count back.
7. **A connect that succeeds at once** (`TcpClientImmediate.cfg`, `AllWatched`). The
   client goes from INIT to READY, past NEW, and is never added to epoll.
8. **A server that closes** (`TcpClientEof.cfg`, `DeadServerEnds`). `client_recv`
   takes 0 for a short read and calls `recv` again for ever; the ten second check
   of the epoll loop is never reached.

9. **io_uring: the submission queue** (`UringEchoFull.cfg`, `NeverFull`). Each connection
   taken from the list queues two requests, and nobody looks whether
   `io_uring_get_sqe` returned NULL (`iouring.c:62`, `74`, `85`). The queue has 256 entries
   (`QUEUE_DEPTH`, `echo_defs.h:35`), connections are limited by the descriptors a process may have
   only: a burst of them that is handed over while one wake-up is handled overruns
   the queue. The counterexample has a queue of three entries instead. The
   reads of the eventfd that pile up (one per connection, `iouring.c:313`) are never
   fewer than needed (`NoWorkerLosesItsList`), but they are never taken back
   either. It takes requests for 127 connections in one queue (`SqeFitsAlways`): a
   worker that has fewer to ask about between two submits finds an entry.
10. **A timeout hides a failure** (`MeasurementReport.cfg`, `FailureReported`). A worker
   that is in `epoll_wait` while another one dies may wait for ten seconds and call
   `exit(1)` (`tcp_client.c:486`); `main` never gets to `do_error_report`. A comment
   at `tcp_client.c:503` says "We want to dump state if we died".
11. **Statistics cut short.** A server that ends while it writes them makes `read` return
   0; `main` writes the zeroed rest of the buffer to the file and returns 0.
   `SoundOutcome` says that this is the only incomplete measurement that returns 0.
12. **threads: one reset ends the server** (`ExitsOnError`, `ServerSurvives`). `conn_handler`
   calls `exit(1)` for any error of `read` or `write`.
13. **epoll: a client that does not read** (`EpollEchoIdle.cfg`, `MessageEchoed`). `on_read`
   goes round its write loop on EAGAIN (`epoll.c:143`): the other clients of that
   worker are not served any more. In the threads server they are.

The properties of the passing runs say where these cases are excluded: by
`failed` in `UpcallEcho`, by `Broken` in `EpollEcho`, by `immediate` and `faulty` in
`TcpClient` and `Measurement`, by `Alive` in `UringEcho`, by `Idler` in `EpollEcho`, by `resets = 0` in `BatchStats`, by one call in `start`.

## 7. Assumptions about the outside

* The kernel behind `upcall_submit` is not in the repository. It is taken to read
  the whole queue on entry, to accept every UP_VEC, to answer each request at most
  once (a close perhaps never), and to put a pool buffer only into the answer of
  a read that succeeded. `len` of a read's answer is taken to be the capacity of
  its buffer, `result` the number of bytes.
* `accept` returns the lowest free descriptor and there are enough of them;
  `close` frees one at once. `EpollEcho` ends where none is left: `accept4` fails and
  the server exits.
* epoll is level-triggered and reports EPOLLHUP/EPOLLERR for a connection that was
  reset; an eventfd counts; a TCP stream keeps its order. io_uring
  starts requests when they are submitted and completes them in any order; a
  read of an eventfd waits until it was written.
* Clients of the servers behave as `tcp_client.c`: the next message is sent after
  the echo of the one before.
* x86-64: an aligned 64-bit load or store is atomic, the TSC is the same on all
  CPUs.
* A call that fails in a way the program answers with `exit` or `abort` ends the
  behaviour.

## 8. Not modelled

* The text `on_error` prints from `conns[]`, which workers change meanwhile: a
  diagnosis only. That `cursor` adds what `snprintf` would have written
  (`tcp_echo.c:342`) may carry it past the buffer for a last line of more than 32
  characters; this needs the text.
* Perf counters; `plot.py`, the scripts and the images; the batch statistics' dump
  command, which only reads.
* A `write` that returns 0 (`epoll.c:145-148`, `threads.c:64-65`): a write of at least one byte
  to a TCP socket does not.
* The clamp of a batch's size (`upcall.c:274`), which a count never reaches: `upcall_submit`
  returns at most `batch_sz` events. The clamp of its time is modelled.
* Facts of one line, which no behaviour would tell more about: `calloc` used before
  it is tested (`tcp_echo.c:106`); a batch size of 0 (`upcall.c:114`, `tcp_client.c:741`,
  both modules assume at least 1); `add_accept` and `add_close` leaving old fields in
  their entry (`upcall.c:205`); NULL given to `cache_free` when a connection breaks
  before its first read (`epoll.c:410`); the unsigned comparison at
  `tcp_client.c:544` and the size read in one go at `tcp_client.c:858`; EAGAIN of
  `send` taken for an error (`tcp_client.c:148`).
* `tsclog` with several writers of one log, and the dump of the log.

## 9. Plan

Done: every component above but those of section 8; the proofs of section 5.

Next, models:

1. `TscLog`: reservation by compare-and-swap with several writers, the overflow mark,
   a reader. Every log of this repository has one writer, so this is about the
   library's promise, not about a program here.
2. A composition of `TcpClient` with `UpcallEcho`, in which the client's discipline is
   no longer an assumption.

Next, proofs: that composition would replace the client's discipline, an assumption of
`EchoNoOverrun` and of `EchoEchoPrefix`, by `LoadOneMessage`, which is proved.
