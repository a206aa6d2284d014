# IOT Drive: TLA+ specification and proofs

IOT Drive is a network block device: the kernel's requests to `/dev/nbd0` are served by a
*master* that stripes and mirrors them over three *minions* by UDP.  This directory models its
request path, placement, wire format, timers, thread pool, NBD server, the minions' files, and the
start, plugins and exit of a process; it checks them with TLC and proves the main properties with
TLAPS.  Line numbers refer to the repository (`src/src/*.cpp`, `src/include/*.hpp`).

## 1. Inventory

| Component | State | Operations | Must hold |
|---|---|---|---|
| NBD thread (`raz_nbd.cpp`, `buse.cpp`) | one request at a time, TCP socket to the master, socket pair to the kernel | `NBD::Run`, `buse_main`, `serve_nbd`, `NBDRead`, `NBDWrite`, `disconnect_nbd` | each request gets its own reply; the server starts or reports its error; a signal ends it and cuts nothing off |
| Reactor (`reactor.cpp`), `InputMediator` | map fd -> callback | `Run`, `FDListen::Listen` | a readable fd is served |
| Proxies (`inputproxy.cpp`) | sockets | `GetArgsKey` of `NBDProxy`, `ResponseProxy`, `MasterProxy`; `NotifySucces`; requests and responses | one reply per request, sizes agree |
| Messages (`message.cpp`) | none | `ToBuffer`, `FromBuffer`, `GetBufferSize`, `SupplyArgs` | what is sent is what is received; no valid datagram fails its checksum |
| ThreadPool, WaitableQueue (`threadpool.cpp`, `priority_queue.hpp`) | priority queue, workers | `AddTask`, `ThreadFunc`, `Pause`, `Resume`, `SetNumThreads`, destructor | every task runs once, none while paused; the destructor returns |
| Commands of the master (`command.cpp`) | uids, static poll counters | `ReadCommand`, `WriteCommand`, `ReadAIFunc`, `WriteAIFunc` | Success means two copies; every request is answered |
| Raid01 (`raid01.cpp`) | three proxies | `OffsetToProxy` | copies on two minions, no overlap, as far as requests stay in their stripe |
| ResponseManeger (`response_manger.cpp`) | `m_watchlist`, uid counter | `RegisterCommand`, `RegisterResponse`, `HasResponseRecived` | a response is credited to its request only |
| Scheduler, AI (`scheduler.cpp`, `ai.cpp`) | POSIX timer, `m_currentTask`, `m_wq` | `AddTask`, `SetTime`, `ThreadFunc`, `Perform` | no task is forgotten, none runs after deletion |
| Minion commands (`command.cpp`) | `minionN.bin`, one `fstream` position, `is_init` | `MinionReadCmd`, `MinionWriteCmd`, `GetBinFile` | reads return the last write |
| Sockets (`socket.cpp`) | file descriptors | `Send`, `Recive`, `Response` | - |
| Logger (`logger.cpp`) | queue, log thread | `Log`, `LogThreadFunc`, destructor | every line is written once |
| Singleton (`singleton.hpp`) | instance, flag, mutex per class | `GetInstance`, `Init`, `Supply`, `Dtor` | one object, constructed when handed out |
| DirMonitor, DLLLoader, Dispatcher (`dirmonitor.cpp`, `dispatcher.hpp`) | inotify watch, callback list, handles | `Monitor`, `DMRegister`, `Notify`, `Load` | plugins are loaded, code outlives its creators |
| Framework, Factory (`framework.cpp`, `factory.hpp`) | creators | constructor, `AddCtor`, `Create` | start and exit do not hang |
| Handleton, DataBase | - | - | not used on any path |

How they interact.  The NBD thread sends a request over TCP and waits.  The reactor thread reads
it and queues a task; a worker registers one uid (read) or two (write) in the watch list, sends the
datagrams and creates an AI.  Minions answer by UDP; the reactor thread marks the uid as DONE and,
for a read, writes the data to the TCP stream itself.  For a write it is the AI, run by a timer
thread every 500 ms, that polls the watch list and writes the reply.

What is hard: four kinds of threads share the watch list and the poll counters without a lock; UDP
loses, repeats and delays; a response is erased by the poll that sees it; the timer is armed
outside the mutex; replies in the TCP stream carry no request number; the workers of a minion share
one file position; `Resume` and `GetInstance` read flags without their mutex; destructors run in an
order that depends on who was constructed first; every message is received by one `recv`, which may be
short; a request is placed by its first byte, wherever it ends.  `hazards` in `PROJECT.json`
lists each at its line.

## 2. Modules

| Module | Models | State and actions |
|---|---|---|
| `Raid01` | `raid01.cpp` | `OffsetToProxy`, a constant operator |
| `RaidVolume` | the files under the placement, requests one after the other | `files`, `result`, ghost `overrun`; `ReadCommand`, `WriteCommand` |
| `BlockDevice` | abstract: a disk that serves a request up to the end of its stripe | `disk`; `Read`, `Write` |
| `ResponseManager` | `response_manger.cpp`, `ThreadSafeUID` | `m_watchlist`, `m_static_counter` |
| `UdpNetwork` | datagrams in flight | `Send`, `Deliver` (possibly twice), `Drop`, `Vanish` |
| `MinionStore` | `GetBinFile` and the files | `files`, `is_init`; `StoreBlock`, `FetchBlock`, `Restart` |
| `IotDrive` | composes the three above with NBD thread, reactor, workers and timer threads | one action per critical step, `pc[r]` follows the command and the AI of request `r` |
| `Scheduler` | `scheduler.cpp`, `ai.cpp`, the POSIX timer | `m_currentTask`, `m_wq`, `armed`, `pending`, `threads`, `ai` |
| `TimerService` | abstract: what AIs may rely on | `phase`; `Schedule`, `Run`, `Delete` |
| `Messages` | `message.cpp` and the sizes the proxies compute | `stream`, `arrived`, `datagrams`, `thrown` |
| `MinionFile` | commands of a minion call by call | `file`, `pos`, `is_init`, `pc` per worker |
| `MinionDisk` | abstract: a flat disk that a restart empties | `disk`; `Read`, `Write`, `Forget` |
| `WaitableQueue` | `priority_queue.hpp` | `queue`, `asleep`; `Push`, `NotifyOne`, `PopAt`, `Wait` |
| `ThreadPool` | `threadpool.cpp`, `logger.cpp`, on two instances of `WaitableQueue` | pool fields, `pc` per worker, `ctl` for the calling thread, `logger` |
| `TaskService` | abstract: what callers of the pool may rely on | `phase`, `state` per task |
| `NbdServer` | `buse.cpp`, `NBD::Run`, `NBDProxy::NBDProxy`, `MKFSAndMount` | `main`, `mkfs`, `device`, `parent`, `child`, socket pair, signals |
| `Singleton` | `singleton.hpp` for several classes and threads | instance, flag and mutex per class, `step` per thread and class |
| `Framework` | extends `Singleton`: `framework.cpp`, `dirmonitor.cpp`, `dispatcher.hpp`, `AddCtor` | `stage` of main, `monitor` thread, `events`, `opens`, `nulls`, `m_map` |
| `RaidVolumeProofs`, `IotDriveProofs`, `SchedulerProofs`, `MessagesProofs`, `MinionFileProofs`, `ThreadPoolProofs`, `NbdServerProofs`, `FrameworkProofs` | theorems about the module of that name (those about `Raid01` are in the first two) | - |

`MC*` modules hold the request sets, the symmetry and the constraint for TLC.

### RaidVolume and the code

The kernel may issue any request that lies on the device and is at most `MaxRequest` cells long.  The
limit of `test/master_test.cpp:15` (`max_sectors_kb`) is one of size, and nothing in the code cuts a request
at the end of its stripe or aligns it: with blocks of 1 KB, 4 KB at 4 MB - 1 KB cross.  Such a request is
sent as it is: its original goes on into the backup half of the same minion, its backup past the 8 MB that
`GetBinFile` filled, so a file is a function on a domain that grows.  `overrun` is a ghost: the cells whose
backup was hit and that have not been written since.

### IotDrive and the code

* `Issue` is `serve_nbd` up to the blocking `Recive` in `NBDRead`/`NBDWrite`; `Complete` is what
  follows.  A block is `BlockLen` units of the stream, a status text `StatusLen`: a status is shorter
  than a block, so one `Recive` returns it alone or with what follows.  `recv` is called once and may
  return less than has been sent (`MaxShort`); the rest then stays in the stream, as in the code, and the
  ghost `short` counts it.  `Unit.of` is ghost.
* `Select`/`Interrupted`, `HandleNBD`, `HandleUDP` are the reactor thread.  `m_map` is hashed, so
  which fd is served first is a constant (`FirstFd`).
* `Register`, `SendOg`, `SendBackup` are a worker in `Execute`; the last one also creates the AI.
* `ReadPoll`, `WritePollOg`, `WritePollBackup`, `LoadCounter`, `StoreCounter`, `TestCounter`, `GiveUp`,
  `ResetCounter` are the steps of `ReadAIFunc` and `WriteAIFunc` between which other threads matter: the
  two polls, every load, store, test and reset of a static counter, and the reply, whose text depends on
  what `og_counter` holds by then.
* `MinionRestart` empties a minion's file and takes with it any of the commands that were on their way to
  it, the one it was executing included; a write whose file is emptied and whose response was not sent is
  a response that never arrives.
* `MapRace` is the outcome of a data race on the `unordered_map` that the model keeps: an entry
  that is DONE is lost.  Other outcomes of the undefined behaviour (a crash) are not modelled.
* Every default constructed message also takes a uid, so real uids have gaps; no property tells
  this apart.  `GetIsSuccess` is always true because minions always send true.
* The scheduler and the pool are abstracted to "at any time".  `Scheduler` refines `TimerService` and
  `ThreadPool` refines `TaskService`, which are the views `IotDrive` takes: what is scheduled or added
  runs, once, and an AI never after its deletion.
* A command of a minion is atomic here.  `MinionFile` refines that step, assuming that a minion has
  one command at a time, which is `OneCommandPerMinion` of `IotDrive`.

### Scheduler and the code

A critical section of `m_mutex` is one step.  `SetTime` of `AddTask` runs after the unlock: the read
of `m_currentTask.second` (`ReadTime`, torn while another thread may write: any time) and
`timer_settime` (`ArmTimer`) are steps of their own.  What happens to a pending expiry when the
timer is armed again is unspecified by POSIX, hence a choice.  No property speaks of punctuality: a
stale `SetTime` may make a task run early or late.

### Messages and the code

A byte is symbolic (field, value, index), so that a receiver that looks at the wrong place decodes
garbage.  TCP may deliver a part of a message; the ghost `short` records that a `recv` returned less
than asked for, which the code does not notice, and both properties speak of behaviours without it. Key
and size are taken to arrive together.  The checksum is a byte whose value is the set of bytes that
occur an odd number of times, since equal bytes cancel under `^`; `ReadMsg` and `WriteMsg` carry one.
`FromBuffer` compares it, and in the build of the Makefile (no `NDEBUG`) a difference throws
(`error_handler.hpp:56`), which `minion_test.cpp:42` does not catch: `thrown`, and the minion ends. With
`NDEBUG` the comparison is not compiled.  Datagrams are not corrupted (UDP has its own checksum), so
`RoundTrip` is about the code: both sides must cover the same bytes.

### MinionFile and the code

Every call on `bin_file` is a step (`Seek`, `Read`/`Write`, `Home`), every turn of the loop of
`GetBinFile` is one, and so are the test and the reset of `is_init`.  `Restart` may come between any two.
The refinement maps the file to zeros until the fill is finished: before that no command has looked
at it.

### ThreadPool and the code

`m_resume` and the spinning loops of `Pause` are unsynchronised, so the test of `m_resume` in
`m_cd.wait` and the moment the worker becomes a waiter are two steps (`PauseTest`, `PauseSleep`) between
which `Resume` may come.  A timed `Pop` that finds nothing is called again, hence no step.  The task in
the model logs a line and posts its semaphore (`Run`, `RunNotify`, `RunPost`).  One thread controls the
pool and resumes what it has paused; no code in the repository calls these operations from two.  At
exit the pool is destroyed before the logger.

### NbdServer and the code

`main` is the constructor of `NBDProxy`: listen, start the thread, accept, start mkfs.  `parent` is the
thread of `NBD::Run`, `child` the process that stays in `NBD_DO_IT`.  The device is usable, may not be
opened, or is missing; `SetDevice` and `SetHandlers` have the error returns of `buse_main` (`refused`),
its assertions and a failing `fork`.  A header is one unit, and a read of it may be short, upon which
the assertion fails (`ReadShort`); data are `PayloadLen` units; only `read_all` loops, as in the code.
`WaitDevice` is the loop of `IsBusy`, `MKFSAndMount` the two commands, either of which may fail.  The
kernel is external: it sends requests while connected, answers a disconnect with `NBD_CMD_DISC` behind
them, and its `NBD_DO_IT` returns when the other end is closed.  That five seconds outlast the setup
before mkfs is assumed; mkfs or mount that fails throws and ends the process.

### Singleton, Framework and the code

Each load, store and lock of `Init` is a step; stores of one thread are seen in program order, as on x86
in the unoptimised build of the Makefile.  `Order` is the constructor of `Framework`.  A plugin is taken
to register a creator when it is loaded.  `AddCtor` is two steps, so that of two threads one may undo
the other's change.  `dlopen` of a file that is not complete returns NULL, which `Load` keeps (`nulls`);
`~DLLLoader` then calls `dlclose(NULL)`, which crashes in glibc (`CloseNull`).  `QuietExit` says that no
plugin arrives while the process exits: the monitor thread would otherwise use a destroyed `Factory` or
`DLLLoader`.

## 3. Runs

States are distinct states; all passing runs together fire every action.

| Run | Bounds | Shows |
|---|---|---|
| `raid_volume` | stripes of 2, requests of 1 and 2 cells at every offset, 2 values; 30 721 | copies differ only where a crossing write went; every request is served for the cells of its stripe, and a read must return the cells *it* named; files grow by less than a request |
| `drive_safety` | 2 requests, 1 duplicate of the first, 1 short `recv`, races; 2.8 M | `SuccessMeansReplicated`, `OneReply`; without duplicate and short `recv`, replies stay in step |
| `drive_mirror` | 4 requests, 2 blocks, 2 values (symmetric), 1 failing select; 2.2 M | confirmed writes are read back, copies agree, one command per minion; only behaviours in which no write has failed (`NoFailure`) |
| `drive_live` | 2 requests, losses of responses, 1 restart of a minion that loses commands, races, prompt timers; 0.43 M | every write is answered, every read is answered unless its datagrams were lost, counters hit their limit |
| `scheduler` | 2 AIs with different intervals, 2 executions each; 0.3 M | a wake-up is on its way, the current task is the earliest, one place; refinement of `TimerService`; every added task runs |
| `messages_round` | all 6 types, 2 messages, 2 uids, short `recv`s; 0.25 M | layouts, sizes and checksums agree |
| `minion_file` | file of 3 cells, requests of 1 and 2, 2 workers, 1 restart; 0.24 M | refinement of `MinionDisk`; every command is answered |
| `thread_pool` | 3 threads, 2 at first, resized to 1 or 3, 2 tasks, 2 calls; 0.28 M | refinement of `TaskService`; at most one missed worker; log complete; tasks delivered; destructors return |
| `nbd_server` | 4 requests of all 4 kinds, payload in 2 pieces, 2 signals, every failure of the setup; 0.67 M | the server starts or reports its error, both sides in frame, nothing cut off by a disconnect, signals end the server |
| `framework` | 2 plugins, each copied or moved in at any time, 1 foreign exit; 0.4 M | one instance, hot loading, order of destruction; start and exit end, or the exit crashes in `dlclose(NULL)` and nowhere else |

Why the bounds are enough: two requests are what it takes for the leftovers of one (late responses,
counters, bytes in the stream) to meet the next one; two AIs fill current task and queue; stripes of two
cells have an inner and a boundary request; a second worker is the one that takes the next command while
the first has just answered; two pool calls are a pause after a resize or after a pause; a second signal
is the one after a failed disconnect.  `POLL_LIMIT` is 2 instead of 50: one poll that fails and one that
gives up.  For safety a loss is a delay without end, so `drive_safety` and `drive_mirror` run without
`Drop`; a lost entry of the watch list can only delay a success, so the races are left to `drive_safety`
and `drive_live`.  `EarlyRepeat` lets a duplicate begin during the first request, so that its copy can
still meet the second.  In `drive_live` responses are lost by the network and commands with the restart:
to the master a lost command is a lost response.  A request of a whole stripe is the longest one of `RaidVolume`, and goes as far past
the end as any.  Deadlock is not checked in `drive_*` and `messages_round` (the kernel may stop issuing
requests), `scheduler` (all AIs may be deleted), `thread_pool`, `nbd_server` and `framework` (the
process ends).

### Where documents and code disagree

| Run | Document | Code |
|---|---|---|
| `drive_confirmed` | reactor-flow.puml:32-33 | a response seen alone is erased; the write is reported as failed (`response_manger.cpp:22`) |
| `drive_unmirrored` | README:5 | `NBDWrite` ignores the failure text (`raz_nbd.cpp:75`) |

More limits of the code have no run of their own, because a property above names their condition:

* A request across a stripe boundary is placed by its first byte (`raid01.cpp:24`): what it names in the
  next stripe is not written or read there, and a write overwrites the start of the backup half of the
  same minion.  `ImplementsBlockDevice` says which cells are served, `Mirrored` which copies may differ
  (`overrun`).
* A lost datagram of a read, also one that is lost with a restarting minion, is never sent again
  (`command.cpp:29`): `ReadAnswered` has this exception.  A duplicated read response is passed on twice
  (`inputproxy.cpp:204`): `RepliesInStep` speaks of behaviours without duplicates.
* A write that was given up can be overtaken by the next read (`command.cpp:213`): `ReadsSeeLastWrite`
  speaks of confirmed writes.  Its late command can also overlap with the next one in a minion.
* A restarted minion zero fills its file (`command.cpp:129`): `Forget` of `MinionDisk`.  A confirmed
  write is then read back as zeros although the other copy still exists.
* `recv` is called once per message (`socket.cpp:238`) and once per reply (`raz_nbd.cpp:57`, `:75`):
  `short` of `Messages` and of `IotDrive`, up to which `RoundTrip` and `RepliesInStep` hold.  The same
  goes for the header in `serve_nbd` (`buse.cpp:128`): `short` of `NbdServer`.
* A device that cannot be opened makes `buse_main` return 1 (`buse.cpp:221`), which `NBD::Run` passes on
  and nobody looks at: the master runs on without a device.  `ServerStarts` has this case.
* `dlclose(NULL)` after a failed `dlopen` crashes at exit (`dirmonitor.cpp:129`, `:146`):
  `StartsAndEnds` has this case.
* `Resume` can miss one worker (`threadpool.cpp:71`); the destructor then does not return.  Pills
  overtake queued tasks (`threadpool.cpp:23`).
* A plugin that is copied in is opened when it is created, before it has content, and one that arrives
  between the scan and the registration is missed (`dirmonitor.cpp:77`): `HotLoaded` speaks of plugins
  that are moved in after it.  A plugin that the scan finds creates the Factory inside the constructor
  of `DLLLoader`, and its code is unmapped before its creator is destroyed.

## 4. Fairness

`IotDrive!Fairness`: NBD thread, reactor, every worker and every timer keep running, and what is not
lost is delivered (weak fairness).  Nothing is assumed of the kernel, of losses, signals, races and
restarts.  `WriteAnswered` and `CountersHitLimit` also need `PromptTimers`: an AI that has begun to run
ends before the next one starts, which 500 ms between polls make likely and nothing guarantees;
without it two threads can step over the limit.  `Scheduler!Fairness`: time passes, the timer
fires, threads go on.  `MinionFile`: a worker that has a command goes on.  `ThreadPool!Fairness`: workers,
log thread, and the calls that have begun go on; nobody has to call, and spurious wake-ups are not
counted on.  `NbdServer`: main, parent and child go on, the kernel reads replies, and a read or write of
the master returns, which is `WriteAnswered` and `ReadAnswered`; nobody has to send requests or signals.
`Framework`: main and the monitor thread go on; nobody has to bring a plugin or to end the process.  All
of it is weak fairness of threads that the operating system schedules.

## 5. Proofs

Every safety invariant and every refinement that a run checks is also a theorem, for all values of the
constants.  Assumptions are the named `ASSUME`s on the constants (types, `MINION_SIZE > 0`, requests
inside the volume and up to a stripe long, sizes and `PayloadLen` not 0, the names `"free"` and `"Log
End"` being no thread and no task); TLC evaluates them in the runs.  Each inductive invariant was
checked by TLC before it was proved. Where a theorem has a condition, it is a constant or a ghost of the
model; sections 2, 3 and 4 say what the code does without it.

**Placement** (`IotDriveProofs`, `RaidVolumeProofs`).  `PlacementTheorem`, `DisjointTheorem` from the
division theorem for `MINION_SIZE`.  `VolumeTypeTheorem`: a file keeps what was filled and is made
longer by less than a request.  `MirroredTheorem`, `BlockDeviceTheorem` have no premise on alignment:
the cells of a span are the images of the named cells of the stripe, and beyond its end exactly the
backups of `Hit` or what lies past the volume; with that `TypeOK /\ Mirrored` is inductive.

**Request path** (`IotDriveProofs`).  Four layers of one argument:

* `Inv` (`TypeTheorem`, `ReplicationTheorem`, and with `Answered` `OneReplyTheorem`).
  `SuccessMeansReplicated` is not inductive; `Inv` follows the evidence backwards: what the AI has
  *seen*, the DONE entries of the *watch list*, the responses in inbox and network (*datagrams*), the
  writes executed; *uids* handed out once tie them to one request.  With losses, duplicates, races,
  failing selects and restarts.
* `Order` (`InStepTheorem`, `OneCommandTheorem`) holds as long as no datagram was delivered twice and no
  `recv` was short.
  `OneTrace`: a uid has at most one trace in the system, be it a command unsent, a datagram, or an entry
  of the log of confirmed uids.  From this each request is replied to once, and `InStep`: the stream to
  the NBD thread holds the whole reply to the current request, or nothing.
* `Storage` (`ReadsTheorem`, `MirrorsTheorem`) also needs that no minion has restarted.  `Contents`:
  with no failed write to a block, each copy holds the last write that has been executed there, and only
  the outstanding write may be missing; `ReadData` says the same of data on its way back.
* `Counting` (`CountersTheorem`): under `PromptTimers` one AI at a time is between load and reset, so a
  counter grows by one and is compared at each value.

**Scheduler** (`SchedulerProofs`).  `SchedulerTypeTheorem`, `SchedulerTheorem`, `EarliestTheorem`,
`OnePlaceTheorem`, `TimerServiceTheorem`: the conjuncts need each other.  `NoLostTask` needs
`EarliestFirst` (a thread that finds no current task may do nothing only because the queue is then
empty; it says nothing of the time the timer is armed for), the refinement needs `OnePlace` and
`Counts`.  Unconditional.

**Messages** (`MessagesProofs`).  `Layout`: for each of the six classes, `ToBuffer` puts every field
where `FromBuffer` looks for it (`Holds`), and its length is both `SendSize` and `ReciveSize`.
`PeekAndTake`: key and size decoded from the first eight bytes are those of the message, however little
of the rest has arrived.  With `Queued` and `Streamed` (the stream is empty or holds exactly the one
message that is under way) this gives `FrameTheorem` and `RoundTripTheorem`, for TCP as long as `recv`
was not `short`.  `Covered` bytes of the buffer are `FieldsToBuffer` of the message, so the checksum that
`FromBuffer` computes is the one that was sent, and it never throws.

**Minion files** (`MinionFileProofs`).  `FileTypeTheorem`, `MinionDiskTheorem`: safe without a lock only
because one worker at a time has a command (`Alone`: the others are idle, and with none under way `pos`
is 0); `Progress` says where `pos` is at each call and that the cells below `i` are zero during the
fill, so that clearing `is_init` shows an empty disk.  The premise is what `OneCommandTheorem` proves of
the master.

**Thread pool and logger** (`ThreadPoolProofs`).  `InQueue` and `AtWorker` place each task exactly once,
in the queue or in a worker; `Gate`: a worker between test and sleep holds `m_mutex`, and
`m_pause_ready` counts those that have arrived; `Counters` and `LiveCount` account for every pill and
pause task still queued against the workers alive; `Pausing` says which workers have stopped at each
step of `Pause`.  Hence `PoolTypeTheorem`, `StragglerTheorem` (two workers cannot both be between test
and sleep, since each holds the mutex there), and `TaskServiceTheorem` (with all live workers accounted
for as asleep, none runs a task while paused).  `Log` describes the concatenation of file, line in hand
and queue, whose last record is the stop record: `LogTheorem`.

**NBD server** (`NbdServerProofs`).  Both directions of the socket pair are described pointwise: behind
a header lie as many units of data as its request has, then a header or the end (`Skip`, `Framed`), and
the data that `serve_nbd` has still to read come first (`Rest`).  `OnePlace` and `SomePlace`: a handle
that was sent is in exactly one place, on its way up, in `serve_nbd`, on its way down, or answered.
`Ending`: the loop ends only when the kernel has nothing more to say, and every request is then on its
way down or answered.  Hence `NbdTypeTheorem`, `InFrameTheorem` (up to a short read of a header),
`AnsweredTheorem`.

**Start and exit** (`FrameworkProofs`).  `ClassInv` gives for each step of the mutex's holder what
instance, flag, object count and atexit entry are, so that whoever is past the second test finds nothing
made yet. `OneObjectTheorem` is unconditional: two threads never make two objects.  `Where` says at
which stage a thread can be inside which `GetInstance`, `Budget` counts who has still to open a plugin
(scan, event in the queue, monitor), which bounds `opens` by 2 in `FrameworkTypeTheorem`.  `Quiet`
(under `QuietExit` no thread is in `GetInstance` or `Load` after exit began) gives the second half of
`OneInstance` in `OneInstanceTheorem`; `LoaderFirst` (until the scan loads something, `DLLLoader`
registers with atexit before the `Factory`) and `Unloading` give `CodeTheorem`.  These two have
`QuietExit` as their condition.

Induction over data is replaced by what the provers can do: pointwise descriptions of sequences instead
of recursive ones, and the minimum or maximum of a finite set of request numbers
(`WellFoundedInduction`) where the last write is meant.

## 6. Only model-checked

Liveness (`WriteAnswered`, `ReadAnswered`, `EveryTaskRuns`, `CommandAnswered`, `EveryTaskDelivered`,
`DestructorsReturn`, `SignalEndsServer`, `ServerStarts`, `HotLoaded`, `StartsAndEnds`) is outside the prover's
reach, and so is the absence of deadlock (`ENABLED`).  The two disagreements of section 3 are counterexamples
and need no proof.

## 7. Not modelled

Socket setup (names and addresses), parsing of the fixed arguments of `NBD::Run`, MySQL (`DataBase`),
`Handleton` (unused macros), formatting of logs; allocation failures and exceptions other than those of
mkfs, mount and the checksum; leaks of buffers; `Reactor::Unregister`, `Reactor::Stop` and
`DMUnregister`, which nothing calls; a failing `fstream`; a restart of the master, of whose state
nothing is kept; crashes as outcomes of data races; `src/priority_queue.cpp`, an old copy of the header;
`include/my_nbd.hpp`, a kernel header.

## 8. Plan

Every component with state on the request path, and start and end of the processes, are modelled, and
their safety properties proved.  What is left:

1. The two layers of the request path joined in one theorem: the files under `IotDrive` as an instance
   of `BlockDevice`, for behaviours without failures.
2. Action properties that runs do not check yet: that uids never return and that an entry of the
   watch list is erased only by the poll that has seen it or by a race.
