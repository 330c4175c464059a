# A TLA+ development of libagent

libagent is a Rust library that a host application loads to run two child processes, the Datadog
*agent* and the *trace-agent*, to keep them alive while a session is open, and to forward HTTP
requests and DogStatsD datagrams to them.  Its hard part is not the data it moves but its
*lifecycle*: host threads call `initialize()`, `stop()` and the proxy functions at any time, a
monitor thread respawns children that die, and the operating system kills processes, reuses pids
and refuses threads whenever it likes.  Around that core lie a request path with two timeouts rules,
an HTTP codec that has to decode whatever arrives, and three platform mechanisms that are to end the
children with the host.  This directory models them, model-checks them with TLC and proves the main
theorems with TLAPS.  Paths below are those of the repository; line numbers
refer to the modelled commit and are listed definition by definition in `PROJECT.json` under `map`.

## 1. Inventory

| Component | Source | State it keeps | Operations |
|---|---|---|---|
| Global manager, session API | `src/manager.rs` 640-705, `src/lib.rs` | `GLOBAL_MANAGER`: a mutex around an `Arc<AgentManager>` | `initialize`, `stop`, `get_manager`, library destructor |
| AgentManager | `src/manager.rs` 67-510 | `should_run`, `start_stop_lock`, `monitor_thread`, two child slots, two backoffs, `trace_agent_ready` | `start`, `stop`, `tick_process`, `spawn_process`, `ensure_trace_agent_ready` |
| Monitor loop | `src/monitor.rs` | the locals of a round, the condition variable | check, spawn, commit, sleep |
| Process spawning | `src/process.rs` | none | `spawn_process`, `configure_unix_process` |
| Shutdown of a child | `src/shutdown.rs` | the local `terminated` | `graceful_kill`, `wait_with_timeout` |
| Metrics | `src/metrics.rs` | relaxed atomic counters, initialization instant, four moving averages under a mutex | record and read |
| FFI | `src/ffi.rs` | none but the metrics | `Initialize`, `Stop`, `GetMetrics`, `ProxyTraceAgent`, `SendDogStatsDMetric` |
| HTTP codec | `src/http.rs` | the buffers of one request | default headers, head, body by length, by chunks or up to the end |
| UDS client | `src/uds.rs` | a stream per request, a timeout per read and write | connect, write, read, drain |
| Named-pipe client (Windows) | `src/winpipe.rs` | a pool of four workers, a channel each; per request a handle and one deadline | submit, work, time out, shut down; open, write, read |
| DogStatsD client | `src/dogstatsd.rs` | none | one datagram, or one write to a pipe |
| Configuration, logging | `src/config.rs`, `src/logging.rs` | cached level | read environment, format |
| Orphan monitor (macOS, BSD) | `src/manager.rs` 512-640 | environment variables, then the pids it was forked with | fork, poll the parent, kill |
| Job Object (Windows) | `src/manager.rs` 304-362, 464-487 | the job handle | create, assign, terminate |

**How they interact.**  `initialize` and `stop` are called by host threads.  `initialize` holds the
cell's mutex from its look at `should_run` to the end of `start`, which spawns the children on the
*caller's* thread and then starts the monitor.  `stop` clones the `Arc`, releases the cell, and
works under `start_stop_lock`: it clears `should_run`, notifies the monitor's condition variable,
joins the monitor, kills the children one after the other, and resets metrics, readiness and backoff.
The monitor shares the slots, the backoffs and `trace_agent_ready` with the controllers, and
`trace_agent_ready` and `trace_child` with proxy callers.  The proxies hold `trace_agent_ready`
for up to ten seconds while they probe the trace-agent's endpoint.  `ProxyTraceAgent` counts the request,
waits for readiness, sends it over the socket (Unix, on the caller's thread) or through the worker pool
(Windows), counts and measures the answer, and makes one of two callbacks.  The orphan monitor shares
nothing with the host but the environment it was forked with.

**What is hard.**  (a) Two controllers and a monitor between each other's steps; (b) the monitor's check /
spawn / commit, which releases the slot between its phases; (c) `trace_agent_ready` and `trace_child`, locked
in opposite orders by `start` and by proxies; (d) a notification sent without the condition variable's mutex;
(e) children that exit, zombies and pids that are reused; (f) two backoff deadlines behind one sleep; (g) an
escalation of signals with timeouts against processes that ignore or cannot receive them; (h) a worker pool
whose callers time out while the work goes on (Windows); (i) HTTP bodies that end in three different ways, cut
into reads anywhere; (j) a timeout per read on one platform and one deadline for all reads on the other; (k)
counters read one by one while they move; (l) a host that dies at any step, with children that could not be
tied to it.  `PROJECT.json` lists each as a hazard at the line where it bites.

**What makes the components correct.**  One active session, reachable by the next `stop`; no child
spawned, kept or lost past the join; each child owned once and never touched after it is collected;
readiness that belongs to the current trace-agent; every call returns; a running session regains
its trace-agent; no retry before its time and no sleep past a deadline; SIGTERM before SIGKILL, no
signal to a foreign pid, and a true report.  An answer that is accepted is what the peer meant, one that
is refused deserves it, and a call ends when it should; every call is counted once, calls back once and
reports what happened; what its platform covers does not outlive the host, and nothing else is killed,
except that an orphan monitor may strike whoever has got a pid of its children since (`StrayMonitor`).

## 2. The modules

| Module | What it is |
|---|---|
| `Session` | The abstract promise: sessions go unborn, active, draining, closed; one is active at a time; a process is spawned only for a session that is active or draining |
| `Lifecycle` | The detailed core: cell, managers, controllers, proxies, monitor threads, processes.  Implements `Session` |
| `MCLifecycle` | `Lifecycle` with the symmetry TLC uses |
| `Respawn` | Backoff, deadlines and sleeping of one session against the clock |
| `Shutdown` | `graceful_kill` against one child and its process group |
| `WorkerPool` | The pool of the Windows named-pipe client: callers, channels, workers, shutdown |
| `HttpClient` | One request over socket or pipe: open, write, read, decode, against a peer that cuts, truncates, stalls or lies |
| `MCHttpClient` | The replies TLC sends to `HttpClient` |
| `Proxy` | The traffic entry points of the FFI, counters and averages, the DogStatsD client, a reader of the metrics |
| `Containment` | Death signal, Job Object and orphan monitor against deaths of host, threads and children |
| `LifecycleProofs` | Proofs about `Lifecycle`: types, one session, references, readiness, freedom from deadlock |
| `LifecycleRefines` | Proofs about `Lifecycle`: the refinement, and what becomes of the children |
| `RespawnProofs`, `ShutdownProofs`, `WorkerPoolProofs`, `HttpClientProofs`, `ProxyProofs`, `ContainmentProofs` | Proofs about those modules |

`Respawn` and `Shutdown` refine what `Lifecycle` keeps abstract: in `Lifecycle` a backoff window
is a flag that the environment ends (`BackoffElapses`) and a kill is a begin and an end
(`KillBegin`, `KillEnd`).  They are separate so that time and signals do not multiply the
interleavings of threads.  In the same way a request is one choice of outcome in `Proxy`, a queue entry in
`WorkerPool` and a sequence of reads in `HttpClient`, and `graceful_kill` is one step of `Containment`.

### Lifecycle and the code

A step is what one thread does between two points where another can interfere.

- *State.*  `cell`, `cellLock`, `poisoned` are `GLOBAL_MANAGER` and its mutex.  For each manager
  `shouldRun`, `startStop`, `child`, `backing` (a `next_attempt` in the future), `ready` and
  `readyLock` (held across steps only by a proxy) are the fields of `AgentManager`.  `pc`, `mgr`,
  `turn`, `held` are the host threads; `mon`, `monTurn`, `plan` the monitor thread of each manager
  with its locals.  `proc` is the system's process table with zombies and reuse of pids, `foreign`
  the endpoints served by others.  `seen` is history: it records, for `ReadySound`, whether a probe
  has connected since the last trace-agent was spawned.
- *initialize.*  `InitializeCall`, `StartBegin`, `StartTick`/`StartSpawn`/`StartSpawnFails`/
  `StartCommit` (once per child; the child's lock is held throughout), `StartMonitor` or
  `StartMonitorPanics` (`thread::spawn` panics; the guard on the cell is dropped while unwinding,
  the mutex is poisoned, and nothing but the FFI's `catch_unwind` notices).
- *stop.*  `StopCall`, `StopSwap`, `StopNotify`, `StopJoin`, `KillBegin`/`KillEnd` per child,
  `StopClear` (uptime), `StopReset`.
- *Proxies.*  `ProxyGet`, `ProxyEnter` (locks readiness, fast path), `ProxyLook` (locks
  `trace_child` with readiness locked), `ProxyProbe`.
- *Monitor.*  `MonTop`, `MonCheck` (phase 1), `MonRecheck` and `MonSpawn`/`MonSpawnFails`
  (phase 2, no lock held), `MonUnready` (inside `spawn_process`), `MonCommit` (phase 3), `MonRearm`,
  `MonWake`.  Leaving the loop drops its locals (`MonExit`), a spawned and uncommitted `Child` among
  them.
- *Environment.*  Children serve, stop serving and die at any time; other processes take and leave
  endpoints; backoff windows end; host threads exit, which on Linux signals the children they
  spawned (`PDeathSig`, `Mortal`).

Locks held only inside one step (both backoff mutexes, `monitor_thread`, the monitor's child
locks) have no variable; a step that needs a lock somebody else holds is not enabled.  Manager 0
stands for a cell that is unset or that holds the never-started manager `get_manager` creates.

*Session mapping.*  A manager is a session.  It is *unborn* until `start` sets `should_run`, then
*active* while `should_run` holds, *draining* while a `stop` has not joined its monitor, and
*closed* afterwards.  Its processes are those that were spawned for it and are not collected.

### Respawn and the code

One thread runs `start()` and then the loop; `Tick` lets a second pass between any two steps, also
while a spawn is under way.  An instant is the time left until it, so no bound on the clock is
needed.  `tick_process` reads the clock *before* it spawns and `commit_spawn_result` after, which
`Failure(n, t)` keeps apart.  `MonWake` may happen at any time (spurious wake-ups and `stop`),
`TimeUp` is the wake-up that must happen.  `owed` and `age` are history.

### Shutdown and the code

`Stages` lists the five signals in order.  `Send` fails when it reaches nobody (no group, because
`setsid` failed); `PollExited`, `PollFails` and `PollTimesOut` are the three outcomes of
`wait_with_timeout`.  A process may ignore SIGTERM (`deaf`), be in uninterruptible sleep (`stuck`),
be dead before the first signal, and the host may collect children itself (`hostReaps`).

### WorkerPool and the code

`Clients` are the threads inside `request_over_named_pipe`: `Call`, `GetPool` (`get_worker_pool`), `Submit`
(`submit_work`), then one of `Receive`, `TimeOut`, `Disconnected`.  `Refused` is the way out when the mutex
is poisoned or a `stop()` came between the two critical sections, `GetPoolPanics` the panic of
`thread::spawn` that poisons it, at any of the workers: those already spawned run on, their handles are
dropped, and they end by themselves (`WorkerEnds`) because their senders are gone too.  A request's value
stands for the work item *and* for its result channel: it is queued or worked on (`HeldBy`), and its result
is kept in `answered` for as long as its caller waits.  `worker_loop` is `WorkerTake`, `WorkerDone`,
`WorkerPanics` and `WorkerEnds`.  `shutdown_worker_pool` is `ShutdownBegin` and `ShutdownEnd`; between the
two, `pool` is *closed* and the mutex taken, which is the only time it is held across steps.  `next_idx` is
kept modulo the number of workers: it wraps at a power of two, of which the code's four is a divisor.

### HttpClient and the code

`phase` is where the call is in `request_over_uds` or `perform_request` and below them in `http.rs`:
*open*, *write*, *head*, then *length*, *eof*, or *line* / *data* / *crlf* / *trailer* of the chunked body;
*drain* is the `read_to_end` that follows a head read which failed (sockets only).  `wire` holds the bytes
that the decoder tells apart, `at` how many it has read, `buf` what the element under way has got, `rest`
what `RestThen` still holds of the read that ended the head.  Status line and headers are abstracted to
what is parsed out of them, so a reply carries its status and header list next to its bytes.  Every read
returns any number of
bytes up to the size of its buffer after any delay up to `MaxDelay`, or an end, a reset, or nothing until
its wait is over.  `UdsReads` waits the whole timeout in each read; `PipeReads` what is left of the
deadline, rounded up to the one tick (millisecond) that `duration_to_millis` makes of nothing.  `Expired`
is the deadline check, which the code makes before an operation and never during one.  Both transports put a
layer of default headers with a host of their own (*unix*, *pipe*) in front of that of `http.rs`
(*localhost*): `uds_build_request` and `pipe_build_request`.  A size line has to be UTF-8 (`from_utf8`), which
an extension may use in full; `Utf8Assumption` has TLC compare that definition with encoded code points.

What a reply *means* is defined apart from all this, by `MeaningOf`: it looks at the whole sequence of bytes
at once and says whether the message is whole, cut off, malformed or too large, and what its body is, chunk
by chunk with `ChunksOf`.  The properties hold the decoder, which sees the bytes in pieces, against it.  So
that `MeaningOf` is not taken on trust, `MCHttpClient` writes next to each reply by hand what it means, and
`LabelsAssumption` has TLC compare the two.  One place depends on the cuts in the code itself: a head that
fits, in a read that goes past the limit on heads, is refused (`HeadEdge`).

### Proxy and the code

Each counter is an atomic of its own and each access to it one step; `ProxyMeasured` and `average` are the
mutex around `ResponseTimeStats`.  `ProxyInvalid`, `ProxyBegin`, `ProxyAnswered`, `ProxyMeasured`,
`ProxyFailed`, `ProxyPanics`, `OnResponse`, `OnError` are `ProxyTraceAgent` in its order; `SendInvalid` to
`SendDone` are `SendDogStatsDMetric` and the two senders of `dogstatsd.rs`; `SnapshotBegin` and
`SnapshotRead` are `GetMetrics`, which reads the counters in the order of `ReadOrder`.  Averages are
integers: `(d + 9a) div 10` stands for `0.1 d + 0.9 a` in `f64`.  That keeps the order of the values up to
one rounding step, which integers do not have: an average in `f64` may leave the range of its samples by so
much.  Durations are positive because `as_secs_f64` has the resolution of a nanosecond, so that the code's
test for `0.0` does mean *no sample yet*.  `seen`, `settled`, `begun` are history; `settled` keeps the
answers that have a class apart from those that have none, so that the counters of the classes must add up
exactly.

The code's accesses to the counters are `Ordering::Relaxed`.  The model takes them in one order that all
threads agree on, that is, it assumes sequential consistency.  For one counter alone relaxed accesses promise
as much; for several they do not, and where hardware or compiler reorder them a snapshot may be torn further
than `SnapshotBound` says.

### Containment and the code

`proc` is the process table with reuse of pids, `by` the thread that spawned a child (the caller's in
`start`, the monitor's in a respawn), `tied` the children that carry the death signal (Linux) or are in the
job (Windows): `configure_unix_process` and `assign_child_to_job` may fail, and then the child runs untied.
`Start` is `initialize()` installing a new `AgentManager`, whose slots are empty and which has no job; the
old one is dropped with whatever it still had in its slots. `FirstTick`, `SetEnv`, `Fork` are `start()`;
`MonitorTick` a round of the monitor thread; `Join`, `StopJob`, `StopKill` are `stop()`; `Wake` and `Clean`
are `run_orphan_monitor`; `HostDies`, `CallerExits`, `Dies`, `Other` the rest of the world.  `env` are the
`LIBAGENT_MONITOR_*_PID` variables of the host, which `fork` copies.  `sent` keeps what the process under a
pid was sent, also when it is nobody's child (*other*), so that a signal that meets a stranger is seen.
After the death of the host its pid may be `held` by its zombie or by another process, for which the orphan
monitor takes its parent to be alive.

## 3. The runs

`None`, `Controllers`, ... are model values or small sets; the bounds are in the `.cfg` files.

| Run | Checks | Bounds and why they are enough |
|---|---|---|
| `LifecycleCore` | `TypeOK`, `OneActive`, `SoundReferences`, `ReadySound`, `NoDeadlock`, `NoSpawnAfterJoin`, `ImplementsSession` | 2 controllers, 1 proxy, 2 managers, 2 pids, the trace-agent only.  Two controllers make every pair of `initialize`/`stop` race; two managers let an old session and a new one overlap; two pids are enough for an old and a new child, and for reuse.  The agent's slot is handled like the other one and is covered by the next run |
| `LifecycleAgent` | `NoOrphans`, `KeptAlive`, `OneTraceAgent` | 1 controller, 2 managers, 3 pids, both children, both endpoints served by strangers, Linux death signals.  The controller outlives its sessions |
| `LifecycleLive` | `CallsReturn`, `Respawned` | 2 controllers of which one may exit, 1 proxy, 1 manager, 1 pid, `thread::spawn` may panic.  No symmetry.  No deadlock check: once the session is over nothing need be left to do |
| `Respawn` | `TypeOK`, `NoEarlyRetry`, `NoOversleep`, `Retried` | Waits 1, 2, 3, 3, ... and an interval of 2: the doubling meets a cap that is no power of two, and a sleep can end before, at and after a deadline |
| `Shutdown` | `Graceful`, `HonestReport`, `NoStraySignal`, `Returns` | A child with two descendants, every combination of deaf, stuck, dead.  No deadlock check: it ends |
| `WorkerPool` | `TypeOK`, `AnswerDue`, `NoStrayWorker`, `CallsReturn` | 2 clients, 2 workers, 3 requests, `thread::spawn` (at either worker) and `perform_request` may panic.  A client that times out leaves its request queued and makes another, so the third request comes round to a worker that has one already |
| `HttpClient` | `TypeOK`, `Verdict`, `BodyBound`, `RequestFramed`, `PipeDeadline`, `TwoTimeouts` | Buffers and limits of a few bytes, so that a head, a size line, a chunk and a body each meet theirs exactly and by one; 4 bytes per head read, so that an element ends inside a read, between reads and with the last byte; every reply also truncated at every byte and followed by a close, a reset or silence; a timeout of 2 ticks and delays of up to 1, so that the deadline falls between, before and in reads |
| `Proxy` | `TypeOK`, `Conserved`, `Reported`, `AverageInRange`, `SnapshotBound` | 2 callers, one with each callback, and a reader; 3 counted calls let one begin, one end and one be under way while a snapshot is taken; a status that is counted and one that is not; durations a factor apart that moves the average by more than rounding; both platforms |
| `Containment` | `TypeOK`, `StopLeavesNone`, `OwnChildren`, `Undisturbed`, `Cleaned` | 3 platforms, 2 sessions (one monitor process from each, variables that could leak, slots that a new manager does not have), 2 pids that are reused, by strangers too, a trace-agent that ignores SIGTERM.  No deadlock check: the host may be dead and everything done |

Every property of a passing run has a mutant in `PROJECT.json`, a plausible bug in one modelled
definition under which TLC finds that property violated.

Three runs end in a counterexample that shows the code against a sentence of its own documentation
(quoted in `PROJECT.json` under `findings`):

| Run | Property | What the code does |
|---|---|---|
| `LeakOnBreak` | `NoOrphans` | `stop()` between the two spawns of one round: the loop is left by `break`, the spawned agent is dropped and survives |
| `LostUptime` | `UptimeKept` | the last steps of one `stop()` erase the uptime of the session opened meanwhile |
| `StrayMonitor` | `NoStranger` | an orphan monitor signals the pids it was forked with, whoever has them when the host dies |

Two more sentences fail for an interleaving.  The properties around them are checked where they hold, and no
run of their own is kept for the failure:

- `ARCHITECTURE.md:199` says that smart spawning prevents multiple instances from competing.  `OneTraceAgent`
  holds when one thread opens and closes all sessions (`LifecycleAgent`).  With the two controllers of
  `LifecycleCore` TLC finds it violated in thirteen states: one thread is in `stop()` and has cleared
  `should_run`, its trace-agent is up and has not opened its endpoint; the other one's `initialize()` sees the
  flag clear, finds nobody on the endpoint and spawns its own before the first is killed (`src/manager.rs`
  488).
- `monitor.rs:550` says that `stop()` can wake the loop immediately.  It notifies without the mutex of
  the condition variable (`src/manager.rs` 460), so the notification can fall between the monitor's look at
  `should_run` and its wait; the join then lasts one more interval.  `MonTop`, `MonRearm` and `StopNotify` have
  this order, and `CallsReturn` holds in spite of it because the wait has a timeout.

Other sentences the code does not keep.  They need no interleaving, so reading the two lines settles them
and no run is spent on them:

- An exit starts no backoff (`src/monitor.rs` 174), and a successful spawn resets it: a child that crashes
  at once comes back every round.  `ARCHITECTURE.md:34` says an exit schedules a respawn with backoff.
- The group's SIGKILL is skipped when the leader exits on SIGTERM (`src/shutdown.rs` 150); a descendant
  that ignores SIGTERM stays.  `ARCHITECTURE.md:164-165` says all descendants are terminated.
- The Linux death signal follows the spawning *thread* (`src/process.rs` 117): children die with the thread
  that called `initialize`.  `process.rs:113` and `ARCHITECTURE.md:177` speak of the parent.
  `Undisturbed` names it as the one exception.
- A silent trace-agent holds a caller for two timeouts over a socket, and one that trickles for longer
  (`src/uds.rs` 52); `README.md:155`, `README.md:307` and `ARCHITECTURE.md:214` say 50 seconds.
  `TwoTimeouts` is the bound that does hold.
- A send to the DogStatsD pipe has no timeout (`src/dogstatsd.rs` 106, `_timeout` is unused);
  `ARCHITECTURE.md:229` says 5 seconds.
- The release profile aborts on panic (`Cargo.toml:38`), so `catch_unwind` never returns there;
  `README.md:221` and `ARCHITECTURE.md:197` say panics are caught.  The unwinding steps of the models
  (`StartMonitorPanics`, `GetPoolPanics`, `WorkerPanics`, `ProxyPanics`) describe builds that unwind, the
  debug profile and hosts that set their own.

`NoOrphans` appears twice.  With `PDeathSig` (Linux) it holds: the dropped child was spawned by the monitor
thread, whose exit signals it.  Without (other Unix systems, or when `prctl` failed) it does not.
`KeptAlive` likewise: it holds as long as the thread that calls `initialize` lives.  `OwnChildren` says what is left of the ownership of processes although
`NoStranger` fails: a stranger is signalled only under a pid that an orphan monitor was given, and only once
the host is dead.

### Fairness

- *Lifecycle.*  Strong fairness of each thread's steps (`StartStep`, `StopStep`, `ProxyStep`,
  `MonStep`).  The scheduler runs every thread, and one that waits for a mutex released again and
  again gets it in the end; Rust's mutexes do not queue, so this is an assumption, the usual one.
  Nothing is assumed of callers between calls: `InitializeCall`, `StopCall`, `ProxyGet` are not fair.
  `MonWake` is among the monitor's steps, because `wait_timeout` always ends.  The children, the
  clock and the rest of the host are not fair.  `KillEnd` is fair because `graceful_kill` returns
  (`Returns` in `Shutdown`).
- *Respawn.*  Weak fairness of the thread, of time and of a sleep whose time is up.
- *Shutdown.*  Weak fairness of `graceful_kill` and of the kernel's delivery to a process that is
  not stuck.  Nobody has to leave uninterruptible sleep.
- *WorkerPool.*  Strong fairness of a client inside a call (it may wait for a mutex that each `stop()`
  takes again), weak fairness of each worker, whose `perform_request` ends by its own deadline, and of
  the end of the join.  Neither calls nor `stop()` are fair.  `PipeDeadline` of `HttpClient` is what makes
  the worker's fairness true.
- *Containment*.  Weak fairness of each orphan monitor, a process that polls, and of the death of a process
  that was sent SIGKILL, or SIGTERM and does not ignore it.  Neither the host nor anybody else has to die.
- *HttpClient, Proxy*.  None: their properties are safety.  How long a call takes is counted in ticks.

Two abstractions to know.  In `Lifecycle`, `KillEnd` collects the child in every case: a child
that survives five timeouts is treated in `Shutdown` only.  A `try_wait` that fails is treated
like an exit, as the code does.

## 4. The proofs

Assumptions are those named in the modules: `MaxManagers` is a natural number, the switches are Booleans,
controllers, proxies and monitors are different threads, `None` and the words of `plan` are no pids; `1 <=
BackoffInitial <= BackoffMax`, `Interval > 0`, `None` is no instant; the leader is not one of its descendants;
there is at least one worker and `None` is no request; timeout, nap and buffers are positive and a delay is
shorter than a timeout (a longer one is silence); a read of the head (1 KiB) is no longer than a body may be
(100 MB), replies are sequences of bytes and header values numbers; methods are those that are counted,
durations are positive, statuses are 16-bit, and the callers of the proxy are finitely many.  All other sets
may have any size, and all sequences any length.

| Theorem | Module | Says |
|---|---|---|
| `TypeCorrect` | `LifecycleProofs` | `Spec => []TypeOK` |
| `OneActiveAlways` | `LifecycleProofs` | `Spec => []OneActive` |
| `NoSpawnAfterJoinAlways` | `LifecycleProofs` | `Spec => NoSpawnAfterJoin` |
| `SoundReferencesAlways` | `LifecycleProofs` | `Spec => []SoundReferences` |
| `ReadySoundAlways` | `LifecycleProofs` | `Spec => []ReadySound` |
| `NoDeadlockAlways` | `LifecycleProofs` | `Spec => []NoDeadlock` |
| `Refinement` | `LifecycleRefines` | `Spec => ImplementsSession` |
| `NoOrphansAlways` | `LifecycleRefines` | `PDeathSig` implies `Spec => []NoOrphans` |
| `KeptAliveAlways` | `LifecycleRefines` | `Mortal = {}` implies `Spec => []KeptAlive` |
| `OneTraceAgentAlways` | `LifecycleRefines` | one controller implies `Spec => []OneTraceAgent` |
| `RespawnTypes`, `NoEarlyRetryAlways`, `NoOversleepAlways` | `RespawnProofs` | the invariants of `Respawn` |
| `ShutdownTypes`, `GracefulAlways`, `NoStraySignalAlways`, `HonestReportAlways` | `ShutdownProofs` | all the safety of `graceful_kill`, and its types, which are proved and not checked by a run |
| `PoolTypes`, `AnswerDueAlways`, `NoStrayWorkerAlways` | `WorkerPoolProofs` | the safety of the worker pool |
| `PipeDeadlineAlways`, `TwoTimeoutsAlways` | `HttpClientProofs` | what a peer can cost a caller, for every reply, limit, buffer and timeout |
| `VerdictAlways`, `BodyBoundAlways` | `HttpClientProofs` | the decoder accepts, decodes and refuses as the reply deserves, for every reply and every way to cut it into reads |
| `RequestFramedAlways`, `HttpTypes` | `HttpClientProofs` | the headers of a request, for every list of the caller; the types |
| `ReportedAlways`, `AverageInRangeAlways` | `ProxyProofs` | what a call reports, and the averages, for any number of threads |
| `ConservedAlways`, `SnapshotBoundAlways`, `ProxyTypes` | `ProxyProofs` | the books of the counters, and how far a snapshot may be torn, for any number of threads |
| `ContainmentTypes`, `StopLeavesNoneAlways`, `OwnChildrenAlways`, `UndisturbedAlways` | `ContainmentProofs` | all the safety of the three platform mechanisms, for any number of pids and sessions |

**Lifecycle.**  `TypeOK` is not inductive alone: a step writes at index `mgr[c]`, so a thread inside
a call must hold a real manager (`MgrOK`).  `OneActive` needs four facts more.  `CellInv`: the
cell's mutex is held by exactly the thread inside `initialize`, and its manager is the cell's.
`LockInv`: `start_stop_lock` is held by exactly the thread inside `start` or `stop` of that manager.
`RunInv`: `start` enters with `should_run` clear and runs with it set.  `MonInv`: a monitor thread
lives only while its session runs or a `stop` is about to join it.  Then the only step that sets
`should_run` is taken by the holder of the cell's mutex, after it has seen the old manager's flag
clear; and every spawn is taken either by `start` (`RunInv`) or by the monitor (`MonInv`), which is
`NoSpawnAfterJoin`.

**Refinement.**  On top of `IInv`: no controller holds a manager beyond the cell (`BoundInv`), one inside
`stop` has cleared `should_run` (`StopInv`), and a manager whose `start` has not begun is known to its creator
only (`FreshInv`).  `StartBegin` is `Open`, `StopSwap` is `Drain`, `StopJoin` (or `StopNotify`, when no
monitor was ever started) is `Close`, the two spawns are `Spawn`; the two places that collect a child are
`Reap`; all else stutters.

**References.**  `RefInv`, inductive on top of the types: what a slot or the monitor's locals refer to is
a process of their own manager and name, never both at once (`SlotRef`, `PlanRef`), and what `start` or
`stop` holds in its hands is in no slot, no local and no other hands (`HeldRef`).  Every collection of a
process goes through its one reference, so none is left dangling; that is `SoundReferences`.

**Readiness.**  `RdyInv`: a proxy between lock and probe holds `trace_agent_ready` (`ProxyLocks`); no monitor
runs while `start` does (`StartOff`, `MonitorOff`); a spawned trace-agent not yet committed has an empty slot
in front of it, and past `MonUnready` readiness is withdrawn and nobody probes (`Planned`).  So a slot is
filled only when `ready` is false, and set afterwards only by a probe that connected (`Sound`).

**Nobody stuck.**  A proxy caller locks `trace_agent_ready` and then `trace_child`; `start` locks `trace_child`
and then `trace_agent_ready`; `stop` joins a monitor that wants both. `WaitsFor` is the relation between
threads that comes of it, and `NoDeadlock` says that it has no circle and leads to no thread that is gone.
TLC's own deadlock check would not see it: the children and the clock go on. The mutex of the cell makes the
orders compatible. It is held throughout `start`, whose manager is newer than all that others have got
(`MgrBound`), so nobody else is at work on it (`StartAlone`) and `start` waits for nobody at all;
`trace_agent_ready` is held by none but a proxy caller that looks or probes (`ReadyHeld`), and a monitor that
is joined was started (`JoinOn`). All other waits go down in `Rank`: an idle caller waits for `start`, the
head of `stop` for a `start` or another `stop`, a join for the monitor, the monitor and the end of `stop` for
a proxy caller, that one for a `start` or `stop` that spawns or kills. Under a `LockCell` that lets go early
TLC finds the circle, a `start` that commits and a proxy caller that looks.

**Nobody left behind.**  `SlotsInv` says which slots are empty: those of a session that is closed or unborn
(`ClosedInv`), because `stop` empties them one after the other (`KillInv`, `TurnInv`) and nobody fills them
once the monitor is joined (`FillsOpen`), and those that a commit is about to fill, so that it overwrites
nobody (`EmptyInv`); `PlanAt` and `OnlyTrace` say where in its round the monitor may have a spawned agent in
its locals.  `OrphanInv` adds that a process that lives and was not told is in a slot, in those locals, or in
the hands of a `start` that commits it (`Tracked`), and that an agent in the locals dies with the monitor's
thread (`Tied`).  The last is where `PDeathSig` is needed: `LeakOnBreak` shows that without it the agent
dropped by `break` survives.

**Nobody told too soon.**  `KeptInv`: a session whose `start` has not begun has no process (`UnbornInv`), so
a process told to terminate never sees its session run again; a death signal tied to a monitor is for a
child of its own session (`TiedOwn`), and the monitor exits only when `stop` has cleared `should_run`.
`Mortal = {}` is needed, because children that `start` spawned die with the thread that called it.

**One trace-agent.**  A trace-agent is never dropped by `break`, because it is the last of its round: it goes
from the locals to its slot and from there into the hands of the `stop` that collects it (`AllKnown`).  With
one controller all of these belong to the manager in the cell (`AtCell`), and only one of them is occupied
(`OnePlace`, from `SlotsInv`, `StartOff` and `MonInv`).  With two controllers it fails, as section 3 says.

**Respawn.**  `LadderInv` ties the code's backoff to the wait the history demands next,
`DeadlineInv` says the age of the last failure plus the time left cover what is owed, `FreshInv` that
a filled slot owes nothing, and `PlanInv` restricts the loop's locals to their phases.  With them
`NoEarlyRetry` and `NoOversleep` are inductive.

**Shutdown.**  `TermInv` says who has had SIGTERM at which stage: in a group everybody after stage
1, without one the leader after stage 3; `OwnedInv` that the leader is not collected while the call
runs; `ReportInv` that a child that is still up at the last stage has had its SIGKILL, by the group's
signal or by its own.

**WorkerPool.**  `WorkInv`: a worker holds a request exactly while it is busy, and one that has ended has
nothing queued.  `PoolInv`: while the pool is open every worker runs or has panicked, without a pool none
runs but those that a failed `thread::spawn` left behind; these are idle, their channels are empty, and the
mutex is poisoned, so that no new pool takes their place (`PanicsKeeps`).  `CallInv`: no two callers have
the same request, so a call that ends does not take another's answer out of the books.  `AnswerDue` needs
all three: `Submit` needs `PoolInv` (the worker it queues at is not off), `WorkerEnds` needs that its
channel is drained, every return needs `CallInv`.

**HttpClient.**  `ClockInv`: over a pipe, every step that waits was allowed no more than what is left of
the deadline, so the clock stands at one tick beyond it at most, and only in front of a check.  `CountInv`:
the number of vain waits is bounded by an `Allowance` of the phase, one as soon as the head has failed, none
before, and each failing wait moves on to a phase that allows it: the drain and the trailers are the only
phases a call reaches after a wait in vain, and from them there is no third.

`DecodeInv` is the invariant of the decoder.  `Decoded` and `Blamed` speak of calls that have ended; in the
middle of a call they say nothing, so they are far from inductive.  What holds in every state is `Reached`:
there is a position `p` that separates the bytes which have been consumed from the others, `rest` holds
those between `p` and `at` (`Buffered`), and the phase says what the consumed ones were (`Stands`): in a
size line, all of it that has come is in `buf`, it keeps within its limit and has not ended; in the data of a
chunk, `buf` has come and `need` bytes are missing; and so on.  In each of them the meaning of the *whole*
reply is the body so far, followed by what `MeaningOf` makes of the bytes from the beginning of the present
element on (`Extends`, `Onward`).  Each read moves `p` (`ReadTakes`), and for every element there is a lemma
for a read that does not complete it, one for a read that does, and one for the end of the stream
(`LineGoesOn`, `LineFound`, `LineEndsThere`, `LineCut`, ...).  When the call ends, the meaning is read off the
place: `whole` with the body that was built up, or the kind of error that is returned.  `BodyBound` comes out
of the same invariant, because `InData`, `InLength` and `InEof` carry the room that is left; without it a read
could not be shown to keep the bound.  `TypeOK` needs both, for the bounds of `at`, `need` and `rest`.

`RequestInv` carries `Framing` of the request against the caller's list.  `FramingStep` is one default that is
added or found; two layers of three defaults are six such steps, of which the later three find what the
earlier ones have added (`RequestsFramed`); so the host that is sent is the transport's.

**Data that recurs.**  The library's induction theorems take an operator for a parameter and cannot be cited
here.  What they would give is proved by least counterexamples: of a set of natural numbers that is not empty
there is a least one (`LeastOf`, from the well-foundedness of `<`), and of a set of finite sets a smallest one
(`LeastSubset`, from that of the strict subset order).  So `MeaningOf`'s recursion over positions has a
function (`RecursionExists`: take the least rank up to which there is none, and extend the one below it), the
chunks from one position on are the first of them and those behind it (`ChunksFrom`), a size line denotes a
natural number (`ChunkSizeNat`), and a sum over a set of counters can be split (`TotalSplit`).

**Proxy.**  `CallsInv` ties the place of a thread to its code, its callbacks and the pieces it has handed
over; every counter step leaves it alone.  `AverageInv` says an average is positive as soon as it has a
sample and the overall one has a sample as soon as `samples` counts one, so the code's two different
tests for *first sample* agree; then `Moved` stays between old value and new sample.

`CountInv` is about the counters.  `Balance` is `Conserved`: the requests that are counted are those that are
answered, failed, given up by a panic or still on their way, the latter being the threads at the places
between two counter steps.  It is kept step by step because one thread moves between two places and one
counter moves with it (`Moves`, `WithinMoves`).  `SnapshotInv` is what holds of a reader in the middle of its
list: no counter has sunk below what it has taken, and those that it has taken have grown since, together, by
no more than the requests that began meanwhile (`Got`); `OrderComplete` says that at the end of the list it
has taken all of them.  The rest is arithmetic of sums over sets of counters: `TotalSplit`, `TotalMonotone`
and `TotalSame` say how a sum is composed, grows and stays.

**Containment.**  A child that is up is in its slot, was killed with the job or was never in it (`HeldInv`),
and `stop` empties the slots, so `StopLeavesNone` is kept along with it.  Only children carry the death signal
or are in the job (`TiedInv`), so what reaches a stranger comes from an orphan monitor that is awake, and that
signals what it was given (`TodoInv`, `StrangersInv`).  The environment is clear outside the fork
(`EnvInv`) and set from the slots that the two first ticks filled (`FirstInv`), and no session to come has a
monitor (`LaterInv`); so each monitor has its own children.  Each watches the host and not `init`
(`WatchInv`), so none stirs while the host is up, and the signals that are left are those of `SignalsKept`.

**Only model-checked.**  All liveness (`CallsReturn` of both modules, `Respawned`, `Retried`, `Returns`,
`Cleaned`) is beyond this prover, and with it whatever rests on fairness.  Every safety property of a passing
run is proved: each invariant, the action property `NoSpawnAfterJoin`, and the refinement.  The bounded
instances that TLC runs remain the check that the assumptions of the proofs can be met, and that each
property fails under its mutant.

## 5. What is not modelled

- *Windows*: overlapped I/O below the outcome of a read or write.  A cancelled operation may still
  complete after its buffers are gone (`src/winpipe.rs` 675), and an event handle leaks with each failed
  wait (606): undefined behaviour and handles have no place in `HttpClient`.  `Lifecycle` is the Unix
  build; on Windows `stop()` runs `shutdown_worker_pool` first, and so waits for the queued requests
  before it clears `should_run`.
- *Below a read*: `EINTR`, which std retries for `write_all` and `read_to_end` only; a `connect` that blocks
  on a full backlog; the unbounded growth of the buffer of the drain.
- *A caller's own `Content-Length`* that contradicts its body: sent as it is (`RequestFramed` says so), and
  what the peer makes of it is the peer's.
- *`fork` of a process with several threads*: the orphan monitor is forked while other threads may hold the
  allocator's lock; the model's child just runs.
- *Relaxed memory*: the counters of `Proxy` are read and written in one order (section 2).
- *Stale readiness of a dead child.*  `trace_agent_ready` stays TRUE between a crash and the respawn;
  `ReadySound` speaks of what a probe has seen, not of the child being alive.
- *A poisoned cell.*  After `StartMonitorPanics` every call panics at the cell; the model stops such
  callers at their guard.  What remains of the children is not stated by any document.
- Logging, formatting, environment parsing, command lines: no property depends on them.

## 6. Plan

Done: `Session` and `Lifecycle` with its refinement; `Respawn`, `Shutdown`, `WorkerPool`; then `HttpClient`
(with the meaning of a reply as the reference of its decoder), `Proxy` and `Containment`; and the proofs of
section 4, which by now cover every safety property.  What is left, in the order of what it would add:

1. `src/config.rs`: how a value of the environment becomes a bound of the monitor.  Pure, and covered by
   unit tests; it would add definitions, but little that is hard to test.
2. The overlapped I/O of `src/winpipe.rs` below the outcome of a wait: handles that leak and a buffer that a
   cancelled operation may still write.  It would need a model of the kernel's side.
