----------------------------- MODULE Lifecycle -----------------------------
(***************************************************************************)
(* The lifecycle core of libagent: the global manager, start and stop of a *)
(* session, the monitor thread that respawns dead children, and the proxy  *)
(* callers that wait for the trace-agent (src/src/manager.rs,              *)
(* src/src/monitor.rs, with spawn_process and graceful_kill as steps).     *)
(*                                                                         *)
(* One action is one step of one thread between two points where another   *)
(* thread can interfere: a lock taken, an atomic read or written, a spawn, *)
(* a join.  A lock that is only ever held inside one such step (the two    *)
(* backoff mutexes, monitor_thread, the child locks of the monitor) has no *)
(* variable.  Managers are numbered in the order initialize() creates them;*)
(* 0 is the cell before the first one (an unset OnceLock, or the manager   *)
(* get_or_init puts there, which is never started: both act alike).        *)
(***************************************************************************)
EXTENDS Naturals, FiniteSets

CONSTANTS
  Controllers,   \* host threads that call initialize() and stop()
  Mortal,        \* the controllers that may exit while the host lives on
  Proxies,       \* host threads inside ensure_trace_agent_ready()
  Pids,          \* process identifiers, reused once a process is reaped
  MaxManagers,   \* bound: how many managers initialize() may create
  Foreign,       \* endpoints some process outside libagent may serve
  AgentEnabled,  \* is_agent_enabled(): the agent is managed too
  DebugBuild,    \* cfg!(debug_assertions): readiness timeouts are forgiven
  PDeathSig,     \* Linux: a child gets SIGTERM when its spawning THREAD exits
  ThreadMayFail, \* thread::spawn panics when the OS refuses a thread
  None           \* no process, no lock holder

Managers == 1..MaxManagers
Callers == Controllers \cup Proxies
Names == {"agent", "trace"}

ASSUME BoundsAssumption == MaxManagers \in Nat
ASSUME SwitchAssumption ==
  {AgentEnabled, DebugBuild, PDeathSig, ThreadMayFail} \subseteq BOOLEAN
ASSUME ThreadAssumption == /\ Mortal \subseteq Controllers
                           /\ Controllers \cap Proxies = {}
                           /\ Managers \cap (Callers \cup {None}) = {}
                           /\ Foreign \subseteq Names
ASSUME NoneAssumption == /\ None \notin Callers /\ None \notin Pids
                         /\ Pids \cap {"no", "want", "err"} = {}

VARIABLES
  cell,       \* GLOBAL_MANAGER: the manager it holds
  cellLock,   \* the controller inside initialize() that holds its mutex
  poisoned,   \* that mutex is poisoned
  uptime,     \* metrics: an initialization instant is recorded
  shouldRun,  \* should_run of each manager
  startStop,  \* holder of start_stop_lock
  child,      \* agent_child and trace_child
  backing,    \* names whose next_attempt lies in the future
  readyLock,  \* the proxy that waits with trace_agent_ready locked
  ready,      \* trace_agent_ready
  pc,         \* where each host thread is
  mgr,        \* the manager (Arc) it works on
  turn,       \* which of the two children start or stop is at
  held,       \* the Child it holds outside a slot
  mon,        \* where the monitor thread of each manager is
  monTurn,    \* which child the monitor is at
  plan,       \* what the monitor's locals say: no, want, err or a spawned pid
  proc,       \* the operating system's processes: name, manager, the thread whose
              \* exit signals it (Linux), told to terminate
  foreign,    \* endpoints now served from outside
  seen        \* history: a probe connected since the last trace-agent spawn

globals == <<cell, cellLock, poisoned, uptime>>
managers == <<shouldRun, startStop, child, backing, readyLock, ready>>
threads == <<pc, mgr, turn, held>>
monitors == <<mon, monTurn, plan>>
system == <<proc, foreign>>
vars == <<globals, managers, threads, monitors, system, seen>>

NoProc == [st |-> "free", name |-> "trace", by |-> 0, thr |-> None, sig |-> FALSE]
First == IF AgentEnabled THEN "agent" ELSE "trace"
NoPlan == [n \in Names |-> "no"]

Init ==
  /\ cell = 0 /\ cellLock = None /\ poisoned = FALSE /\ uptime = FALSE
  /\ shouldRun = [m \in Managers |-> FALSE]
  /\ startStop = [m \in Managers |-> None]
  /\ child = [m \in Managers |-> [n \in Names |-> None]]
  /\ backing = [m \in Managers |-> {}]
  /\ readyLock = [m \in Managers |-> None]
  /\ ready = [m \in Managers |-> FALSE]
  /\ pc = [t \in Callers |-> "idle"]
  /\ mgr = [t \in Callers |-> 0]
  /\ turn = [c \in Controllers |-> First]
  /\ held = [c \in Controllers |-> None]
  /\ mon = [m \in Managers |-> "off"]
  /\ monTurn = [m \in Managers |-> First]
  /\ plan = [m \in Managers |-> NoPlan]
  /\ proc = [p \in Pids |-> NoProc]
  /\ foreign = {}
  /\ seen = [m \in Managers |-> FALSE]

(***************************************************************************)
(* Processes and endpoints                                                 *)
(***************************************************************************)
Alive(p) == proc[p].st \in {"silent", "serving"}

\* is_socket_in_use / is_remote_config_available: somebody answers there.
InUse(n) == \/ n \in foreign
            \/ \E p \in Pids : proc[p].st = "serving" /\ proc[p].name = n

\* try_wait found the child of this slot dead (the Err arm is treated alike).
Exited(m, n) == child[m][n] # None /\ ~Alive(child[m][n])

\* First half of should_attempt_spawn and of tick_process: collect a dead child.
ReapSlot(m, n) ==
  /\ child' = IF Exited(m, n) THEN [child EXCEPT ![m][n] = None] ELSE child
  /\ proc' = IF Exited(m, n) THEN [proc EXCEPT ![child[m][n]] = NoProc] ELSE proc

\* Second half: nothing runs, the backoff window is over, the endpoint is free.
ShouldAttempt(m, n) == /\ child[m][n] = None \/ Exited(m, n)
                       /\ n \notin backing[m]
                       /\ ~InUse(n)

\* process::spawn_process succeeds: thread t spawns child n of manager m as p.
Launch(t, m, n, p) ==
  /\ proc[p].st = "free"
  /\ proc' = [proc EXCEPT ![p] = [st |-> "silent", name |-> n, by |-> m,
                                  thr |-> IF PDeathSig THEN t ELSE None,
                                  sig |-> FALSE]]
  /\ seen' = IF n = "trace" THEN [seen EXCEPT ![m] = FALSE] ELSE seen

\* PR_SET_PDEATHSIG: the kernel signals the children tied to a thread that exits.
AfterDeathOf(t) ==
  [p \in Pids |-> IF Alive(p) /\ proc[p].thr = t
                  THEN [proc[p] EXCEPT !.sig = TRUE] ELSE proc[p]]

\* Thread c holds the child lock of slot n of m across steps: a controller that spawns
\* or kills the child.
HoldsChild(c, m, n) == /\ c \in Controllers /\ mgr[c] = m /\ turn[c] = n
                       /\ pc[c] \in {"spawn", "commit", "killing"}
ChildLocked(m, n) == \E c \in Controllers : HoldsChild(c, m, n)

\* commit_spawn_result and tick_process: the new child goes into its slot.
FillSlot_Forgets(m, n, p) == UNCHANGED child
FillSlot(m, n, p) == child' = [child EXCEPT ![m][n] = p]

\* Option::take in graceful_kill.
TakeSlot_Peeks(m, n) == UNCHANGED child
TakeSlot(m, n) == child' = [child EXCEPT ![m][n] = None]

ResetReadiness_Skipped(m) == UNCHANGED ready
ResetReadiness(m) == ready' = [ready EXCEPT ![m] = FALSE]

UnlockReady(m) == readyLock' = [readyLock EXCEPT ![m] = None]

Goto(t, l) == pc' = [pc EXCEPT ![t] = l]
Return(t) == Goto(t, "idle") /\ mgr' = [mgr EXCEPT ![t] = 0]

\* The agent comes before the trace-agent: repeat at `again`, or go on at `next`.
Advance(c, again, next) ==
  /\ Goto(c, IF turn[c] = "agent" THEN again ELSE next)
  /\ turn' = [turn EXCEPT ![c] = IF @ = "agent" THEN "trace" ELSE First]

(***************************************************************************)
(* initialize() and AgentManager::start: the cell's mutex is held from the *)
(* check of should_run until start has returned.                           *)
(***************************************************************************)
\* initialize() returns at once while the manager in the cell runs.
Running_Unchecked == FALSE
Running == cell # 0 /\ shouldRun[cell]

\* The guard on the cell lives until start() has returned.
LockCell_Briefly(c) == cellLock' = None
LockCell(c) == cellLock' = c

InitializeCall(c) ==
  /\ pc[c] = "idle" /\ cellLock = None /\ ~poisoned /\ ~Running
  /\ cell < MaxManagers
  /\ cell' = cell + 1 /\ LockCell(c)
  /\ mgr' = [mgr EXCEPT ![c] = cell + 1] /\ Goto(c, "start")
  /\ UNCHANGED <<poisoned, uptime, managers, turn, held, monitors, system, seen>>

StartBegin(c) ==
  LET m == mgr[c] IN
  /\ pc[c] = "start" /\ startStop[m] = None /\ readyLock[m] = None
  /\ startStop' = [startStop EXCEPT ![m] = c]
  /\ shouldRun' = [shouldRun EXCEPT ![m] = TRUE]
  /\ uptime' = TRUE
  /\ backing' = [backing EXCEPT ![m] = {}]
  /\ ResetReadiness(m)
  /\ Goto(c, "tick")
  /\ UNCHANGED <<cell, cellLock, poisoned, child, readyLock, mgr, turn, held,
                 monitors, system, seen>>

\* monitor::tick_process up to its spawn_fn call; the child lock stays held.
StartTick(c) ==
  LET m == mgr[c]  n == turn[c] IN
  /\ pc[c] = "tick" /\ ~ChildLocked(m, n)
  /\ ReapSlot(m, n)
  /\ IF ShouldAttempt(m, n) THEN Goto(c, "spawn") /\ UNCHANGED turn
     ELSE Advance(c, "tick", "launch")
  /\ UNCHANGED <<globals, shouldRun, startStop, backing, readyLock, ready, mgr,
                 held, monitors, foreign, seen>>

StartSpawn(c) ==
  /\ pc[c] = "spawn"
  /\ \E p \in Pids : Launch(c, mgr[c], turn[c], p) /\ held' = [held EXCEPT ![c] = p]
  /\ Goto(c, "commit")
  /\ UNCHANGED <<globals, managers, mgr, turn, monitors, foreign>>

StartSpawnFails(c) ==
  /\ pc[c] = "spawn"
  /\ backing' = [backing EXCEPT ![mgr[c]] = @ \cup {turn[c]}]
  /\ Advance(c, "tick", "launch")
  /\ UNCHANGED <<globals, shouldRun, startStop, child, readyLock, ready, mgr, held,
                 monitors, system, seen>>

\* AgentManager::spawn_process resets readiness, tick_process fills the slot and
\* resets readiness again, all with the slot's lock held.
StartCommit(c) ==
  LET m == mgr[c]  n == turn[c] IN
  /\ pc[c] = "commit"
  /\ n = "trace" => readyLock[m] = None
  /\ IF n = "trace" THEN ResetReadiness(m) ELSE UNCHANGED ready
  /\ FillSlot(m, n, held[c])
  /\ backing' = [backing EXCEPT ![m] = @ \ {n}]
  /\ held' = [held EXCEPT ![c] = None]
  /\ Advance(c, "tick", "launch")
  /\ UNCHANGED <<globals, shouldRun, startStop, readyLock, mgr, monitors, system, seen>>

\* start_monitor_thread, then start and initialize return and drop their guards.
StartMonitor(c) ==
  LET m == mgr[c] IN
  /\ pc[c] = "launch"
  /\ mon' = [mon EXCEPT ![m] = IF @ = "off" THEN "top" ELSE @]
  /\ startStop' = [startStop EXCEPT ![m] = None]
  /\ cellLock' = None
  /\ Return(c)
  /\ UNCHANGED <<cell, poisoned, uptime, shouldRun, child, backing, readyLock, ready,
                 turn, held, monTurn, plan, system, seen>>

\* thread::spawn panics under the cell's guard; Initialize() catches the panic.
StartMonitorPanics(c) ==
  /\ pc[c] = "launch" /\ ThreadMayFail
  /\ startStop' = [startStop EXCEPT ![mgr[c]] = None]
  /\ cellLock' = None /\ poisoned' = TRUE
  /\ Return(c)
  /\ UNCHANGED <<cell, uptime, shouldRun, child, backing, readyLock, ready, turn, held,
                 monitors, system, seen>>

(***************************************************************************)
(* stop(): the Arc is cloned under the cell's mutex, which is released     *)
(* before AgentManager::stop runs.                                         *)
(***************************************************************************)
StopCall(c) ==
  /\ pc[c] = "idle" /\ cellLock = None /\ ~poisoned /\ cell # 0
  /\ mgr' = [mgr EXCEPT ![c] = cell] /\ Goto(c, "stop")
  /\ UNCHANGED <<globals, managers, turn, held, monitors, system, seen>>

ClearShouldRun_Skipped(m) == UNCHANGED shouldRun
ClearShouldRun(m) == shouldRun' = [shouldRun EXCEPT ![m] = FALSE]

StopSwap(c) ==
  LET m == mgr[c] IN
  /\ pc[c] = "stop" /\ startStop[m] = None
  /\ ClearShouldRun(m)
  /\ IF shouldRun[m]
     THEN /\ startStop' = [startStop EXCEPT ![m] = c]
          /\ Goto(c, "notify") /\ UNCHANGED mgr
     ELSE Return(c) /\ UNCHANGED startStop
  /\ UNCHANGED <<globals, child, backing, readyLock, ready, turn, held, monitors,
                 system, seen>>

\* notify_all() without monitor_cv_lock: only a monitor already waiting hears it.
StopNotify(c) ==
  LET m == mgr[c] IN
  /\ pc[c] = "notify"
  /\ mon' = [mon EXCEPT ![m] = IF @ = "wait" THEN "top" ELSE @]
  /\ Goto(c, IF mon[m] = "off" THEN "kill" ELSE "join")
  /\ UNCHANGED <<globals, managers, mgr, turn, held, monTurn, plan, system, seen>>

\* join() returns when the monitor thread has ended.
Joined_Detached(m) == TRUE
Joined(m) == mon[m] = "done"

StopJoin(c) ==
  /\ pc[c] = "join" /\ Joined(mgr[c])
  /\ Goto(c, "kill")
  /\ UNCHANGED <<globals, managers, mgr, turn, held, monitors, system, seen>>

\* graceful_kill takes the child out of its slot and signals it ...
KillBegin(c) ==
  LET m == mgr[c]  n == turn[c]  p == child[m][n] IN
  /\ pc[c] = "kill" /\ ~ChildLocked(m, n)
  /\ IF p = None
     THEN Advance(c, "kill", "clear") /\ UNCHANGED <<child, held, proc>>
     ELSE /\ TakeSlot(m, n)
          /\ held' = [held EXCEPT ![c] = p]
          /\ proc' = IF Alive(p) THEN [proc EXCEPT ![p].sig = TRUE] ELSE proc
          /\ Goto(c, "killing") /\ UNCHANGED turn
  /\ UNCHANGED <<globals, shouldRun, startStop, backing, readyLock, ready, mgr,
                 monitors, foreign, seen>>

\* ... and returns once try_wait has collected it, SIGKILLed at the latest.
KillEnd(c) ==
  /\ pc[c] = "killing"
  /\ proc' = [proc EXCEPT ![held[c]] = NoProc]
  /\ held' = [held EXCEPT ![c] = None]
  /\ Advance(c, "kill", "clear")
  /\ UNCHANGED <<globals, managers, mgr, monitors, foreign, seen>>

StopClear(c) ==
  /\ pc[c] = "clear"
  /\ uptime' = FALSE
  /\ Goto(c, "rearm")
  /\ UNCHANGED <<cell, cellLock, poisoned, managers, mgr, turn, held, monitors,
                 system, seen>>

StopReset(c) ==
  LET m == mgr[c] IN
  /\ pc[c] = "rearm" /\ readyLock[m] = None
  /\ ResetReadiness(m)
  /\ backing' = [backing EXCEPT ![m] = {}]
  /\ startStop' = [startStop EXCEPT ![m] = None]
  /\ Return(c)
  /\ UNCHANGED <<globals, shouldRun, child, readyLock, turn, held, monitors, system,
                 seen>>

(***************************************************************************)
(* get_manager().ensure_trace_agent_ready(), at the head of a proxy call   *)
(***************************************************************************)
ProxyGet(q) ==
  /\ pc[q] = "idle" /\ cellLock = None /\ ~poisoned /\ cell # 0
  /\ mgr' = [mgr EXCEPT ![q] = cell] /\ Goto(q, "enter")
  /\ UNCHANGED <<globals, managers, turn, held, monitors, system, seen>>

\* Lock trace_agent_ready; the fast path returns at once.
ProxyEnter(q) ==
  LET m == mgr[q] IN
  /\ pc[q] = "enter" /\ readyLock[m] = None
  /\ IF ready[m] THEN Return(q) /\ UNCHANGED readyLock
     ELSE /\ readyLock' = [readyLock EXCEPT ![m] = q]
          /\ Goto(q, "look") /\ UNCHANGED mgr
  /\ UNCHANGED <<globals, shouldRun, startStop, child, backing, ready, turn, held,
                 monitors, system, seen>>

\* With it locked, lock trace_child to see whether a trace-agent was spawned.
ProxyLook(q) ==
  LET m == mgr[q] IN
  /\ pc[q] = "look" /\ ~ChildLocked(m, "trace")
  /\ IF child[m]["trace"] = None
     THEN Return(q) /\ UnlockReady(m)
     ELSE Goto(q, "probe") /\ UNCHANGED <<mgr, readyLock>>
  /\ UNCHANGED <<globals, shouldRun, startStop, child, backing, ready, turn, held,
                 monitors, system, seen>>

\* A probe of wait_for_trace_agent_ready connects, or the last one fails.
ProxyProbe(q) ==
  LET m == mgr[q] IN
  /\ pc[q] = "probe"
  /\ ready' = [ready EXCEPT ![m] = @ \/ InUse("trace") \/ DebugBuild]
  /\ seen' = [seen EXCEPT ![m] = @ \/ InUse("trace")]
  /\ UnlockReady(m)
  /\ Return(q)
  /\ UNCHANGED <<globals, shouldRun, startStop, child, backing, turn, held, monitors,
                 system>>

(***************************************************************************)
(* monitor_loop                                                            *)
(***************************************************************************)
MonGoto(m, l) == mon' = [mon EXCEPT ![m] = l]
MonAdvance(m, again, next) ==
  /\ MonGoto(m, IF monTurn[m] = "agent" THEN again ELSE next)
  /\ monTurn' = [monTurn EXCEPT ![m] = IF @ = "agent" THEN "trace" ELSE First]
Plan(m, n, x) == plan' = [plan EXCEPT ![m][n] = x]

\* The thread ends, dropping what its locals hold.
MonExit(m) == /\ MonGoto(m, "done")
              /\ monTurn' = [monTurn EXCEPT ![m] = First]
              /\ plan' = [plan EXCEPT ![m] = NoPlan]
              /\ proc' = AfterDeathOf(m)

\* while manager.should_run.load()
KeepsOn_Forever(m) == TRUE
KeepsOn(m) == shouldRun[m]

MonTop(m) ==
  /\ mon[m] = "top"
  /\ IF KeepsOn(m) THEN MonGoto(m, "check") /\ UNCHANGED <<monTurn, plan, proc>>
     ELSE MonExit(m)
  /\ UNCHANGED <<globals, managers, threads, foreign, seen>>

\* Phase 1: should_attempt_spawn with the slot locked.
MonCheck(m) ==
  LET n == monTurn[m] IN
  /\ mon[m] = "check" /\ ~ChildLocked(m, n)
  /\ ReapSlot(m, n)
  /\ Plan(m, n, IF ShouldAttempt(m, n) THEN "want" ELSE "no")
  /\ MonAdvance(m, "check", "recheck")
  /\ UNCHANGED <<globals, shouldRun, startStop, backing, readyLock, ready, threads,
                 foreign, seen>>

\* Phase 2, outside the locks: should_run is read again before each spawn, and
\* the loop is left when it is false.
MonRecheck(m) ==
  /\ mon[m] = "recheck"
  /\ CASE plan[m][monTurn[m]] = "no" ->
            MonAdvance(m, "recheck", "commit") /\ UNCHANGED <<plan, proc>>
       [] plan[m][monTurn[m]] # "no" /\ shouldRun[m] ->
            MonGoto(m, "spawn") /\ UNCHANGED <<monTurn, plan, proc>>
       [] OTHER -> MonExit(m)
  /\ UNCHANGED <<globals, managers, threads, foreign, seen>>

MonSpawn(m) ==
  LET n == monTurn[m] IN
  /\ mon[m] = "spawn"
  /\ \E p \in Pids : Launch(m, m, n, p) /\ Plan(m, n, p)
  /\ MonAdvance(m, "recheck", "unready")
  /\ UNCHANGED <<globals, managers, threads, foreign>>

MonSpawnFails(m) ==
  /\ mon[m] = "spawn"
  /\ Plan(m, monTurn[m], "err")
  /\ MonAdvance(m, "recheck", "commit")
  /\ UNCHANGED <<globals, managers, threads, system, seen>>

\* reset_trace_agent_readiness, called by spawn_process on the trace-agent.
MonUnready(m) ==
  /\ mon[m] = "unready" /\ readyLock[m] = None
  /\ ResetReadiness(m)
  /\ MonGoto(m, "commit")
  /\ UNCHANGED <<globals, shouldRun, startStop, child, backing, readyLock, threads,
                 monTurn, plan, system, seen>>

SpawnedOk_Unmatched(x) == x # "no"
SpawnedOk(x) == x \in Pids

\* Phase 3: commit_spawn_result with the slot locked.
MonCommit(m) ==
  LET n == monTurn[m]  x == plan[m][n] IN
  /\ mon[m] = "commit" /\ ~ChildLocked(m, n)
  /\ IF SpawnedOk(x) THEN FillSlot(m, n, x) ELSE UNCHANGED child
  /\ backing' = [backing EXCEPT ![m] = IF x = "err" THEN @ \cup {n}
                                       ELSE IF x \in Pids THEN @ \ {n} ELSE @]
  /\ Plan(m, n, "no")
  /\ MonAdvance(m, "commit", IF x \in Pids THEN "rearm" ELSE "wait")
  /\ UNCHANGED <<globals, shouldRun, startStop, readyLock, ready, threads, system, seen>>

\* The second reset of readiness, after the slot is filled.
MonRearm(m) ==
  /\ mon[m] = "rearm" /\ readyLock[m] = None
  /\ ResetReadiness(m)
  /\ MonGoto(m, "wait")
  /\ UNCHANGED <<globals, shouldRun, startStop, child, backing, readyLock, threads,
                 monTurn, plan, system, seen>>

MonWake_Once(m) ==
  /\ mon[m] = "wait"
  /\ MonExit(m)
  /\ UNCHANGED <<globals, managers, threads, foreign, seen>>

\* wait_timeout ends: the interval or the nearest backoff deadline is over.
MonWake(m) ==
  /\ mon[m] = "wait"
  /\ MonGoto(m, "top")
  /\ UNCHANGED <<globals, managers, threads, monTurn, plan, system, seen>>

(***************************************************************************)
(* The operating system, the clock and the rest of the host                *)
(***************************************************************************)
\* A child starts to answer on its endpoint, or stops answering.
ProcServe(p) == /\ Alive(p)
                /\ proc' = [proc EXCEPT ![p].st = IF @ = "silent" THEN "serving" ELSE "silent"]
                /\ UNCHANGED <<globals, managers, threads, monitors, foreign, seen>>

\* A child dies: of itself, by a signal, or by anybody's hand.
ProcExit(p) == /\ Alive(p)
               /\ proc' = [proc EXCEPT ![p] = [@ EXCEPT !.st = "zombie", !.thr = None]]
               /\ UNCHANGED <<globals, managers, threads, monitors, foreign, seen>>

BackoffElapses(m, n) == /\ n \in backing[m]
                        /\ backing' = [backing EXCEPT ![m] = @ \ {n}]
                        /\ UNCHANGED <<globals, shouldRun, startStop, child, readyLock,
                                       ready, threads, monitors, system, seen>>

\* A process outside libagent starts or stops serving an endpoint.
ForeignToggles(n) == /\ foreign' = IF n \in foreign THEN foreign \ {n} ELSE foreign \cup {n}
                     /\ UNCHANGED <<globals, managers, threads, monitors, proc, seen>>

HostThreadExits(c) == /\ pc[c] = "idle"
                      /\ Goto(c, "gone")
                      /\ proc' = AfterDeathOf(c)
                      /\ UNCHANGED <<globals, managers, mgr, turn, held, monitors,
                                     foreign, seen>>

StartStep(c) == \/ StartBegin(c) \/ StartTick(c) \/ StartSpawn(c) \/ StartSpawnFails(c)
                \/ StartCommit(c) \/ StartMonitor(c) \/ StartMonitorPanics(c)
StopStep(c) == \/ StopSwap(c) \/ StopNotify(c) \/ StopJoin(c) \/ KillBegin(c)
               \/ KillEnd(c) \/ StopClear(c) \/ StopReset(c)
ProxyStep(q) == ProxyEnter(q) \/ ProxyLook(q) \/ ProxyProbe(q)
MonStep(m) == \/ MonTop(m) \/ MonCheck(m) \/ MonRecheck(m) \/ MonSpawn(m)
              \/ MonSpawnFails(m) \/ MonUnready(m) \/ MonCommit(m) \/ MonRearm(m)
              \/ MonWake(m)
Environment == \/ \E p \in Pids : ProcServe(p) \/ ProcExit(p)
               \/ \E m \in Managers, n \in Names : BackoffElapses(m, n)
               \/ \E n \in Foreign : ForeignToggles(n)
               \/ \E c \in Mortal : HostThreadExits(c)

Next == \/ \E c \in Controllers : \/ InitializeCall(c) \/ StopCall(c)
                                  \/ StartStep(c) \/ StopStep(c)
        \/ \E q \in Proxies : ProxyGet(q) \/ ProxyStep(q)
        \/ \E m \in Managers : MonStep(m)
        \/ Environment

Spec == Init /\ [][Next]_vars

(***************************************************************************)
(* Fairness.  A thread that can take a step eventually takes one, and a    *)
(* thread waiting for a mutex that is released again and again gets it in  *)
(* the end (strong fairness: std's mutexes do not queue, but the waiter is *)
(* woken by every unlock).  Nothing is assumed of callers between calls,   *)
(* of the children, of the clock or of the rest of the host.               *)
(***************************************************************************)
Fairness == /\ \A c \in Controllers : SF_vars(StartStep(c)) /\ SF_vars(StopStep(c))
            /\ \A q \in Proxies : SF_vars(ProxyStep(q))
            /\ \A m \in Managers : SF_vars(MonStep(m))

FairSpec == Spec /\ Fairness

(***************************************************************************)
(* Properties                                                              *)
(***************************************************************************)
ProcRec == [st : {"free", "silent", "serving", "zombie"}, name : Names,
            by : 0..MaxManagers, thr : Controllers \cup Managers \cup {None},
            sig : BOOLEAN]
StartPcs == {"start", "tick", "spawn", "commit", "launch"}
StopPcs == {"stop", "notify", "join", "kill", "killing", "clear", "rearm"}
ProxyPcs == {"enter", "look", "probe"}
MonPcs == {"off", "top", "check", "recheck", "spawn", "unready", "commit", "rearm",
           "wait", "done"}

GlobalsOK == /\ cell \in 0..MaxManagers
             /\ cellLock \in Controllers \cup {None}
             /\ poisoned \in BOOLEAN
             /\ uptime \in BOOLEAN
ManagersOK == /\ shouldRun \in [Managers -> BOOLEAN]
              /\ startStop \in [Managers -> Controllers \cup {None}]
              /\ child \in [Managers -> [Names -> Pids \cup {None}]]
              /\ backing \in [Managers -> SUBSET Names]
              /\ readyLock \in [Managers -> Proxies \cup {None}]
              /\ ready \in [Managers -> BOOLEAN]
ThreadsOK == /\ pc \in [Callers -> {"idle", "gone"} \cup StartPcs \cup StopPcs \cup ProxyPcs]
             /\ mgr \in [Callers -> 0..MaxManagers]
             /\ turn \in [Controllers -> Names]
             /\ held \in [Controllers -> Pids \cup {None}]
MonitorsOK == /\ mon \in [Managers -> MonPcs]
              /\ monTurn \in [Managers -> Names]
              /\ plan \in [Managers -> [Names -> Pids \cup {"no", "want", "err"}]]
SystemOK == /\ proc \in [Pids -> ProcRec]
            /\ foreign \subseteq Names
            /\ seen \in [Managers -> BOOLEAN]

\* The type invariant.
TypeOK == GlobalsOK /\ ManagersOK /\ ThreadsOK /\ MonitorsOK /\ SystemOK

\* A stop() of manager m has not joined the monitor yet.
Draining(m) == \E c \in Controllers : mgr[c] = m /\ pc[c] \in {"notify", "join"}
\* A stop() of manager m is killing its children.
Killing(m) == \E c \in Controllers : mgr[c] = m /\ pc[c] \in {"kill", "killing"}

\* initialize() is idempotent even when raced by itself and by stop(): at most one
\* manager runs, and it is the one in the global cell, so that the next stop() finds it.
OneActive == \A m \in Managers : shouldRun[m] => m = cell

\* No process is spawned for a session whose monitor has been joined by stop(): the
\* monitor's look at should_run, its spawn and stop's swap may interleave anyhow.
NoSpawnAfterJoin ==
  [][\A p \in Pids : (proc[p].st = "free" /\ proc'[p].st # "free")
        => LET m == proc'[p].by IN shouldRun[m] \/ Draining(m)]_vars

\* Where a thread of libagent refers to p: the slots, the monitor's locals and the
\* Child that start or stop holds outside a slot.
References(p) ==
  {<<"slot", m, n>> : m \in {k \in Managers : \E l \in Names : child[k][l] = p},
                      n \in {l \in Names : \E k \in Managers : child[k][l] = p}}
  \cup {<<"plan", m, n>> : m \in {k \in Managers : \E l \in Names : plan[k][l] = p},
                           n \in {l \in Names : \E k \in Managers : plan[k][l] = p}}
  \cup {<<"held", mgr[c], turn[c]>> : c \in {d \in Controllers : held[d] = p}}

\* A process is referred to from at most one place, by its own manager and under its own
\* name, and never after it has been collected: no pid that the system may have reused is
\* ever signalled or waited for, whatever the monitor, start and stop do at once.
SoundReferences ==
  \A p \in Pids :
    /\ Cardinality(References(p)) <= 1
    /\ \A r \in References(p) : /\ proc[p].st # "free"
                                /\ r[2] = proc[p].by /\ r[3] = proc[p].name

\* In a release build, readiness that applies to a slot's child was seen by a probe made
\* after that child was spawned: a proxy that was probing while the monitor respawned the
\* trace-agent does not leave a stale TRUE behind for the new one.
ReadySound ==
  ~DebugBuild => \A m \in Managers :
                   (ready[m] /\ child[m]["trace"] # None) => seen[m]

\* stop() has returned or is past its kills, or m's session never began.
Closed(m) == /\ m <= cell /\ ~shouldRun[m]
             /\ ~Draining(m) /\ ~Killing(m)

\* stop() leaves no child behind: every process of a session that is closed is dead or has
\* at least been told to terminate.
NoOrphans == \A p \in Pids : (Alive(p) /\ Closed(proc[p].by)) => proc[p].sig

\* The children of a running session are left alone: only a stop() of it signals them, as long as
\* the threads that start sessions live on (Mortal = {}): on Linux a child dies with the thread that
\* spawned it.  Containment!Undisturbed has the case in which they do not.
KeptAlive == \A p \in Pids : (Alive(p) /\ proc[p].sig) => ~shouldRun[proc[p].by]

\* Smart spawning: a host that starts and stops its sessions from one thread never has two
\* trace-agents on the one endpoint.  With two such threads it may: initialize() on one of them need
\* not wait for what stop() on the other one still has to end.
OneTraceAgent ==
  Cardinality({p \in Pids : Alive(p) /\ proc[p].name = "trace"}) <= 1

\* Every thread of the host and of libagent; the monitor thread of m is named m.
Threads == Callers \cup Managers

\* Thread t cannot go on before u does: u holds the mutex that t is about to lock, or t
\* joins the monitor thread u. An idle caller will want the cell's mutex.
WaitsFor(t, u) ==
  \/ t \in Callers /\ pc[t] = "idle" /\ cellLock = u
  \/ /\ t \in Controllers
     /\ \/ pc[t] \in {"start", "stop"} /\ startStop[mgr[t]] = u
        \/ pc[t] \in {"start", "rearm"} /\ readyLock[mgr[t]] = u
        \/ pc[t] \in {"tick", "kill"} /\ HoldsChild(u, mgr[t], turn[t])
        \/ pc[t] = "commit" /\ turn[t] = "trace" /\ readyLock[mgr[t]] = u
        \/ pc[t] = "join" /\ mgr[t] = u /\ ~Joined(u)
  \/ /\ t \in Proxies
     /\ \/ pc[t] = "enter" /\ readyLock[mgr[t]] = u
        \/ pc[t] = "look" /\ HoldsChild(u, mgr[t], "trace")
  \/ /\ t \in Managers
     /\ \/ mon[t] \in {"check", "commit"} /\ HoldsChild(u, t, monTurn[t])
        \/ mon[t] \in {"unready", "rearm"} /\ readyLock[t] = u

\* The thread is inside a call, or inside monitor_loop().
AtWork(t) == IF t \in Managers THEN mon[t] \notin {"off", "done"}
             ELSE pc[t] \notin {"idle", "gone"}

\* Who waits for whom.
Waits == {w \in Threads \X Threads : WaitsFor(w[1], w[2])}

\* Proxies lock trace_agent_ready and then the trace-agent's slot, start() the slot and then
\* trace_agent_ready, and stop() joins a monitor that wants both. Still whoever waits, waits
\* for a thread at work, never for one that left with the mutex locked or never ran; and
\* nobody waits in a circle: of any waiting threads, one waits for nobody among them.
NoDeadlock ==
  LET W == Waits IN
  /\ \A w \in W : AtWork(w[2])
  /\ \A S \in SUBSET {w[1] : w \in W} : S # {} =>
       \E t \in S : \A u \in S : <<t, u>> \notin W

\* While a session runs, and nobody is in the middle of initialize(), its uptime counts.
UptimeKept == (cell # 0 /\ cellLock = None) => (shouldRun[cell] => uptime)

\* Every stop() returns, whatever the monitor, the proxies and other controllers do; every
\* initialize() does, and with it the cell's mutex is released; and every wait for the
\* trace-agent ends: ready, not needed, or timed out.
CallsReturn ==
  /\ \A c \in Controllers : /\ pc[c] \in StopPcs ~> pc[c] = "idle"
                            /\ pc[c] \in StartPcs ~> pc[c] = "idle"
  /\ \A q \in Proxies : pc[q] \in ProxyPcs ~> pc[q] = "idle"

\* A running session does not stay without a trace-agent: once the old one is dead, a new
\* one is spawned, or the attempt failed and backs off, or somebody serves the endpoint,
\* unless the session ends first.
HasTrace(m) == \/ child[m]["trace"] # None /\ ~Exited(m, "trace")
               \/ plan[m]["trace"] \in Pids
Respawned ==
  \A m \in Managers :
    (shouldRun[m] /\ mon[m] # "off" /\ ~HasTrace(m))
      ~> (HasTrace(m) \/ "trace" \in backing[m] \/ InUse("trace") \/ ~shouldRun[m])

(***************************************************************************)
(* Lifecycle implements Session                                            *)
(***************************************************************************)
\* initialize() has put m in the cell, and start() has not set should_run yet.
Pending(m) == \E c \in Controllers : mgr[c] = m /\ pc[c] = "start"

Phase(m) == IF m > cell \/ Pending(m) THEN "unborn"
            ELSE IF shouldRun[m] THEN "active"
            ELSE IF Draining(m) THEN "draining" ELSE "closed"

SessionPhase == [m \in Managers |-> Phase(m)]
SessionProcs == [m \in Managers |-> {p \in Pids : proc[p].st # "free" /\ proc[p].by = m}]

Abstract == INSTANCE Session WITH Sessions <- Managers, phase <- SessionPhase,
                                  procs <- SessionProcs

\* A session is opened once, drained once and closed once, one is active at a time, and
\* processes are spawned only for a session that is active or draining.
ImplementsSession == Abstract!Spec

=============================================================================
