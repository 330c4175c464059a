----------------------------- MODULE Containment -----------------------------
(***************************************************************************)
(* What keeps the children from outliving the host, on each platform: the  *)
(* parent death signal of Linux (src/src/process.rs), the Job Object of    *)
(* Windows and the forked orphan monitor of macOS and the BSDs             *)
(* (src/src/manager.rs), through sessions, respawns, a stop() and the      *)
(* death of the host at any step.                                          *)
(*                                                                         *)
(* Processes are known by their pid, which the system gives to somebody    *)
(* else once a process has been collected.  graceful_kill is one step that *)
(* ends the child (Shutdown.tla has its stages), and the backoff, the      *)
(* conflict checks and a spawn that fails are a tick that spawns nothing   *)
(* (Respawn.tla and Lifecycle.tla have them).                              *)
(***************************************************************************)
EXTENDS Naturals, Sequences

CONSTANTS Pids,        \* the process ids
          None,        \* no process
          MaxSessions, \* bound: the sessions of one host process
          Deaf         \* the children that ignore SIGTERM

Slots == {"agent", "trace"}
Platforms == {"linux", "bsd", "windows"}
Sent == {"none", "TERM", "KILL"}
Sessions == 1..MaxSessions

ASSUME ContainmentAssumption ==
  /\ None \notin Pids /\ Deaf \subseteq Slots /\ MaxSessions \in Nat \ {0}

VARIABLES
  platform, \* the platform that the library was built for
  host,     \* the host's process: up, dead, or dead with its pid held by another process
  caller,   \* the thread that called initialize() is alive
  pc,       \* where the host is in start() or stop()
  session,  \* the number of the session
  slot,     \* agent_child and trace_child
  proc,     \* each pid: free, a child of that name, a dead child to collect, or other
  by,       \* the thread that spawned the child: caller or monitor
  tied,     \* the children with the death signal set, or in the job
  sent,     \* the last signal that the process with the pid was sent, child or other
  job,      \* windows_job holds a handle
  env,      \* the LIBAGENT_MONITOR_*_PID variables
  mons,     \* the orphan monitor of each session
  first     \* history, for the monitors: the children that start() found or spawned

host_vars == <<caller, pc, session, job>>
proc_vars == <<slot, proc, by, tied, sent>>
mon_vars == <<env, mons, first>>
vars == <<platform, host, host_vars, proc_vars, mon_vars>>

NoPids == [s \in Slots |-> None]
NoEnv == [parent |-> FALSE, pids |-> NoPids]
NoMonitor == [at |-> "none", parent |-> "host", pids |-> NoPids, todo |-> <<>>]

Init ==
  /\ platform \in Platforms /\ host = "up" /\ caller = TRUE
  /\ pc = "off" /\ session = 0 /\ job = FALSE
  /\ slot = NoPids /\ proc = [p \in Pids |-> "free"]
  /\ by = [p \in Pids |-> "caller"] /\ tied = {} /\ sent = [p \in Pids |-> "none"]
  /\ env = NoEnv /\ mons = [n \in Sessions |-> NoMonitor] /\ first = [n \in Sessions |-> NoPids]

Alive(p) == proc[p] \in Slots

\* kill(), on every pid of the set: it reaches whoever has the pid, but a dead child not any more.
After(targets, sig) ==
  [p \in Pids |-> IF p \in targets /\ (Alive(p) \/ proc[p] = "other") THEN sig ELSE sent[p]]

\* The kernel's death signal for the children of a thread that ends (Linux).
DeathSignal(thread) ==
  After({p \in tied : platform = "linux" /\ by[p] = thread}, "TERM")

\* The processes once nobody keeps a dead child's pid any more.
Collected == [p \in Pids |-> IF proc[p] = "dead" THEN "free" ELSE proc[p]]

\* What was known of processes that have ended.
Forget(ended) ==
  /\ by' = [p \in Pids |-> IF p \in ended THEN "caller" ELSE by[p]]
  /\ tied' = tied \ ended
  /\ sent' = [p \in Pids |-> IF p \in ended THEN "none" ELSE sent[p]]

(***************************************************************************)
(* Spawning                                                                *)
(***************************************************************************)
\* windows_job_handle, then assign_child_to_job: a job that could not be created or configured is
\* not kept and the next spawn tries again; without one the child is not tied.
AssignToJob(p) ==
  \/ job' = TRUE /\ tied' = tied \cup {p}
  \/ job' = TRUE /\ tied' = tied \ {p}
  \/ ~job /\ UNCHANGED job /\ tied' = tied \ {p}

\* configure_unix_process: the child sets its own death signal before exec, if prctl lets it.
Tie(p) ==
  IF platform = "windows" THEN AssignToJob(p)
  ELSE /\ UNCHANGED job
       /\ \/ platform = "linux" /\ tied' = tied \cup {p}
          \/ tied' = tied \ {p}

\* The child of the slot has ended, or there is none.
Down(s) == IF slot[s] = None THEN TRUE ELSE ~Alive(slot[s])

\* The processes once try_wait has collected the dead child of the slot.
Waited(s) == [p \in Pids |-> IF p = slot[s] /\ proc[p] = "dead" THEN "free" ELSE proc[p]]

\* AgentManager::tick_process: a child that is up stays; one that has ended is collected and,
\* unless the backoff, a conflict or an error prevents it, another one is spawned.
Tick(s, thread) ==
  \/ ~Down(s) /\ UNCHANGED <<slot, proc, by, tied, sent, job>>
  \/ /\ Down(s)
     /\ slot' = [slot EXCEPT ![s] = None] /\ proc' = Waited(s)
     /\ UNCHANGED <<by, tied, sent, job>>
  \/ /\ Down(s)
     /\ \E p \in Pids :
          /\ proc[p] = "free"
          /\ slot' = [slot EXCEPT ![s] = p]
          /\ proc' = [Waited(s) EXCEPT ![p] = s]
          /\ by' = [by EXCEPT ![p] = thread] /\ UNCHANGED sent
          /\ Tie(p)

(***************************************************************************)
(* start()                                                                 *)
(***************************************************************************)
\* initialize() on some thread of the host: a new AgentManager with empty slots and without a job.
\* The old one is dropped, and with it its handles of the children that a job has ended.
Start ==
  /\ host = "up" /\ pc = "off" /\ session < MaxSessions
  /\ session' = session + 1 /\ pc' = "agent" /\ caller' = TRUE
  /\ slot' = NoPids /\ job' = FALSE /\ proc' = Collected
  /\ UNCHANGED <<platform, host, by, tied, sent, mon_vars>>

\* The two ticks of start(), then the orphan monitor where there is one.
FirstTick(s, after) ==
  /\ host = "up" /\ pc = s
  /\ Tick(s, "caller")
  /\ first' = IF platform = "bsd" THEN [first EXCEPT ![session][s] = slot'[s]] ELSE first
  /\ pc' = after
  /\ UNCHANGED <<platform, host, caller, session, env, mons>>

AfterTicks == IF platform = "bsd" THEN "setenv" ELSE "on"

\* fork_orphan_cleanup_monitor: setenv, only for the children that there are.
SetEnv ==
  /\ host = "up" /\ pc = "setenv"
  /\ env' = [parent |-> TRUE,
             pids |-> [s \in Slots |-> IF slot[s] = None THEN env.pids[s] ELSE slot[s]]]
  /\ pc' = "fork"
  /\ UNCHANGED <<platform, host, caller, session, job, proc_vars, mons, first>>

\* clear_orphan_monitor_env, in the parent and in the monitor.
clear_orphan_monitor_env_AgentOnly == [env EXCEPT !.pids["agent"] = None, !.parent = FALSE]
clear_orphan_monitor_env == NoEnv

\* What the monitor reads of its environment, which it clears after that; without the parent's
\* pid it watches init.
ReadEnv_Cleared ==
  [NoMonitor EXCEPT !.at = "watch", !.parent = "init", !.pids = env.pids]
ReadEnv ==
  [NoMonitor EXCEPT !.at = "watch", !.parent = IF env.parent THEN "host" ELSE "init",
                    !.pids = env.pids]

\* fork(): the monitor starts with a copy of the environment, or the fork fails.
Fork ==
  /\ host = "up" /\ pc = "fork"
  /\ \/ mons' = [mons EXCEPT ![session] = ReadEnv]
     \/ UNCHANGED mons
  /\ env' = clear_orphan_monitor_env
  /\ pc' = "on"
  /\ UNCHANGED <<platform, host, caller, session, job, proc_vars, first>>

\* The monitor thread's tick of one child.
MonitorTick(s) ==
  /\ host = "up" /\ pc = "on"
  /\ Tick(s, "monitor")
  /\ UNCHANGED <<platform, host, caller, pc, session, mon_vars>>

(***************************************************************************)
(* stop()                                                                  *)
(***************************************************************************)
\* should_run is false and the monitor thread has been joined: the kernel sees a thread end.
Join ==
  /\ host = "up" /\ pc = "on"
  /\ sent' = DeathSignal("monitor")
  /\ pc' = IF platform = "windows" THEN "job" ELSE "kill"
  /\ UNCHANGED <<platform, host, caller, session, job, slot, proc, by, tied, mon_vars>>

\* TerminateJobObject and CloseHandle, which end whatever is in the job; the children are then
\* not killed one by one, and stay in the slots of this manager.
TerminateJob_Untouched == sent
TerminateJob == After(tied, "KILL")

StopJob ==
  /\ host = "up" /\ pc = "job"
  /\ job' = FALSE
  /\ sent' = IF job THEN TerminateJob ELSE sent
  /\ pc' = IF job THEN "off" ELSE "kill"
  /\ UNCHANGED <<platform, host, caller, session, slot, proc, by, tied, mon_vars>>

\* graceful_kill of both slots: what they held is ended and collected.
StopKill ==
  /\ host = "up" /\ pc = "kill"
  /\ LET ended == {p \in Pids : \E s \in Slots : slot[s] = p} IN
     /\ proc' = [p \in Pids |-> IF p \in ended THEN "free" ELSE proc[p]]
     /\ Forget(ended)
  /\ slot' = NoPids
  /\ pc' = "off"
  /\ UNCHANGED <<platform, host, caller, session, job, mon_vars>>

(***************************************************************************)
(* The orphan monitor                                                      *)
(***************************************************************************)
\* What it sends to one child it was given.
SignalsTo_Unwrapped(p) == << <<p, "TERM">>, <<p, "KILL">> >>
SignalsTo_TermOnly(p) == IF p = None THEN <<>> ELSE << <<p, "TERM">> >>
SignalsTo(p) == IF p = None THEN <<>> ELSE << <<p, "TERM">>, <<p, "KILL">> >>

\* kill(parent, 0) fails: nobody has the pid, or it is init, which is not ours to signal.
ParentGone(n) == mons[n].parent = "init" \/ host = "dead"

\* run_orphan_monitor finds its parent dead: the agent's turn, then the trace-agent's.
Wake(n) ==
  /\ mons[n].at = "watch" /\ ParentGone(n)
  /\ mons' = [mons EXCEPT ![n].at = "clean",
                          ![n].todo = SignalsTo(mons[n].pids["agent"])
                                      \o SignalsTo(mons[n].pids["trace"])]
  /\ UNCHANGED <<platform, host, host_vars, proc_vars, env, first>>

\* The next kill(), or _exit after the last one.
Clean(n) ==
  /\ mons[n].at = "clean"
  /\ IF mons[n].todo = <<>>
     THEN mons' = [mons EXCEPT ![n].at = "gone"] /\ UNCHANGED sent
     ELSE /\ sent' = After({Head(mons[n].todo)[1]}, Head(mons[n].todo)[2])
          /\ mons' = [mons EXCEPT ![n].todo = Tail(@)]
  /\ UNCHANGED <<platform, host, host_vars, slot, proc, by, tied, env, first>>

OrphanMonitor(n) == Wake(n) \/ Clean(n)

(***************************************************************************)
(* The host's threads, the processes and the system                        *)
(***************************************************************************)
\* The thread that called initialize() ends, between its calls.
CallerExits ==
  /\ host = "up" /\ pc \in {"off", "on"} /\ caller
  /\ caller' = FALSE
  /\ sent' = DeathSignal("caller")
  /\ UNCHANGED <<platform, host, pc, session, job, slot, proc, by, tied, mon_vars>>

\* The host is killed, at any step: Linux signals the children, and Windows closes the handle of
\* the job.  Its memory is gone, its dead children are collected by init, and its own pid may be
\* held by its zombie.
HostDies ==
  /\ host = "up"
  /\ host' \in {"dead", "held"}
  /\ sent' = CASE platform = "linux"   -> After(tied, "TERM")
               [] platform = "windows" -> IF job THEN TerminateJob ELSE sent
               [] platform = "bsd"     -> sent
  /\ proc' = Collected
  /\ pc' = "off" /\ slot' = NoPids /\ env' = NoEnv /\ job' = FALSE
  /\ UNCHANGED <<platform, caller, session, by, tied, mons, first>>

\* The host's pid is given up, or given to somebody else.
HostPid ==
  /\ host # "up"
  /\ host' = IF host = "dead" THEN "held" ELSE "dead"
  /\ UNCHANGED <<platform, host_vars, proc_vars, mon_vars>>

\* A child ends, of a signal or of itself; its pid is kept as long as the host has to collect it.
Dies(p) ==
  /\ Alive(p)
  /\ proc' = [proc EXCEPT ![p] = IF host = "up" /\ \E s \in Slots : slot[s] = p THEN "dead"
                                                                              ELSE "free"]
  /\ Forget({p})
  /\ UNCHANGED <<platform, host, host_vars, slot, mon_vars>>

\* Another process takes the pid, or ends.
Other(p) ==
  /\ \/ proc[p] = "free" /\ proc' = [proc EXCEPT ![p] = "other"]
     \/ proc[p] = "other" /\ proc' = [proc EXCEPT ![p] = "free"]
  /\ sent' = [sent EXCEPT ![p] = "none"]
  /\ UNCHANGED <<platform, host, host_vars, slot, by, tied, mon_vars>>

Next ==
  \/ Start \/ FirstTick("agent", "trace") \/ FirstTick("trace", AfterTicks)
  \/ SetEnv \/ Fork
  \/ \E s \in Slots : MonitorTick(s)
  \/ Join \/ StopJob \/ StopKill
  \/ \E n \in Sessions : OrphanMonitor(n)
  \/ CallerExits \/ HostDies \/ HostPid
  \/ \E p \in Pids : Dies(p) \/ Other(p)

Spec == Init /\ [][Next]_vars

\* What was sent ends the process.
Doomed(p) == Alive(p) /\ (sent[p] = "KILL" \/ (sent[p] = "TERM" /\ proc[p] \notin Deaf))

\* The orphan monitors are scheduled and the kernel delivers signals.
FairSpec == /\ Spec
            /\ \A n \in Sessions : WF_vars(OrphanMonitor(n))
            /\ \A p \in Pids : WF_vars(Dies(p) /\ Doomed(p))

(***************************************************************************)
(* Properties                                                              *)
(***************************************************************************)
\* The type invariant.
TypeOK ==
  /\ platform \in Platforms /\ host \in {"up", "dead", "held"} /\ caller \in BOOLEAN
  /\ pc \in Slots \cup {"off", "setenv", "fork", "on", "job", "kill"}
  /\ session \in 0..MaxSessions /\ job \in BOOLEAN
  /\ slot \in [Slots -> Pids \cup {None}]
  /\ proc \in [Pids -> Slots \cup {"free", "dead", "other"}]
  /\ by \in [Pids -> {"caller", "monitor"}] /\ tied \subseteq Pids
  /\ sent \in [Pids -> Sent]
  /\ env.parent \in BOOLEAN /\ env.pids \in [Slots -> Pids \cup {None}]
  /\ \A n \in Sessions : /\ mons[n].at \in {"none", "watch", "clean", "gone"}
                         /\ mons[n].parent \in {"host", "init"}
                         /\ mons[n].pids \in [Slots -> Pids \cup {None}]
                         /\ mons[n].todo \in Seq(Pids \X {"TERM", "KILL"})
  /\ first \in [Sessions -> [Slots -> Pids \cup {None}]]

\* After stop() no child is up, but on Windows one that has been killed with its job and is ending,
\* or one that could not be assigned to the job: nobody kills that one, in this session or in a
\* later one, whose slots do not even know it.  (The monitor thread has been joined first:
\* Lifecycle.tla has what its last tick may leave behind.)
StopLeavesNone ==
  host = "up" /\ pc = "off" =>
    \A p \in Pids : Alive(p) => platform = "windows" /\ (sent[p] = "KILL" \/ p \notin tied)

\* The process has the pid of a child that a monitor, now awake, was given.
StruckByMonitor(p) ==
  /\ platform = "bsd" /\ host # "up"
  /\ \E n \in Sessions : /\ mons[n].at \in {"clean", "gone"}
                          /\ \E s \in Slots : mons[n].pids[s] = p

\* A monitor is given the pids of the children of the start() that forked it: the variables that
\* pass them do not leak from one session into the next.  And nobody else's process is signalled,
\* but for one that has such a pid by the time the host is dead (NoStranger).
OwnChildren ==
  /\ \A n \in Sessions : mons[n].at \in {"watch", "clean"} => mons[n].pids = first[n]
  /\ \A p \in Pids : proc[p] = "other" /\ sent[p] # "none" => StruckByMonitor(p)

\* Process ownership: only what libagent spawned is ever signalled.  It fails where an orphan
\* monitor outlives the children that it knows: they exit, are respawned or are stopped, and it
\* signals whoever has their pids when the host dies.
NoStranger == \A p \in Pids : proc[p] = "other" => sent[p] = "none"

\* In a running session, no child that is up is sent a signal, except on Linux when the thread
\* that had spawned it ends.
Undisturbed ==
  [][\A s \in Slots :
       /\ host = "up" /\ pc = "on" /\ host' = "up" /\ pc' = "on"
       /\ slot[s] # None /\ slot'[s] = slot[s]
       => LET p == slot[s] IN
          sent'[p] \notin {sent[p], "none"} => platform = "linux" /\ caller /\ ~caller']_vars

\* What the platform has on the child once the host is gone.
Covered(p) ==
  CASE platform = "linux"   -> p \in tied /\ proc[p] \notin Deaf
    [] platform = "windows" -> p \in tied
    [] platform = "bsd"     -> \E n \in Sessions : /\ mons[n].at = "watch"
                                                   /\ \E s \in Slots : mons[n].pids[s] = p

\* A child that its platform covers when the host dies ends too, unless the host's pid is held by
\* another process, which the orphan monitor takes for its parent.
Cleaned ==
  \A p \in Pids : host # "up" /\ Alive(p) /\ Covered(p) ~> ~Alive(p) \/ host = "held"
==============================================================================
