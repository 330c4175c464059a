------------------------------ MODULE Session ------------------------------
(***************************************************************************)
(* What libagent promises a host application about sessions.  A session is *)
(* what one initialize() opens and one stop() closes (src/src/manager.rs,  *)
(* start and stop of AgentManager).  This module says nothing of threads,  *)
(* locks or the monitor loop; Lifecycle.tla is shown to implement it.      *)
(*                                                                         *)
(*   - at most one session is active at a time;                            *)
(*   - a session goes unborn -> active -> draining -> closed, never back,  *)
(*     and a closed one is never reopened;                                 *)
(*   - a process is only ever spawned for a session that is active, or     *)
(*     that is draining because its monitor thread has not been joined yet;*)
(*   - a process belongs to one session only, until it is reaped.          *)
(***************************************************************************)
EXTENDS Naturals

CONSTANTS Sessions, \* the sessions the host may open
          Pids      \* process identifiers, reused once a process is reaped

VARIABLES phase,    \* phase[s]: where session s is in its life
          procs     \* procs[s]: the processes spawned for s and not reaped

vars == <<phase, procs>>

Phases == {"unborn", "active", "draining", "closed"}

TypeOK == /\ phase \in [Sessions -> Phases]
          /\ procs \in [Sessions -> SUBSET Pids]

Init == /\ phase = [s \in Sessions |-> "unborn"]
        /\ procs = [s \in Sessions |-> {}]

\* initialize() opens a session, unless one is active.
Open(s) == /\ phase[s] = "unborn"
           /\ \A t \in Sessions : phase[t] # "active"
           /\ phase' = [phase EXCEPT ![s] = "active"]
           /\ UNCHANGED procs

\* A (re)spawn of the agent or the trace-agent.
Spawn(s, p) == /\ phase[s] \in {"active", "draining"}
               /\ \A t \in Sessions : p \notin procs[t]
               /\ procs' = [procs EXCEPT ![s] = @ \cup {p}]
               /\ UNCHANGED phase

\* A process of s is dead and its parent has collected it.
Reap(s, p) == /\ p \in procs[s]
              /\ procs' = [procs EXCEPT ![s] = @ \ {p}]
              /\ UNCHANGED phase

\* stop() begins; the monitor thread may still be at work.
Drain(s) == /\ phase[s] = "active"
            /\ phase' = [phase EXCEPT ![s] = "draining"]
            /\ UNCHANGED procs

\* The monitor thread is joined: nothing is spawned for s any more.
Close(s) == /\ phase[s] = "draining"
            /\ phase' = [phase EXCEPT ![s] = "closed"]
            /\ UNCHANGED procs

Next == \E s \in Sessions : \/ Open(s) \/ Drain(s) \/ Close(s)
                            \/ \E p \in Pids : Spawn(s, p) \/ Reap(s, p)

Spec == Init /\ [][Next]_vars
=============================================================================
