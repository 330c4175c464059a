------------------------------ MODULE Shutdown ------------------------------
(***************************************************************************)
(* graceful_kill on Unix: how stop() terminates one child and the process  *)
(* group it leads (src/src/shutdown.rs).  Lifecycle.tla takes it as one    *)
(* step; here are its stages, its signals and its timeouts, with the group *)
(* as the kernel and the children see it.                                  *)
(*                                                                         *)
(* A stage sends a signal and then polls the child until it has exited or  *)
(* five seconds are over.  Time is the order of the steps: a poll may time *)
(* out whenever the child could be still up, which after a SIGKILL is only *)
(* while the kernel cannot deliver it.                                     *)
(***************************************************************************)
EXTENDS Naturals, Sequences

CONSTANTS Leader,      \* the child that spawn_process started
          Descendants  \* the processes it has started, in its group

ASSUME MembersAssumption == Leader \notin Descendants

Members == {Leader} \cup Descendants
Signals == {"TERM", "KILL"}

VARIABLES
  grouped,    \* setsid() succeeded before exec
  hostReaps,  \* the host collects children itself (waitpid(-1), SIGCHLD ignored)
  st,         \* each process: up, zombie, or gone (its pid may be reused)
  deaf,       \* the processes that ignore SIGTERM
  stuck,      \* the processes in uninterruptible sleep
  got,        \* the signals that were sent to each process
  stage,      \* the stage that graceful_kill is at
  pc,         \* about to send, polling, or done
  terminated  \* the local of that name

vars == <<grouped, hostReaps, st, deaf, stuck, got, stage, pc, terminated>>

\* The stages: whom they signal and how.  The last one is child.kill().
Stages_KillFirst == << [to |-> "group", sig |-> "KILL"], [to |-> "group", sig |-> "TERM"],
                       [to |-> "pid", sig |-> "TERM"], [to |-> "pid", sig |-> "KILL"],
                       [to |-> "pid", sig |-> "KILL"] >>
Stages_NoFallback == << [to |-> "group", sig |-> "TERM"], [to |-> "group", sig |-> "KILL"] >>
Stages == << [to |-> "group", sig |-> "TERM"], [to |-> "group", sig |-> "KILL"],
             [to |-> "pid", sig |-> "TERM"], [to |-> "pid", sig |-> "KILL"],
             [to |-> "pid", sig |-> "KILL"] >>

Init ==
  /\ grouped \in BOOLEAN /\ hostReaps \in BOOLEAN
  /\ st \in [Members -> {"up", "zombie", "gone"}]
  /\ st[Leader] # "gone" /\ \A p \in Descendants : st[p] # "zombie"
  /\ deaf \in SUBSET Members
  /\ stuck \in SUBSET Members
  /\ got = [p \in Members |-> {}]
  /\ stage = 1 /\ pc = "send"
  /\ terminated = FALSE

Present(p) == st[p] # "gone"

\* Whom the signal of this stage reaches: without setsid() there is no group of that id.
Target == IF Stages[stage].to = "pid" THEN {Leader}
          ELSE IF grouped THEN {p \in Members : Present(p)} ELSE {}

\* The next stage, or the end after the last one.
NextStage == IF stage < Len(Stages) THEN stage' = stage + 1 /\ pc' = "send"
             ELSE pc' = "done" /\ UNCHANGED stage

\* signal_process_group, signal_process_pid, child.kill(): a kill() that reaches nobody fails.
Send ==
  /\ pc = "send"
  /\ got' = [p \in Members |-> IF p \in Target THEN got[p] \cup {Stages[stage].sig} ELSE got[p]]
  /\ IF Target # {} THEN pc' = "poll" /\ UNCHANGED stage ELSE NextStage
  /\ UNCHANGED <<grouped, hostReaps, st, deaf, stuck, terminated>>

\* try_wait collects the child: no stage follows.
Terminated_Ignored == NextStage /\ terminated' = TRUE
Terminated == pc' = "done" /\ UNCHANGED stage /\ terminated' = TRUE

PollExited ==
  /\ pc = "poll" /\ st[Leader] = "zombie"
  /\ st' = [st EXCEPT ![Leader] = "gone"]
  /\ Terminated
  /\ UNCHANGED <<grouped, hostReaps, deaf, stuck, got>>

\* try_wait fails: somebody else has collected the child.
PollFails ==
  /\ pc = "poll" /\ st[Leader] = "gone"
  /\ NextStage
  /\ UNCHANGED <<grouped, hostReaps, st, deaf, stuck, got, terminated>>

\* The deadline has passed and the child is up.
TimesOut_Never == FALSE
TimesOut == \/ "KILL" \notin got[Leader]
            \/ Leader \in stuck

PollTimesOut ==
  /\ pc = "poll" /\ st[Leader] = "up" /\ TimesOut
  /\ NextStage
  /\ UNCHANGED <<grouped, hostReaps, st, deaf, stuck, got, terminated>>

(***************************************************************************)
(* The children, the kernel and the host                                   *)
(***************************************************************************)
\* A process dies, of a signal or of itself; init collects the descendants.
Dies(p) == /\ st[p] = "up" /\ p \notin stuck
           /\ st' = [st EXCEPT ![p] = IF p = Leader THEN "zombie" ELSE "gone"]
           /\ UNCHANGED <<grouped, hostReaps, deaf, stuck, got, stage, pc, terminated>>

Unsticks(p) == /\ p \in stuck
               /\ stuck' = stuck \ {p}
               /\ UNCHANGED <<grouped, hostReaps, st, deaf, got, stage, pc, terminated>>

HostCollects == /\ hostReaps /\ st[Leader] = "zombie"
                /\ st' = [st EXCEPT ![Leader] = "gone"]
                /\ UNCHANGED <<grouped, hostReaps, deaf, stuck, got, stage, pc, terminated>>

GracefulKill == Send \/ PollExited \/ PollFails \/ PollTimesOut

Next == \/ GracefulKill \/ HostCollects
        \/ \E p \in Members : Dies(p) \/ Unsticks(p)

Spec == Init /\ [][Next]_vars

\* A process that a delivered signal kills.
Doomed(p) == "KILL" \in got[p] \/ ("TERM" \in got[p] /\ p \notin deaf)

\* stop() is scheduled and the kernel delivers signals; nobody has to unstick.
Fairness == /\ WF_vars(GracefulKill)
            /\ \A p \in Members : WF_vars(Dies(p) /\ Doomed(p))

FairSpec == Spec /\ Fairness

(***************************************************************************)
(* Properties                                                              *)
(***************************************************************************)
\* The type invariant.
TypeOK ==
  /\ grouped \in BOOLEAN /\ hostReaps \in BOOLEAN
  /\ st \in [Members -> {"up", "zombie", "gone"}]
  /\ deaf \subseteq Members /\ stuck \subseteq Members
  /\ got \in [Members -> SUBSET Signals]
  /\ stage \in 1..Len(Stages)
  /\ pc \in {"send", "poll", "done"}
  /\ terminated \in BOOLEAN

\* No signal is sent once the child has been collected: its pid, and the group id that equals
\* it, may by then belong to somebody else.  This needs a host that leaves children alone.
NoStraySignal == [][~hostReaps /\ got' # got => Present(Leader)]_vars

\* Every process of the group gets SIGTERM before it gets SIGKILL, with or without a group.
Graceful == \A p \in Members : "KILL" \in got[p] => "TERM" \in got[p]

\* What graceful_kill reports is so: the child is terminated, or it has had its SIGKILL and
\* the kernel did not deliver it in time.
HonestReport ==
  pc = "done" => /\ terminated => ~Present(Leader)
                 /\ ~terminated /\ ~hostReaps => "KILL" \in got[Leader]

\* graceful_kill returns, also for a child that cannot be killed.
Returns == <>(pc = "done")

=============================================================================
