------------------------- MODULE ContainmentProofs -------------------------
(***************************************************************************)
(* Containment for any number of pids and sessions.  The children that are *)
(* up are in their slots, have had their SIGKILL or were never in the job  *)
(* (HeldInv), whatever stop() met; and an orphan monitor knows the         *)
(* children of its own start() because the environment is set from the     *)
(* slots that this start() filled, is empty otherwise (EnvInv, FirstInv),  *)
(* and the monitors of sessions to come do not exist (LaterInv).  An       *)
(* orphan monitor wakes only when its parent is gone, never because it     *)
(* took init for it (WatchInv).  Kernel and job signal children only       *)
(* (TiedInv), so a stranger is signalled by a woken monitor (TodoInv).     *)
(***************************************************************************)
EXTENDS Containment, SequenceTheorems, TLAPS

MonRec == [at : {"none", "watch", "clean", "gone"}, parent : {"host", "init"},
           pids : [Slots -> Pids \cup {None}], todo : Seq(Pids \X {"TERM", "KILL"})]
EnvRec == [parent : BOOLEAN, pids : [Slots -> Pids \cup {None}]]

\* TypeOK with its records as such, and a session for whoever is inside one.
Types ==
  /\ platform \in Platforms /\ host \in {"up", "dead", "held"} /\ caller \in BOOLEAN
  /\ pc \in Slots \cup {"off", "setenv", "fork", "on", "job", "kill"}
  /\ session \in 0..MaxSessions /\ job \in BOOLEAN
  /\ slot \in [Slots -> Pids \cup {None}]
  /\ proc \in [Pids -> Slots \cup {"free", "dead", "other"}]
  /\ by \in [Pids -> {"caller", "monitor"}] /\ tied \in SUBSET Pids
  /\ sent \in [Pids -> Sent]
  /\ env \in EnvRec /\ mons \in [Sessions -> MonRec]
  /\ first \in [Sessions -> [Slots -> Pids \cup {None}]]
  /\ pc # "off" => session \in Sessions

Forking == {"setenv", "fork"}

\* Outside fork_orphan_cleanup_monitor the environment is clear, and only macOS and BSD fork.
EnvInv == /\ pc # "fork" => env = NoEnv
          /\ pc \in Forking => platform = "bsd"
          /\ pc = "fork" => env.parent /\ env.pids = slot
\* What start() found or spawned is in its slots until it forks.
FirstInv == platform = "bsd" =>
              /\ pc \in {"trace"} \cup Forking => first[session]["agent"] = slot["agent"]
              /\ pc \in Forking => first[session]["trace"] = slot["trace"]
\* A session that is to come, or whose start() has not forked yet, has no monitor.
LaterInv == \A n \in Sessions :
              n > session \/ (n = session /\ pc \in Slots \cup Forking) => mons[n].at = "none"
\* An orphan monitor watches the host and lets the children be as long as it is up.
WatchInv == \A n \in Sessions : /\ mons[n].at = "watch" => mons[n].parent = "host"
                                /\ mons[n].at \in {"clean", "gone"} => host # "up"
                                /\ mons[n].at # "none" => platform = "bsd"
\* A monitor that is awake signals the pids that it was given.
TodoInv == \A n \in Sessions : mons[n].at = "clean" =>
             \A i \in 1..Len(mons[n].todo) : \E s \in Slots : mons[n].pids[s] = mons[n].todo[i][1]
\* The death signal and the job are a child's, and go with it.
TiedInv == \A p \in tied : Alive(p)
\* A child that is up is in its slot; on Windows one has been killed with its job, or has outlived
\* its session because it was not in the job.
HeldInv == host = "up" =>
             \A p \in Pids : Alive(p) =>
               \/ \E s \in Slots : slot[s] = p
               \/ platform = "windows" /\ (sent[p] = "KILL" \/ p \notin tied)
\* The two halves of OwnChildren.
GivenOwn == \A n \in Sessions : mons[n].at \in {"watch", "clean"} => mons[n].pids = first[n]
StrangersInv == \A p \in Pids : proc[p] = "other" /\ sent[p] # "none" => StruckByMonitor(p)
\* Only Windows kills one by one no more.
StopInv == pc = "job" => platform = "windows"

\* The inductive invariant.
IInv == /\ Types /\ EnvInv /\ FirstInv /\ LaterInv /\ WatchInv
        /\ TodoInv /\ TiedInv /\ GivenOwn /\ StrangersInv /\ HeldInv /\ StopLeavesNone /\ StopInv

\* What kill() leaves of the signals sent is typed.
LEMMA AfterType ==
  ASSUME Types, NEW targets, NEW sig \in Sent
  PROVE  After(targets, sig) \in [Pids -> Sent]
BY DEF After, Types

\* A tick collects dead children and spawns into the slot it found empty; a child that is up
\* stays in its slot, and no signal is sent.
LEMMA TickEffect ==
  ASSUME Types, NEW s \in Slots, NEW thread \in {"caller", "monitor"}, Tick(s, thread)
  PROVE  /\ slot' \in [Slots -> Pids \cup {None}]
         /\ proc' \in [Pids -> Slots \cup {"free", "dead", "other"}]
         /\ by' \in [Pids -> {"caller", "monitor"}] /\ tied' \in SUBSET Pids
         /\ job' \in BOOLEAN /\ sent' = sent
         /\ \A r \in Slots : r # s => slot'[r] = slot[r]
         /\ \A p \in Pids : Alive(p)' => (Alive(p) \/ slot'[s] = p)
         /\ \A p \in Pids : Alive(p)' /\ slot[s] = p => slot'[s] = p
         /\ \A p \in Pids : Alive(p) => Alive(p)' /\ (p \in tied' => p \in tied)
         /\ \A p \in Pids : p \in tied' => p \in tied \/ Alive(p)'
         /\ \A p \in Pids : proc'[p] = "other" <=> proc[p] = "other"
<1> DEFINE Fine == /\ slot' \in [Slots -> Pids \cup {None}]
                   /\ proc' \in [Pids -> Slots \cup {"free", "dead", "other"}]
                   /\ by' \in [Pids -> {"caller", "monitor"}] /\ tied' \in SUBSET Pids
                   /\ job' \in BOOLEAN /\ sent' = sent
                   /\ \A r \in Slots : r # s => slot'[r] = slot[r]
                   /\ \A p \in Pids : Alive(p)' => (Alive(p) \/ slot'[s] = p)
                   /\ \A p \in Pids : Alive(p)' /\ slot[s] = p => slot'[s] = p
                   /\ \A p \in Pids : Alive(p) => Alive(p)' /\ (p \in tied' => p \in tied)
                   /\ \A p \in Pids : p \in tied' => p \in tied \/ Alive(p)'
                   /\ \A p \in Pids : proc'[p] = "other" <=> proc[p] = "other"
<1> USE DEF Types
<1>1. ASSUME UNCHANGED <<slot, proc, by, tied, sent, job>> PROVE Fine
  BY <1>1 DEF Alive
<1>2. ASSUME Down(s), proc' = Waited(s), slot' = [slot EXCEPT ![s] = None],
             UNCHANGED <<by, tied, sent, job>>
      PROVE  Fine
  <2>1. \A p \in Pids : Alive(p)' <=> Alive(p)
    BY <1>2 DEF Waited, Alive, Slots
  <2>2. \A p \in Pids : slot[s] = p => ~Alive(p)
    BY <1>2, ContainmentAssumption DEF Down
  <2> QED BY <1>2, <2>1, <2>2 DEF Waited
<1>3. ASSUME NEW q \in Pids, Down(s), proc[q] = "free", slot' = [slot EXCEPT ![s] = q],
             proc' = [Waited(s) EXCEPT ![q] = s],
             by' = [by EXCEPT ![q] = thread], sent' = sent, Tie(q)
      PROVE  Fine
  <2>1. tied' \in SUBSET Pids /\ job' \in BOOLEAN
    BY <1>3 DEF Tie, AssignToJob
  <2>2. \A p \in Pids : p # q => (Alive(p)' => Alive(p))
    BY <1>3 DEF Waited, Alive, Slots
  <2>3. \A p \in Pids : slot[s] = p => ~Alive(p)
    BY <1>3, ContainmentAssumption DEF Down
  <2>4. Waited(s) \in [Pids -> Slots \cup {"free", "dead", "other"}]
    BY DEF Waited
  <2>5. proc' \in [Pids -> Slots \cup {"free", "dead", "other"}]
    BY <1>3, <2>4
  <2>6. \A p \in Pids : p # q => (Alive(p) => Alive(p)')
    BY <1>3 DEF Waited, Alive, Slots
  <2>7. Alive(q)' /\ ~Alive(q) /\ proc'[q] # "other"
    BY <1>3, <2>4 DEF Alive, Slots
  <2>8. tied' \subseteq tied \cup {q}
    BY <1>3 DEF Tie, AssignToJob
  <2>9. \A p \in Pids : proc'[p] = "other" <=> proc[p] = "other"
    BY <1>3, <2>7 DEF Waited
  <2>10. \A p \in Pids : Alive(p) => Alive(p)' /\ (p \in tied' => p \in tied)
    BY <2>6, <2>7, <2>8
  <2> QED BY <1>3, <2>1, <2>2, <2>3, <2>5, <2>7, <2>8, <2>9, <2>10
<1> HIDE DEF Fine, Types
<1>4. Fine
  BY <1>1, <1>2, <1>3 DEF Tick
<1> QED BY <1>4 DEF Fine

\* The kill() calls of an orphan monitor are a sequence of signals.
LEMMA TodoType ==
  ASSUME NEW p \in Pids \cup {None}, NEW q \in Pids \cup {None}
  PROVE  SignalsTo(p) \o SignalsTo(q) \in Seq(Pids \X {"TERM", "KILL"})
<1> DEFINE Signal == Pids \X {"TERM", "KILL"}
<1>1. ASSUME NEW r \in Pids \cup {None} PROVE SignalsTo(r) \in Seq(Signal)
  <2>1. CASE r = None
    <3>1. SignalsTo(r) = <<>>
      BY <2>1 DEF SignalsTo
    <3> HIDE DEF Signal
    <3> QED BY <3>1
  <2>2. CASE r # None
    <3>1. PICK a, b : a = <<r, "TERM">> /\ b = <<r, "KILL">>
      OBVIOUS
    <3>2. SignalsTo(r) = <<a, b>> /\ a \in Signal /\ b \in Signal
      BY <2>2, <3>1 DEF SignalsTo
    <3> HIDE DEF Signal
    <3> QED BY <3>2
  <2> QED BY <2>1, <2>2
<1> QED BY <1>1, ConcatProperties

\* They are for the pids that it was given.
LEMMA SignalsNamed ==
  ASSUME NEW p, NEW q
  PROVE  \A i \in 1..Len(SignalsTo(p) \o SignalsTo(q)) : (SignalsTo(p) \o SignalsTo(q))[i][1] \in {p, q}
BY DEF SignalsTo

\* A step keeps the types.
LEMMA TypesNext == ASSUME Types, Next PROVE Types'
<1> USE ContainmentAssumption DEF Sessions, host_vars, proc_vars, mon_vars
<1>1. CASE Start
  <2>1. session \in 0..MaxSessions /\ session < MaxSessions /\ session' = session + 1
    BY <1>1 DEF Types, Start
  <2>2. session' \in 0..MaxSessions /\ session' \in 1..MaxSessions
    BY <2>1
  <2>3. slot' \in [Slots -> Pids \cup {None}]
    BY <1>1 DEF Start, NoPids
  <2>4. proc' \in [Pids -> Slots \cup {"free", "dead", "other"}]
    BY <1>1 DEF Start, Collected, Types
  <2> QED BY <1>1, <2>2, <2>3, <2>4 DEF Types, Start, Slots
<1>2. ASSUME NEW s \in Slots, NEW after \in {"trace", "setenv", "on"}, FirstTick(s, after)
      PROVE  Types'
  <2>1. Tick(s, "caller")
    BY <1>2 DEF FirstTick
  <2>2. first' \in [Sessions -> [Slots -> Pids \cup {None}]]
    <3>1. slot' \in [Slots -> Pids \cup {None}]
      BY <2>1, TickEffect
    <3> QED BY <1>2, <3>1 DEF FirstTick, Types
  <2>3. /\ UNCHANGED <<platform, host, caller, session, env, mons>>
        /\ pc' = after /\ session \in Sessions
    BY <1>2 DEF FirstTick, Types, Slots
  <2> QED BY <2>1, <2>2, <2>3, TickEffect DEF Types, Slots
<1>3. CASE SetEnv
  <2>1. env' \in EnvRec
    BY <1>3 DEF SetEnv, Types, EnvRec
  <2> QED BY <1>3, <2>1 DEF SetEnv, Types
<1>4. CASE Fork
  <2>1. ReadEnv \in MonRec
    <3>1. env \in EnvRec
      BY DEF Types
    <3>2. <<>> \in Seq(Pids \X {"TERM", "KILL"})
      OBVIOUS
    <3>3. NoMonitor \in MonRec
      BY <3>2 DEF NoMonitor, NoPids, MonRec
    <3> QED BY <3>1, <3>3 DEF ReadEnv, MonRec, EnvRec
  <2>2. mons' \in [Sessions -> MonRec] /\ session \in Sessions
    BY <1>4, <2>1 DEF Fork, Types
  <2>3. env' \in EnvRec
    BY <1>4 DEF Fork, clear_orphan_monitor_env, NoEnv, NoPids, EnvRec
  <2> QED BY <1>4, <2>2, <2>3 DEF Fork, Types
<1>5. ASSUME NEW s \in Slots, MonitorTick(s) PROVE Types'
  BY <1>5, TickEffect DEF MonitorTick, Types
<1>6. CASE Join
  BY <1>6, AfterType DEF Join, DeathSignal, Sent, Types
<1>7. CASE StopJob
  BY <1>7, AfterType DEF StopJob, TerminateJob, Sent, Types
<1>8. CASE StopKill
  BY <1>8 DEF StopKill, Forget, NoPids, Sent, Types
<1>9. ASSUME NEW n \in Sessions, Wake(n) PROVE Types'
  <2>1. mons[n] \in MonRec
    BY DEF Types
  <2>2. SignalsTo(mons[n].pids["agent"]) \o SignalsTo(mons[n].pids["trace"])
          \in Seq(Pids \X {"TERM", "KILL"})
    BY <2>1, TodoType DEF MonRec, Slots
  <2>3. mons' \in [Sessions -> MonRec]
    BY <1>9, <2>1, <2>2 DEF Wake, Types, MonRec
  <2> QED BY <1>9, <2>3 DEF Wake, Types
<1>10. ASSUME NEW n \in Sessions, Clean(n) PROVE Types'
  <2>1. mons[n] \in MonRec
    BY DEF Types
  <2>2. CASE mons[n].todo = <<>>
    <3>1. mons' \in [Sessions -> MonRec]
      <4>1. PICK r : r = [mons[n] EXCEPT !.at = "gone"]
        OBVIOUS
      <4>2. r \in MonRec
        BY <2>1, <4>1 DEF MonRec
      <4>3. mons' = [mons EXCEPT ![n] = r]
        BY <1>10, <2>2, <4>1 DEF Clean
      <4> QED BY <4>2, <4>3 DEF Types
    <3> QED BY <1>10, <2>2, <3>1 DEF Clean, Types
  <2>3. CASE mons[n].todo # <<>>
    <3>1. /\ Head(mons[n].todo) \in Pids \X {"TERM", "KILL"}
          /\ Tail(mons[n].todo) \in Seq(Pids \X {"TERM", "KILL"})
      BY <2>1, <2>3, HeadTailProperties DEF MonRec
    <3>2. mons' \in [Sessions -> MonRec]
      <4>1. PICK r : r = [mons[n] EXCEPT !.todo = Tail(mons[n].todo)]
        OBVIOUS
      <4>2. r \in MonRec
        BY <2>1, <3>1, <4>1 DEF MonRec
      <4>3. mons' = [mons EXCEPT ![n] = r]
        BY <1>10, <2>3, <4>1 DEF Clean
      <4> QED BY <4>2, <4>3 DEF Types
    <3>3. sent' \in [Pids -> Sent]
      BY <1>10, <2>3, <3>1, AfterType DEF Clean, Sent
    <3> QED BY <1>10, <2>3, <3>2, <3>3 DEF Clean, Types
  <2> QED BY <2>2, <2>3
<1>11. CASE CallerExits
  BY <1>11, AfterType DEF CallerExits, DeathSignal, Sent, Types
<1>12. CASE HostDies
  <2>1. sent' \in [Pids -> Sent]
    BY <1>12, AfterType DEF HostDies, TerminateJob, Sent, Types, Platforms
  <2>2. env' \in EnvRec /\ slot' \in [Slots -> Pids \cup {None}]
    BY <1>12 DEF HostDies, NoEnv, NoPids, EnvRec
  <2>3. proc' \in [Pids -> Slots \cup {"free", "dead", "other"}]
    BY <1>12 DEF HostDies, Collected, Types
  <2> QED BY <1>12, <2>1, <2>2, <2>3 DEF HostDies, Types
<1>13. CASE HostPid
  BY <1>13 DEF HostPid, Types
<1>14. ASSUME NEW p \in Pids, Dies(p) PROVE Types'
  BY <1>14 DEF Dies, Forget, Sent, Types
<1>15. ASSUME NEW p \in Pids, Other(p) PROVE Types'
  BY <1>15 DEF Other, Sent, Types
<1> QED BY <1>1, <1>2, <1>3, <1>4, <1>5, <1>6, <1>7, <1>8, <1>9, <1>10, <1>11, <1>12, <1>13,
           <1>14, <1>15 DEF Next, OrphanMonitor, AfterTicks, Slots

\* A step keeps EnvInv, FirstInv, LaterInv and GivenOwn.
LEMMA OwnNext == ASSUME IInv, Next PROVE EnvInv' /\ FirstInv' /\ LaterInv' /\ GivenOwn'
<1> USE ContainmentAssumption DEF IInv, Types, EnvInv, FirstInv, LaterInv, GivenOwn, Sessions,
        Slots, Forking, host_vars, proc_vars, mon_vars
<1>1. CASE Start
  BY <1>1 DEF Start
<1>2. CASE FirstTick("agent", "trace")
  <2>1. Tick("agent", "caller") /\ session \in Sessions /\ mons[session].at = "none"
    BY <1>2 DEF FirstTick
  <2>2. /\ pc' = "trace" /\ pc = "agent" /\ UNCHANGED <<platform, session, env, mons>>
        /\ \A n \in Sessions : n # session => first'[n] = first[n]
        /\ platform = "bsd" => first'[session]["agent"] = slot'["agent"]
    BY <1>2, <2>1 DEF FirstTick
  <2> QED BY <2>1, <2>2
<1>3. CASE FirstTick("trace", AfterTicks)
  <2>1. Tick("trace", "caller") /\ session \in Sessions /\ mons[session].at = "none"
    BY <1>3 DEF FirstTick
  <2>2. slot' \in [Slots -> Pids \cup {None}] /\ slot'["agent"] = slot["agent"]
    BY <2>1, TickEffect
  <2>3. /\ pc' = IF platform = "bsd" THEN "setenv" ELSE "on"
        /\ pc = "trace" /\ UNCHANGED <<platform, session, env, mons>>
        /\ \A n \in Sessions : n # session => first'[n] = first[n]
        /\ platform = "bsd" => /\ first'[session]["agent"] = slot'["agent"]
                               /\ first'[session]["trace"] = slot'["trace"]
    BY <1>3, <2>1, <2>2 DEF FirstTick, AfterTicks
  <2> QED BY <2>1, <2>3
<1>4. CASE SetEnv
  <2>1. env'.pids = slot /\ env'.parent
    BY <1>4 DEF SetEnv, NoEnv, NoPids
  <2> QED BY <1>4, <2>1 DEF SetEnv
<1>5. CASE Fork
  <2>1. first[session] = slot
    BY <1>5 DEF Fork
  <2>2. mons' = mons \/ mons' = [mons EXCEPT ![session] = ReadEnv]
    BY <1>5 DEF Fork
  <2>3. ReadEnv.pids = slot
    BY <1>5 DEF Fork, ReadEnv, NoMonitor
  <2>4. \A n \in Sessions : mons'[n] = mons[n] \/ (n = session /\ mons'[n] = ReadEnv)
    BY <2>2
  <2>5. UNCHANGED <<first, session, platform, slot>> /\ pc' = "on" /\ env' = NoEnv
    BY <1>5 DEF Fork, clear_orphan_monitor_env
  <2>6. GivenOwn'
    BY <2>1, <2>3, <2>4, <2>5
  <2>7. LaterInv'
    BY <2>4, <2>5
  <2> QED BY <2>5, <2>6, <2>7
<1>6. ASSUME NEW s \in Slots, MonitorTick(s)
      PROVE  EnvInv' /\ FirstInv' /\ LaterInv' /\ GivenOwn'
  BY <1>6 DEF MonitorTick
<1>7. CASE Join \/ StopJob \/ StopKill
  BY <1>7 DEF Join, StopJob, StopKill
<1>8. ASSUME NEW n \in Sessions, OrphanMonitor(n)
      PROVE  EnvInv' /\ FirstInv' /\ LaterInv' /\ GivenOwn'
  <2>1. mons[n] \in MonRec /\ mons[n].at \in {"watch", "clean"}
    BY <1>8 DEF OrphanMonitor, Wake, Clean
  <2>2. mons'[n].pids = mons[n].pids
    BY <1>8, <2>1 DEF OrphanMonitor, Wake, Clean, MonRec
  <2>3. \A k \in Sessions : k # n => mons'[k] = mons[k]
    BY <1>8 DEF OrphanMonitor, Wake, Clean
  <2>4. UNCHANGED <<platform, pc, session, slot, env, first>>
    BY <1>8 DEF OrphanMonitor, Wake, Clean
  <2>5. GivenOwn'
    <3> SUFFICES ASSUME NEW k \in Sessions, mons'[k].at \in {"watch", "clean"}
                 PROVE  mons'[k].pids = first'[k]
      BY DEF GivenOwn
    <3>1. k = n \/ mons'[k] = mons[k]
      BY <2>3
    <3>2. mons[k].at \in {"watch", "clean"} /\ mons'[k].pids = mons[k].pids
      BY <2>1, <2>2, <3>1
    <3> QED BY <2>4, <3>2 DEF IInv, GivenOwn
  <2>6. LaterInv'
    <3>1. \A k \in Sessions : mons[k].at = "none" => mons'[k] = mons[k]
      BY <2>1, <2>3
    <3> QED BY <2>4, <3>1 DEF IInv, LaterInv
  <2> QED BY <2>4, <2>5, <2>6 DEF IInv, EnvInv, FirstInv
<1>9. CASE CallerExits \/ HostDies \/ HostPid
  BY <1>9 DEF CallerExits, HostDies, HostPid
<1>10. ASSUME NEW p \in Pids, Dies(p) \/ Other(p)
       PROVE  EnvInv' /\ FirstInv' /\ LaterInv' /\ GivenOwn'
  BY <1>10 DEF Dies, Other
<1> QED BY <1>1, <1>2, <1>3, <1>4, <1>5, <1>6, <1>7, <1>8, <1>9, <1>10 DEF Next

\* A step keeps WatchInv and StopInv: every monitor is given the host's pid.
LEMMA WatchNext == ASSUME IInv, Next PROVE WatchInv' /\ StopInv'
<1> USE DEF IInv, Types, WatchInv, StopInv, Sessions, Slots, Forking, host_vars, proc_vars, mon_vars
<1>1. CASE Start \/ SetEnv \/ Join \/ StopJob \/ StopKill \/ CallerExits \/ HostDies \/ HostPid
  BY <1>1 DEF Start, SetEnv, Join, StopJob, StopKill, CallerExits, HostDies, HostPid
<1>2. ASSUME NEW s \in Slots, NEW after \in {"trace", "setenv", "on"},
             FirstTick(s, after) \/ MonitorTick(s)
      PROVE  WatchInv' /\ StopInv'
  BY <1>2 DEF FirstTick, MonitorTick
<1>3. CASE Fork
  <2>1. \A n \in Sessions : mons'[n] = mons[n] \/ mons'[n] = ReadEnv
    BY <1>3 DEF Fork
  <2>2. ReadEnv.at = "watch" /\ ReadEnv.parent = "host" /\ platform = "bsd"
    BY <1>3 DEF Fork, EnvInv, ReadEnv, NoMonitor
  <2> QED BY <1>3, <2>1, <2>2 DEF Fork
<1>4. ASSUME NEW n \in Sessions, OrphanMonitor(n) PROVE WatchInv' /\ StopInv'
  <2>1. mons[n] \in MonRec
    OBVIOUS
  <2>2. \A k \in Sessions : k # n => mons'[k] = mons[k]
    BY <1>4 DEF OrphanMonitor, Wake, Clean
  <2>3. mons'[n].at \in {"clean", "gone"} /\ host # "up" /\ mons[n].at # "none"
    <3>1. CASE Wake(n)
      BY <2>1, <3>1 DEF Wake, ParentGone, MonRec
    <3>2. CASE Clean(n)
      <4>1. mons[n].at = "clean"
        BY <3>2 DEF Clean
      <4>2. CASE mons[n].todo = <<>>
        <5>1. mons'[n] = [mons[n] EXCEPT !.at = "gone"]
          BY <3>2, <4>2 DEF Clean
        <5> QED BY <2>1, <4>1, <5>1 DEF MonRec
      <4>3. CASE mons[n].todo # <<>>
        <5>1. mons'[n] = [mons[n] EXCEPT !.todo = Tail(mons[n].todo)]
          BY <3>2, <4>3 DEF Clean
        <5> QED BY <2>1, <4>1, <5>1 DEF MonRec
      <4> QED BY <4>2, <4>3
    <3> QED BY <1>4, <3>1, <3>2 DEF OrphanMonitor
  <2>4. UNCHANGED <<platform, pc, host>>
    BY <1>4 DEF OrphanMonitor, Wake, Clean
  <2> QED BY <2>2, <2>3, <2>4
<1>5. ASSUME NEW p \in Pids, Dies(p) \/ Other(p) PROVE WatchInv' /\ StopInv'
  BY <1>5 DEF Dies, Other
<1> QED BY <1>1, <1>2, <1>3, <1>4, <1>5 DEF Next, AfterTicks

\* While the host is up, signals come from the kernel's death signal or from a job only.
LEMMA SignalsKept ==
  ASSUME IInv, Next, host' = "up", NEW p \in Pids, sent'[p] \notin {sent[p], "none"}
  PROVE  \/ platform = "linux" /\ (Join \/ CallerExits)
         \/ platform = "windows" /\ StopJob /\ sent'[p] = "KILL"
<1> USE DEF IInv, Types, host_vars, proc_vars, mon_vars
<1>1. CASE Start \/ SetEnv \/ Fork \/ HostDies \/ HostPid
  BY <1>1 DEF Start, SetEnv, Fork, HostDies, HostPid
<1>2. ASSUME NEW s \in Slots, NEW after, FirstTick(s, after) \/ MonitorTick(s) PROVE FALSE
  BY <1>2, TickEffect DEF FirstTick, MonitorTick
<1>3. CASE Join \/ CallerExits
  BY <1>3 DEF Join, CallerExits, DeathSignal, After
<1>4. CASE StopJob
  BY <1>4 DEF StopJob, TerminateJob, After, StopInv
<1>5. CASE StopKill
  BY <1>5 DEF StopKill, Forget
<1>6. ASSUME NEW n \in Sessions, OrphanMonitor(n) PROVE FALSE
  BY <1>6 DEF OrphanMonitor, Wake, Clean, WatchInv
<1>7. ASSUME NEW q \in Pids, Dies(q) \/ Other(q) PROVE FALSE
  BY <1>7 DEF Dies, Forget, Other
<1> QED BY <1>1, <1>2, <1>3, <1>4, <1>5, <1>6, <1>7 DEF Next, Slots

\* A step keeps TodoInv: what is left to do comes from the pids that the monitor has.
LEMMA TodoNext == ASSUME IInv, Next PROVE TodoInv'
<1> USE DEF IInv, Types
<1>1. ASSUME mons' = mons PROVE TodoInv'
  BY <1>1 DEF TodoInv
<1>2. ASSUME NEW n \in Sessions, \A k \in Sessions : k # n => mons'[k] = mons[k],
             mons'[n].at = "clean" =>
               \A i \in 1..Len(mons'[n].todo) :
                 \E s \in Slots : mons'[n].pids[s] = mons'[n].todo[i][1]
      PROVE  TodoInv'
  <2> HIDE DEF IInv, Types
  <2> SUFFICES ASSUME NEW k \in Sessions, mons'[k].at = "clean"
               PROVE  \A i \in 1..Len(mons'[k].todo) :
                        \E s \in Slots : mons'[k].pids[s] = mons'[k].todo[i][1]
    BY DEF TodoInv
  <2>1. CASE k = n
    BY <1>2, <2>1
  <2>2. CASE k # n
    <3>1. mons'[k] = mons[k]
      BY <1>2, <2>2
    <3>2. \A i \in 1..Len(mons[k].todo) : \E s \in Slots : mons[k].pids[s] = mons[k].todo[i][1]
      BY <3>1 DEF IInv, TodoInv
    <3> QED BY <3>1, <3>2
  <2> QED BY <2>1, <2>2
<1>3. CASE Fork
  <2>1. mons' = mons \/ mons' = [mons EXCEPT ![session] = ReadEnv]
    BY <1>3 DEF Fork
  <2>2. session \in Sessions /\ ReadEnv.at = "watch"
    BY <1>3 DEF Fork, ReadEnv, NoMonitor
  <2> QED BY <1>1, <1>2, <2>1, <2>2
<1>4. ASSUME NEW n \in Sessions, Wake(n) PROVE TodoInv'
  <2> DEFINE a == mons[n].pids["agent"]
             t == mons[n].pids["trace"]
  <2>1. mons[n] \in MonRec /\ "agent" \in Slots /\ "trace" \in Slots
    BY DEF Slots
  <2>2. /\ mons'[n].todo = SignalsTo(a) \o SignalsTo(t) /\ mons'[n].pids = mons[n].pids
        /\ \A k \in Sessions : k # n => mons'[k] = mons[k]
    BY <1>4, <2>1 DEF Wake, MonRec
  <2>3. \A i \in 1..Len(SignalsTo(a) \o SignalsTo(t)) : (SignalsTo(a) \o SignalsTo(t))[i][1] \in {a, t}
    BY SignalsNamed
  <2> HIDE DEF IInv, Types
  <2>4. \A i \in 1..Len(mons'[n].todo) : \E s \in Slots : mons'[n].pids[s] = mons'[n].todo[i][1]
    BY <2>1, <2>2, <2>3
  <2> QED BY <1>2, <2>2, <2>4
<1>5. ASSUME NEW n \in Sessions, Clean(n) PROVE TodoInv'
  <2>1. mons[n] \in MonRec /\ mons[n].at = "clean"
    BY <1>5 DEF Clean
  <2>2. CASE mons[n].todo = <<>>
    <3>1. mons' = [mons EXCEPT ![n].at = "gone"]
      BY <1>5, <2>2 DEF Clean
    <3>2. mons'[n].at = "gone" /\ \A k \in Sessions : k # n => mons'[k] = mons[k]
      BY <2>1, <3>1 DEF MonRec
    <3> QED BY <1>2, <3>2
  <2>3. CASE mons[n].todo # <<>>
    <3> DEFINE todo == mons[n].todo
    <3>1. mons' = [mons EXCEPT ![n].todo = Tail(todo)]
      BY <1>5, <2>3 DEF Clean
    <3>2. /\ mons'[n].todo = Tail(todo) /\ mons'[n].pids = mons[n].pids
          /\ \A k \in Sessions : k # n => mons'[k] = mons[k]
      BY <2>1, <3>1 DEF MonRec
    <3>3. todo \in Seq(Pids \X {"TERM", "KILL"})
      BY <2>1 DEF MonRec
    <3>4. \A i \in 1..Len(todo) : \E s \in Slots : mons[n].pids[s] = todo[i][1]
      BY <2>1 DEF TodoInv
    <3>5. \A i \in 1..Len(Tail(todo)) : i + 1 \in 1..Len(todo) /\ Tail(todo)[i] = todo[i + 1]
      BY <2>3, <3>3, HeadTailProperties
    <3> HIDE DEF IInv, Types, todo
    <3>6. \A i \in 1..Len(mons'[n].todo) : \E s \in Slots : mons'[n].pids[s] = mons'[n].todo[i][1]
      BY <3>2, <3>4, <3>5
    <3> QED BY <1>2, <3>2, <3>6
  <2> QED BY <2>2, <2>3
<1>6. ASSUME NEW s \in Slots, NEW after, FirstTick(s, after) \/ MonitorTick(s) PROVE TodoInv'
  BY <1>1, <1>6 DEF FirstTick, MonitorTick, mon_vars
<1>7. ASSUME NEW p \in Pids, Dies(p) \/ Other(p) PROVE TodoInv'
  BY <1>1, <1>7 DEF Dies, Other, mon_vars
<1>8. CASE Start \/ SetEnv \/ Join \/ StopJob \/ StopKill \/ CallerExits \/ HostDies \/ HostPid
  BY <1>1, <1>8 DEF Start, SetEnv, Join, StopJob, StopKill, CallerExits, HostDies, HostPid, mon_vars
<1> QED BY <1>3, <1>4, <1>5, <1>6, <1>7, <1>8 DEF Next, OrphanMonitor, Slots

\* A step keeps TiedInv: a child that ends is forgotten.
LEMMA TiedNext == ASSUME IInv, Next PROVE TiedInv'
<1> USE DEF IInv, Types, TiedInv
<1>1. ASSUME tied' = tied, \A p \in Pids : Alive(p) => Alive(p)' PROVE TiedInv'
  BY <1>1
<1>2. ASSUME NEW s \in Slots, NEW thread \in {"caller", "monitor"}, Tick(s, thread) PROVE TiedInv'
  <2>1. /\ \A p \in Pids : Alive(p) => Alive(p)'
        /\ \A p \in Pids : p \in tied' => p \in tied \/ Alive(p)'
        /\ tied' \in SUBSET Pids
    BY <1>2, TickEffect
  <2> QED BY <2>1
<1>3. ASSUME NEW s \in Slots, NEW after, FirstTick(s, after) \/ MonitorTick(s) PROVE TiedInv'
  <2>1. PICK thread \in {"caller", "monitor"} : Tick(s, thread)
    BY <1>3 DEF FirstTick, MonitorTick
  <2> HIDE DEF IInv, Types, TiedInv
  <2> QED BY <1>2, <2>1
<1>4. CASE Start \/ HostDies
  <2>1. tied' = tied /\ proc' = Collected
    BY <1>4 DEF Start, HostDies
  <2>2. \A p \in Pids : Alive(p) => Alive(p)'
    BY <2>1 DEF Collected, Alive, Slots
  <2> QED BY <1>1, <2>1, <2>2
<1>5. CASE SetEnv \/ Fork \/ Join \/ StopJob \/ CallerExits \/ HostPid
  BY <1>1, <1>5 DEF SetEnv, Fork, Join, StopJob, CallerExits, HostPid, proc_vars, Alive
<1>6. CASE StopKill
  BY <1>6 DEF StopKill, Forget, Alive
<1>7. ASSUME NEW n \in Sessions, OrphanMonitor(n) PROVE TiedInv'
  BY <1>1, <1>7 DEF OrphanMonitor, Wake, Clean, proc_vars, Alive
<1>8. ASSUME NEW q \in Pids, Dies(q) PROVE TiedInv'
  BY <1>8 DEF Dies, Forget, Alive
<1>9. ASSUME NEW q \in Pids, Other(q) PROVE TiedInv'
  <2>1. tied' = tied /\ \A p \in Pids : Alive(p) => Alive(p)'
    BY <1>9 DEF Other, Alive, Slots
  <2> QED BY <1>1, <2>1
<1> HIDE DEF IInv, Types, TiedInv
<1> QED BY <1>3, <1>4, <1>5, <1>6, <1>7, <1>8, <1>9 DEF Next, Slots

\* A step keeps StrangersInv: the kernel, the job and stop() signal children only.
LEMMA StrangersNext == ASSUME IInv, Next PROVE StrangersInv'
<1> USE DEF IInv, Types, host_vars, proc_vars, mon_vars
<1> SUFFICES ASSUME NEW p \in Pids, proc'[p] = "other", sent'[p] # "none"
             PROVE  StruckByMonitor(p)'
  BY DEF StrangersInv
<1>1. ASSUME proc[p] = "other", sent'[p] = sent[p], UNCHANGED <<platform, mons>>,
             host = "up" \/ host' # "up"
      PROVE  StruckByMonitor(p)'
  BY <1>1 DEF StrangersInv, StruckByMonitor
<1>2. ASSUME NEW sig, NEW targets \in SUBSET tied, sent' = After(targets, sig), proc[p] = "other"
      PROVE  sent'[p] = sent[p]
  <2>1. p \notin targets
    BY <1>2 DEF TiedInv, Alive, Slots
  <2> QED BY <1>2, <2>1 DEF After
<1>3. host = "up" \/ host' # "up"
  BY DEF Next, Start, FirstTick, SetEnv, Fork, MonitorTick, Join, StopJob, StopKill,
     OrphanMonitor, Wake, Clean, CallerExits, HostDies, HostPid, Dies, Other
<1>4. ASSUME Start \/ SetEnv PROVE StruckByMonitor(p)'
  <2>1. proc[p] = "other"
    BY <1>4 DEF Start, SetEnv, Collected
  <2> QED BY <1>1, <1>3, <1>4, <2>1 DEF Start, SetEnv
<1>5. ASSUME Fork PROVE StruckByMonitor(p)'
  <2>1. sent' = sent /\ proc' = proc /\ host = "up"
    BY <1>5 DEF Fork
  <2> QED BY <2>1 DEF StrangersInv, StruckByMonitor
<1>6. ASSUME NEW s \in Slots, NEW after, FirstTick(s, after) \/ MonitorTick(s)
      PROVE  StruckByMonitor(p)'
  <2>1. PICK thread \in {"caller", "monitor"} : Tick(s, thread)
    BY <1>6 DEF FirstTick, MonitorTick
  <2>2. proc[p] = "other" /\ sent' = sent
    BY <2>1, TickEffect
  <2> QED BY <1>1, <1>3, <1>6, <2>2 DEF FirstTick, MonitorTick
<1>7. ASSUME Join \/ CallerExits PROVE StruckByMonitor(p)'
  <2>1. proc' = proc /\ UNCHANGED <<platform, mons>>
    BY <1>7 DEF Join, CallerExits
  <2>2. sent'[p] = sent[p]
    BY <1>2, <1>7, <2>1 DEF Join, CallerExits, DeathSignal
  <2> QED BY <1>1, <1>3, <2>1, <2>2
<1>8. ASSUME StopJob \/ HostDies PROVE StruckByMonitor(p)'
  <2>1. proc[p] = "other" /\ UNCHANGED <<platform, mons>>
    BY <1>8 DEF StopJob, HostDies, Collected
  <2>2. sent' = sent \/ sent' = After(tied, "KILL") \/ sent' = After(tied, "TERM")
    BY <1>8 DEF StopJob, HostDies, TerminateJob, Platforms
  <2>3. sent'[p] = sent[p]
    BY <1>2, <2>1, <2>2
  <2> QED BY <1>1, <1>3, <2>1, <2>3
<1>9. ASSUME StopKill PROVE StruckByMonitor(p)'
  <2>1. proc[p] = "other" /\ sent'[p] = sent[p] /\ UNCHANGED <<platform, mons>>
    BY <1>9 DEF StopKill, Forget
  <2> QED BY <1>1, <1>3, <2>1
<1>10. ASSUME NEW n \in Sessions, Wake(n) PROVE StruckByMonitor(p)'
  <2>1. mons[n] \in MonRec /\ mons[n].at = "watch" /\ UNCHANGED <<platform, host, proc, sent>>
    BY <1>10 DEF Wake
  <2>2. /\ \A k \in Sessions : k # n => mons'[k] = mons[k]
        /\ host = host'
    BY <1>10 DEF Wake
  <2>3. StruckByMonitor(p)
    BY <2>1 DEF StrangersInv
  <2>4. PICK k \in Sessions : mons[k].at \in {"clean", "gone"} /\ \E s \in Slots : mons[k].pids[s] = p
    BY <2>3 DEF StruckByMonitor
  <2>5. mons'[k] = mons[k]
    BY <2>1, <2>2, <2>4
  <2> QED BY <2>1, <2>3, <2>4, <2>5 DEF StruckByMonitor
<1>11. ASSUME NEW n \in Sessions, Clean(n) PROVE StruckByMonitor(p)'
  <2>1. /\ mons[n] \in MonRec /\ mons[n].at = "clean" /\ UNCHANGED <<platform, host, proc>>
        /\ platform = "bsd" /\ host # "up"
    BY <1>11 DEF Clean, WatchInv
  <2>2. /\ \A k \in Sessions : k # n => mons'[k] = mons[k]
        /\ mons'[n].at \in {"clean", "gone"} /\ mons'[n].pids = mons[n].pids
    <3>1. CASE mons[n].todo = <<>>
      <4>1. mons' = [mons EXCEPT ![n].at = "gone"]
        BY <1>11, <3>1 DEF Clean
      <4> QED BY <2>1, <4>1 DEF MonRec
    <3>2. CASE mons[n].todo # <<>>
      <4>1. mons' = [mons EXCEPT ![n].todo = Tail(mons[n].todo)]
        BY <1>11, <3>2 DEF Clean
      <4> QED BY <2>1, <4>1 DEF MonRec
    <3> QED BY <3>1, <3>2
  <2>3. CASE sent'[p] = sent[p]
    <3>1. StruckByMonitor(p)
      BY <2>1, <2>3 DEF StrangersInv
    <3>2. PICK k \in Sessions :
            mons[k].at \in {"clean", "gone"} /\ \E s \in Slots : mons[k].pids[s] = p
      BY <3>1 DEF StruckByMonitor
    <3>3. mons'[k].at \in {"clean", "gone"} /\ mons'[k].pids = mons[k].pids
      BY <2>2, <3>2
    <3> QED BY <2>1, <3>2, <3>3 DEF StruckByMonitor
  <2>4. CASE sent'[p] # sent[p]
    <3>1. mons[n].todo # <<>> /\ sent' = After({Head(mons[n].todo)[1]}, Head(mons[n].todo)[2])
      BY <1>11, <2>4 DEF Clean
    <3>2. p = Head(mons[n].todo)[1]
      BY <2>4, <3>1 DEF After
    <3>3. mons[n].todo \in Seq(Pids \X {"TERM", "KILL"})
      BY <2>1 DEF MonRec
    <3>4. 1 \in 1..Len(mons[n].todo) /\ Head(mons[n].todo) = mons[n].todo[1]
      BY <3>1, <3>3, HeadTailProperties, EmptySeq
    <3>5. \E s \in Slots : mons[n].pids[s] = p
      BY <2>1, <3>2, <3>4 DEF TodoInv
    <3> QED BY <2>1, <2>2, <3>5 DEF StruckByMonitor
  <2> QED BY <2>3, <2>4
<1>12. ASSUME HostPid PROVE StruckByMonitor(p)'
  BY <1>1, <1>3, <1>12 DEF HostPid
<1>13. ASSUME NEW q \in Pids, Dies(q) PROVE StruckByMonitor(p)'
  <2>1. q # p
    BY <1>13 DEF Dies
  <2>2. proc[p] = "other" /\ sent'[p] = sent[p]
    BY <1>13, <2>1 DEF Dies, Forget
  <2> QED BY <1>1, <1>3, <1>13, <2>2 DEF Dies
<1>14. ASSUME NEW q \in Pids, Other(q) PROVE StruckByMonitor(p)'
  <2>1. q # p /\ sent'[p] = sent[p]
    BY <1>14 DEF Other
  <2>2. proc[p] = "other"
    BY <1>14, <2>1 DEF Other
  <2> QED BY <1>1, <1>3, <1>14, <2>1, <2>2 DEF Other
<1> HIDE DEF IInv, Types
<1> QED BY <1>4, <1>5, <1>6, <1>7, <1>8, <1>9, <1>10, <1>11, <1>12, <1>13, <1>14
        DEF Next, OrphanMonitor, Slots

\* A step keeps HeldInv: whoever leaves its slot alive is gone, goes with the job or was not in it.
LEMMA HeldNext == ASSUME IInv, Next PROVE HeldInv'
<1> USE DEF IInv, Types, host_vars, proc_vars, mon_vars
<1> DEFINE Left(p) == platform = "windows" /\ (sent[p] = "KILL" \/ p \notin tied)
<1> SUFFICES ASSUME host' = "up", NEW p \in Pids, Alive(p)'
             PROVE  (\E s \in Slots : slot'[s] = p) \/ Left(p)'
  BY DEF HeldInv
<1> DEFINE Held == (\E s \in Slots : slot'[s] = p) \/ Left(p)'
<1>1. platform' = platform /\ host = "up"
  BY DEF Next, Start, FirstTick, SetEnv, Fork, MonitorTick, Join, StopJob, StopKill,
     OrphanMonitor, Wake, Clean, CallerExits, HostDies, HostPid, Dies, Other
<1>2. ASSUME Alive(p), \A s \in Slots : slot[s] = p => slot'[s] = p, p \in tied' => p \in tied,
             sent'[p] = sent[p] \/ sent'[p] = "KILL" \/ platform # "windows"
      PROVE  Held
  BY <1>1, <1>2 DEF HeldInv
<1>3. ASSUME Start PROVE Held
  <2>1. Alive(p) /\ pc = "off" /\ UNCHANGED <<tied, sent>>
    BY <1>3 DEF Start, Collected, Alive, Slots
  <2> QED BY <1>1, <2>1 DEF StopLeavesNone
<1>4. ASSUME SetEnv \/ Fork PROVE Held
  BY <1>2, <1>4 DEF SetEnv, Fork, Alive
<1>5. ASSUME NEW s \in Slots, NEW thread \in {"caller", "monitor"}, Tick(s, thread) PROVE Held
  <2>1. Alive(p) \/ slot'[s] = p
    BY <1>5, TickEffect
  <2>2. ASSUME NEW r \in Slots, slot[r] = p PROVE slot'[r] = p
    BY <1>5, <2>2, TickEffect
  <2>3. sent' = sent /\ (Alive(p) => (p \in tied' => p \in tied))
    BY <1>5, TickEffect
  <2> HIDE DEF Held, IInv, Types
  <2>4. CASE Alive(p)
    BY <1>2, <2>2, <2>3, <2>4
  <2>5. CASE slot'[s] = p
    BY <2>5 DEF Held
  <2> QED BY <2>1, <2>4, <2>5
<1>6. ASSUME Join \/ CallerExits PROVE Held
  <2>1. sent'[p] = sent[p] \/ platform # "windows"
    BY <1>6 DEF Join, CallerExits, DeathSignal, After
  <2> QED BY <1>2, <1>6, <2>1 DEF Join, CallerExits, Alive
<1>7. ASSUME StopJob PROVE Held
  <2>1. sent'[p] = sent[p] \/ sent'[p] = "KILL"
    BY <1>7 DEF StopJob, TerminateJob, After
  <2> QED BY <1>2, <1>7, <2>1 DEF StopJob, Alive
<1>8. ASSUME StopKill PROVE Held
  <2>1. \A s \in Slots : slot[s] # p
    BY <1>8 DEF StopKill, Alive, Slots
  <2>2. Alive(p) /\ sent'[p] = sent[p] /\ (p \in tied' => p \in tied)
    BY <1>8, <2>1 DEF StopKill, Forget, Alive
  <2> QED BY <1>2, <2>1, <2>2
<1>9. ASSUME \E n \in Sessions : OrphanMonitor(n) PROVE Held
  BY <1>1, <1>2, <1>9 DEF OrphanMonitor, Wake, Clean, WatchInv, Alive
<1>10. ASSUME HostDies \/ HostPid PROVE Held
  BY <1>1, <1>10 DEF HostDies, HostPid
<1>11. ASSUME NEW q \in Pids, Dies(q) PROVE Held
  <2>1. q # p /\ Alive(p) /\ sent'[p] = sent[p] /\ slot' = slot /\ tied' \subseteq tied
    BY <1>11 DEF Dies, Forget, Alive, Slots
  <2> QED BY <1>2, <2>1
<1>12. ASSUME NEW q \in Pids, Other(q) PROVE Held
  <2>1. q # p /\ Alive(p) /\ UNCHANGED <<slot, tied>>
    BY <1>12 DEF Other, Alive, Slots
  <2>2. sent'[p] = sent[p]
    BY <1>12, <2>1 DEF Other
  <2> QED BY <1>2, <2>1, <2>2
<1> HIDE DEF Held, IInv, Types
<1>13. ASSUME NEW s \in Slots, NEW after, FirstTick(s, after) \/ MonitorTick(s) PROVE Held
  <2>1. PICK thread \in {"caller", "monitor"} : Tick(s, thread)
    BY <1>13 DEF FirstTick, MonitorTick
  <2> QED BY <1>5, <2>1
<1>14. Held
  <2>1. "agent" \in Slots /\ "trace" \in Slots
    BY DEF Slots
  <2> QED BY <1>3, <1>4, <1>6, <1>7, <1>8, <1>9, <1>10, <1>11, <1>12, <1>13, <2>1 DEF Next
<1> QED BY <1>14 DEF Held

\* A step keeps StopLeavesNone: stop() ends with what its slots held, or with the job.
LEMMA OffNext == ASSUME IInv, Next PROVE StopLeavesNone'
<1> USE DEF IInv, Types, host_vars, proc_vars, mon_vars
<1> SUFFICES ASSUME host' = "up", pc' = "off", NEW p \in Pids, Alive(p)'
             PROVE  platform' = "windows" /\ (sent'[p] = "KILL" \/ p \notin tied')
  BY DEF StopLeavesNone
<1>1. platform' = platform /\ host = "up"
  BY DEF Next, Start, FirstTick, SetEnv, Fork, MonitorTick, Join, StopJob, StopKill,
     OrphanMonitor, Wake, Clean, CallerExits, HostDies, HostPid, Dies, Other
<1>2. CASE StopJob
  <2>1. Alive(p) /\ platform = "windows" /\ sent' = After(tied, "KILL") /\ tied' = tied
    BY <1>2 DEF StopJob, TerminateJob, StopInv, Alive
  <2> QED BY <1>1, <2>1 DEF After
<1>3. CASE StopKill
  <2>1. \A s \in Slots : slot[s] # p
    BY <1>3 DEF StopKill, Alive, Slots
  <2>2. Alive(p) /\ sent'[p] = sent[p] /\ (p \in tied' => p \in tied)
    BY <1>3, <2>1 DEF StopKill, Forget, Alive
  <2> QED BY <1>1, <2>1, <2>2 DEF HeldInv
<1>4. CASE CallerExits
  <2>1. Alive(p) /\ pc = "off" /\ tied' = tied
    BY <1>4 DEF CallerExits, Alive
  <2>2. platform = "windows" => sent'[p] = sent[p]
    BY <1>4 DEF CallerExits, DeathSignal, After
  <2> QED BY <1>1, <2>1, <2>2 DEF StopLeavesNone
<1>5. ASSUME NEW q \in Pids, Dies(q)
      PROVE  platform' = "windows" /\ (sent'[p] = "KILL" \/ p \notin tied')
  <2>1. q # p /\ Alive(p) /\ sent'[p] = sent[p] /\ tied' = tied \ {q} /\ pc = "off"
    BY <1>5 DEF Dies, Forget, Alive, Slots
  <2> QED BY <1>1, <2>1 DEF StopLeavesNone
<1>6. ASSUME NEW q \in Pids, Other(q)
      PROVE  platform' = "windows" /\ (sent'[p] = "KILL" \/ p \notin tied')
  <2>1. q # p /\ Alive(p) /\ tied' = tied /\ pc = "off"
    BY <1>6 DEF Other, Alive, Slots
  <2>2. sent'[p] = sent[p]
    BY <1>6, <2>1 DEF Other
  <2> QED BY <1>1, <2>1, <2>2 DEF StopLeavesNone
<1>7. ASSUME NEW n \in Sessions, OrphanMonitor(n) PROVE FALSE
  BY <1>1, <1>7 DEF OrphanMonitor, Wake, Clean, WatchInv, ParentGone
<1> QED BY <1>1, <1>2, <1>3, <1>4, <1>5, <1>6, <1>7 DEF StopLeavesNone, Next, Start, FirstTick, SetEnv,
           Fork, MonitorTick, HostDies, HostPid, Join, AfterTicks

\* The inductive invariant always holds.
LEMMA IInvAlways == Spec => []IInv
<1>1. Init => IInv
  <2> SUFFICES ASSUME Init PROVE IInv
    OBVIOUS
  <2>1. NoMonitor \in MonRec
    <3>1. <<>> \in Seq(Pids \X {"TERM", "KILL"})
      OBVIOUS
    <3> QED BY <3>1 DEF NoMonitor, NoPids, MonRec
  <2>2. Types
    <3>1. NoEnv \in EnvRec
      BY DEF NoEnv, NoPids, EnvRec
    <3>2. NoPids \in [Slots -> Pids \cup {None}]
      BY DEF NoPids
    <3>3. session \in 0..MaxSessions
      BY ContainmentAssumption DEF Init
    <3> QED BY <2>1, <3>1, <3>2, <3>3 DEF Init, Types, Sent
  <2>3. \A p \in Pids : ~Alive(p)
    BY DEF Init, Alive, Slots
  <2>4. \A n \in Sessions : mons[n].at = "none"
    BY DEF Init, NoMonitor
  <2> QED BY <2>2, <2>3, <2>4 DEF Init, IInv, EnvInv, FirstInv, LaterInv, WatchInv, TodoInv, TiedInv,
             GivenOwn, StrangersInv, HeldInv, StopLeavesNone, StopInv, Forking
<1>2. IInv /\ [Next]_vars => IInv'
  <2> SUFFICES ASSUME IInv, [Next]_vars PROVE IInv'
    OBVIOUS
  <2>1. CASE Next
    BY <2>1, TypesNext, OwnNext, WatchNext, TodoNext, TiedNext, StrangersNext, HeldNext, OffNext
       DEF IInv
  <2>2. CASE UNCHANGED vars
    BY <2>2 DEF vars, host_vars, proc_vars, mon_vars, IInv, Types, EnvInv, FirstInv, LaterInv,
       WatchInv, TodoInv, TiedInv, GivenOwn, StrangersInv, StruckByMonitor, HeldInv, StopLeavesNone,
       StopInv, Alive
  <2> QED BY <2>1, <2>2
<1> QED BY <1>1, <1>2, PTL DEF Spec

\* The types of hosts, children and orphan monitors, for any number of pids and sessions.
THEOREM ContainmentTypes == Spec => []TypeOK
<1>1. IInv => TypeOK
  BY DEF IInv, Types, TypeOK, EnvRec, MonRec
<1> QED BY <1>1, IInvAlways, PTL

\* When stop() has returned every child is gone, but on Windows one that has been killed with its
\* job, or that could not be assigned to it, in this session or in an earlier one.
THEOREM StopLeavesNoneAlways == Spec => []StopLeavesNone
<1>1. IInv => StopLeavesNone
  BY DEF IInv
<1> QED BY <1>1, IInvAlways, PTL

\* An orphan monitor knows the children of the start() that forked it and no others, however many
\* sessions and respawns there are: the environment that hands them over does not leak.  A stranger
\* is signalled only by such a monitor, when the host is dead, under the pid of a child of its own.
THEOREM OwnChildrenAlways == Spec => []OwnChildren
<1>1. IInv => OwnChildren
  BY DEF IInv, GivenOwn, StrangersInv, OwnChildren
<1> QED BY <1>1, IInvAlways, PTL

\* In a running session no child is signalled, except on Linux by the end of the thread that had
\* spawned it: neither an orphan monitor of an earlier session nor a job reaches it.
THEOREM UndisturbedAlways == Spec => Undisturbed
<1> DEFINE Quiet == \A s \in Slots :
                      /\ host = "up" /\ pc = "on" /\ host' = "up" /\ pc' = "on"
                      /\ slot[s] # None /\ slot'[s] = slot[s]
                      => LET p == slot[s] IN
                         sent'[p] \notin {sent[p], "none"} =>
                           platform = "linux" /\ caller /\ ~caller'
<1>1. IInv /\ [Next]_vars => [Quiet]_vars
  <2> SUFFICES ASSUME IInv, Next PROVE Quiet
    OBVIOUS
  <2> SUFFICES ASSUME NEW s \in Slots, pc = "on", host' = "up", pc' = "on", slot[s] # None,
                      sent'[slot[s]] \notin {sent[slot[s]], "none"}
               PROVE  platform = "linux" /\ caller /\ ~caller'
    OBVIOUS
  <2>1. slot[s] \in Pids
    BY DEF IInv, Types
  <2>2. ~Join /\ ~StopJob
    BY DEF Join, StopJob
  <2>3. platform = "linux" /\ CallerExits
    BY <2>1, <2>2, SignalsKept
  <2> QED BY <2>3 DEF CallerExits
<1> QED BY <1>1, IInvAlways, PTL DEF Spec, Undisturbed
=============================================================================
