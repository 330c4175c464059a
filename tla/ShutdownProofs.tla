--------------------------- MODULE ShutdownProofs ---------------------------
(***************************************************************************)
(* graceful_kill for a group of any size.  It signals only while it has    *)
(* not collected the child (OwnedInv), and by the time a stage sends       *)
(* SIGKILL an earlier one has sent SIGTERM to the same processes           *)
(* (TermInv): nobody joins the group between the two.                      *)
(***************************************************************************)
EXTENDS Shutdown, TLAPS

\* The child is collected by graceful_kill's own poll only, which ends it.
OwnedInv == ~hostReaps /\ pc # "done" => Present(Leader)

\* Who has had SIGTERM once a stage is over.
TermInv ==
  /\ \A p \in Members : grouped /\ Present(p) /\ (stage > 1 \/ pc = "poll") => "TERM" \in got[p]
  /\ stage > 3 \/ (stage = 3 /\ pc = "poll") => "TERM" \in got[Leader]

\* The inductive invariant.
IInv == TypeOK /\ OwnedInv /\ TermInv /\ Graceful

\* The five stages.
LEMMA StageFacts ==
  /\ Len(Stages) = 5
  /\ \A i \in 1..5 : /\ i \in {1, 2} <=> Stages[i].to = "group"
                     /\ i \in {3, 4, 5} <=> Stages[i].to = "pid"
                     /\ i \in {1, 3} <=> Stages[i].sig = "TERM"
                     /\ i \in {2, 4, 5} <=> Stages[i].sig = "KILL"
                     /\ Stages[i].sig \in Signals
BY DEF Stages, Signals

\* A stage leads to the next one or to the end.
LEMMA StageMoves ==
  ASSUME stage \in 1..5, NextStage
  PROVE  /\ stage' \in 1..5 /\ pc' \in {"send", "done"}
         /\ stage' = stage + 1 \/ (stage' = stage /\ pc' = "done" /\ stage = 5)
BY StageFacts DEF NextStage

\* The inductive invariant holds initially.
LEMMA IInvInit == Init => IInv
<1> SUFFICES ASSUME Init PROVE IInv
  OBVIOUS
<1>1. TypeOK
  <2>1. 1 \in 1..Len(Stages)
    BY StageFacts
  <2>2. got \in [Members -> SUBSET Signals]
    BY DEF Init
  <2> QED BY <2>1, <2>2 DEF Init, TypeOK
<1>2. OwnedInv /\ Graceful
  BY DEF Init, OwnedInv, Graceful, Present
<1>3. TermInv
  BY DEF Init, TermInv
<1> QED BY <1>1, <1>2, <1>3 DEF IInv

\* A stage signals the whole group or the child, and only processes that were told to
\* terminate before are told to die.
LEMMA SendKeeps == ASSUME IInv, Send PROVE IInv'
<1> USE DEF IInv
<1>1. /\ stage \in 1..5 /\ got \in [Members -> SUBSET Signals] /\ Leader \in Members
      /\ st \in [Members -> {"up", "zombie", "gone"}]
  BY StageFacts DEF TypeOK, Members
<1>2. UNCHANGED <<grouped, hostReaps, st, deaf, stuck, terminated>> /\ pc = "send"
  BY DEF Send
<1>3. \A p \in Members : got'[p] = IF p \in Target THEN got[p] \cup {Stages[stage].sig} ELSE got[p]
  BY DEF Send
<1>4. /\ got' \in [Members -> SUBSET Signals] /\ stage' \in 1..5 /\ pc' \in {"send", "poll", "done"}
      /\ (pc' = "poll" /\ stage' = stage /\ Target # {}) \/ (Target = {} /\ NextStage)
  BY <1>1, StageFacts, StageMoves DEF Send
<1>5. TypeOK'
  BY <1>2, <1>4, StageFacts DEF TypeOK
<1>6. OwnedInv'
  BY <1>2 DEF OwnedInv, Present
<1>7. /\ stage \in {3, 4, 5} => Target = {Leader}
      /\ stage \in {1, 2} /\ grouped => Target = {p \in Members : Present(p)}
      /\ stage \in {1, 2} /\ ~grouped => Target = {}
  BY <1>1, StageFacts DEF Target
<1>8. /\ \A p \in Members : stage = 1 /\ grouped /\ Present(p) => "TERM" \in got'[p]
      /\ stage = 3 => "TERM" \in got'[Leader]
      /\ \A p \in Members : "TERM" \in got[p] => "TERM" \in got'[p]
  <2>1. stage \in {1, 3} => Stages[stage].sig = "TERM"
    BY <1>1, StageFacts
  <2>2. \A p \in Members : p \in Target /\ stage \in {1, 3} => "TERM" \in got'[p]
    BY <1>3, <2>1
  <2>3. \A p \in Members : "TERM" \in got[p] => "TERM" \in got'[p]
    BY <1>3
  <2> QED BY <1>1, <1>7, <2>2, <2>3
<1>9. TermInv'
  <2>1. stage' = stage \/ stage' = stage + 1
    BY <1>4, StageMoves, <1>1
  <2>2. \A p \in Members : grouped /\ Present(p) => "TERM" \in got'[p]
    BY <1>1, <1>8 DEF TermInv
  <2>3. stage = 3 \/ stage > 3 => "TERM" \in got'[Leader]
    BY <1>1, <1>8 DEF TermInv
  <2>4. stage' > 3 \/ (stage' = 3 /\ pc' = "poll") => stage = 3 \/ stage > 3
    BY <1>1, <1>4, <2>1, StageMoves
  <2> QED BY <1>2, <2>2, <2>3, <2>4 DEF TermInv, Present
<1>10. Graceful'
  <2> SUFFICES ASSUME NEW p \in Members, "KILL" \in got'[p] PROVE "TERM" \in got'[p]
    BY DEF Graceful
  <2>1. CASE "KILL" \in got[p]
    BY <1>8, <2>1 DEF Graceful
  <2>2. CASE "KILL" \notin got[p]
    <3>1. p \in Target /\ stage \in {2, 4, 5}
      <4>1. p \in Target /\ Stages[stage].sig = "KILL"
        BY <1>3, <2>2
      <4> QED BY <1>1, <4>1, StageFacts
    <3>2. CASE stage = 2
      BY <1>7, <1>8, <3>1, <3>2 DEF TermInv
    <3>3. CASE stage \in {4, 5}
      BY <1>7, <1>8, <3>1, <3>3 DEF TermInv
    <3> QED BY <3>1, <3>2, <3>3
  <2> QED BY <2>1, <2>2
<1> QED BY <1>5, <1>6, <1>9, <1>10

\* Polling sends nothing; it ends with the collection of the child or goes on to a stage.
LEMMA PollKeeps == ASSUME IInv, PollExited \/ PollFails \/ PollTimesOut PROVE IInv'
<1> USE DEF IInv
<1>1. /\ stage \in 1..5 /\ got \in [Members -> SUBSET Signals] /\ Leader \in Members
      /\ st \in [Members -> {"up", "zombie", "gone"}] /\ terminated \in BOOLEAN
  BY StageFacts DEF TypeOK, Members
<1>2. UNCHANGED <<grouped, hostReaps, deaf, stuck, got>> /\ pc = "poll"
  BY DEF PollExited, PollFails, PollTimesOut
<1>3. CASE PollExited
  <2>1. pc' = "done" /\ stage' = stage /\ terminated' = TRUE /\ st' = [st EXCEPT ![Leader] = "gone"]
    BY <1>3 DEF PollExited, Terminated
  <2>2. TypeOK' /\ OwnedInv' /\ Graceful'
    BY <1>1, <1>2, <2>1 DEF TypeOK, OwnedInv, Graceful
  <2>3. \A p \in Members : Present(p)' => Present(p)
    BY <1>1, <2>1 DEF Present
  <2>4. TermInv'
    BY <1>1, <1>2, <2>1, <2>3 DEF TermInv
  <2> QED BY <2>2, <2>4
<1>4. CASE PollFails \/ PollTimesOut
  <2>1. NextStage /\ st' = st /\ terminated' = terminated
    BY <1>4 DEF PollFails, PollTimesOut
  <2>2. stage' \in 1..5 /\ pc' \in {"send", "done"} /\ (stage' = stage + 1 \/ stage' = stage)
    BY <1>1, <2>1, StageMoves
  <2>3. TypeOK'
    BY <1>2, <2>1, <2>2, StageFacts DEF TypeOK
  <2>4. OwnedInv' /\ Graceful'
    BY <1>2, <2>1 DEF OwnedInv, Graceful, Present
  <2>5. TermInv'
    <3>1. \A p \in Members : grouped /\ Present(p) => "TERM" \in got[p]
      BY <1>2 DEF TermInv
    <3>2. stage' > 3 => stage > 3 \/ stage = 3
      BY <1>1, <2>2
    <3>3. stage' > 3 => "TERM" \in got[Leader]
      BY <1>2, <3>2 DEF TermInv
    <3> QED BY <1>2, <2>1, <2>2, <3>1, <3>3 DEF TermInv, Present
  <2> QED BY <2>3, <2>4, <2>5
<1> QED BY <1>3, <1>4

\* Nobody comes back to life, and only a host that collects children takes the child away.
LEMMA OutsideKeeps ==
  ASSUME IInv, HostCollects \/ \E p \in Members : Dies(p) \/ Unsticks(p)
  PROVE  IInv'
<1> USE DEF IInv
<1>1. UNCHANGED <<grouped, hostReaps, deaf, got, stage, pc, terminated>>
  BY DEF HostCollects, Dies, Unsticks
<1>2. /\ st' \in [Members -> {"up", "zombie", "gone"}] /\ stuck' \subseteq Members
      /\ \A p \in Members : Present(p)' => Present(p)
      /\ Present(Leader) /\ ~hostReaps => Present(Leader)'
  <2>1. st \in [Members -> {"up", "zombie", "gone"}] /\ stuck \subseteq Members
    BY DEF TypeOK
  <2>2. CASE HostCollects
    BY <2>1, <2>2 DEF HostCollects, Present
  <2>3. CASE \E p \in Members : Dies(p)
    BY <2>1, <2>3 DEF Dies, Present
  <2>4. CASE \E p \in Members : Unsticks(p)
    BY <2>1, <2>4 DEF Unsticks, Present
  <2> QED BY <2>2, <2>3, <2>4
<1>3. TypeOK' /\ OwnedInv' /\ Graceful'
  BY <1>1, <1>2 DEF TypeOK, OwnedInv, Graceful
<1>4. TermInv'
  BY <1>1, <1>2 DEF TermInv
<1> QED BY <1>3, <1>4

\* The inductive invariant is inductive.
LEMMA IInvNext == IInv /\ [Next]_vars => IInv'
<1> SUFFICES ASSUME IInv, [Next]_vars PROVE IInv'
  OBVIOUS
<1>1. CASE UNCHANGED vars
  BY <1>1 DEF vars, IInv, TypeOK, OwnedInv, TermInv, Graceful, Present
<1> QED BY <1>1, SendKeeps, PollKeeps, OutsideKeeps DEF Next, GracefulKill

\* The inductive invariant always holds.
LEMMA IInvAlways == Spec => []IInv
BY IInvInit, IInvNext, PTL DEF Spec

\* graceful_kill is graceful for a group of any size, with or without a group of its own:
\* whoever gets SIGKILL has got SIGTERM before.
THEOREM GracefulAlways == Spec => []Graceful
<1>1. IInv => Graceful
  BY DEF IInv
<1> QED BY IInvAlways, <1>1, PTL

\* Unless the host collects children itself, no signal is sent after the child's pid has been
\* given back to the system.
THEOREM NoStraySignalAlways == Spec => NoStraySignal
<1> DEFINE Owned == ~hostReaps /\ got' # got => Present(Leader)
<1>1. IInv /\ [Next]_vars => [Owned]_vars
  <2> SUFFICES ASSUME IInv, Next, ~hostReaps, got' # got PROVE Present(Leader)
    OBVIOUS
  <2>1. Send
    BY DEF Next, GracefulKill, PollExited, PollFails, PollTimesOut, HostCollects, Dies, Unsticks
  <2> QED BY <2>1 DEF Send, IInv, OwnedInv
<1> QED BY IInvAlways, <1>1, PTL DEF Spec, NoStraySignal

(***************************************************************************)
(* What graceful_kill reports                                              *)
(***************************************************************************)
\* It reports the child as terminated only once its own poll has collected it, and gives up
\* only behind the last stage, which has sent SIGKILL.
ReportInv ==
  /\ terminated => pc = "done" /\ st[Leader] = "gone"
  /\ stage = 5 /\ pc = "poll" => "KILL" \in got[Leader]
  /\ pc = "done" /\ ~terminated => "KILL" \in got[Leader]

\* The last stage sends SIGKILL to the child, and only it can end the attempt in vain.
LEMMA ReportNext == IInv /\ ReportInv /\ [Next]_vars => ReportInv'
<1> SUFFICES ASSUME IInv, ReportInv, [Next]_vars PROVE ReportInv'
  OBVIOUS
<1>1. /\ stage \in 1..5 /\ Leader \in Members /\ got \in [Members -> SUBSET Signals]
      /\ st \in [Members -> {"up", "zombie", "gone"}]
  BY StageFacts DEF IInv, TypeOK, Members
<1>2. CASE Send
  <2>1. /\ pc = "send" /\ ~terminated /\ terminated' = terminated
        /\ (pc' = "poll" /\ stage' = stage) \/ (Target = {} /\ NextStage)
        /\ \A p \in Target \cap Members : Stages[stage].sig \in got'[p]
    BY <1>2 DEF Send, ReportInv
  <2>2. stage = 5 => Target = {Leader} /\ Stages[stage].sig = "KILL"
    BY <1>1, StageFacts DEF Target
  <2>3. stage = 5 => pc' = "poll" /\ "KILL" \in got'[Leader]
    BY <1>1, <2>1, <2>2
  <2>4. stage # 5 => pc' # "done" /\ ~(stage' = 5 /\ pc' = "poll")
    BY <1>1, <2>1, StageMoves, StageFacts DEF NextStage
  <2> QED BY <1>1, <2>1, <2>3, <2>4 DEF ReportInv
<1>3. CASE PollExited
  BY <1>1, <1>3 DEF PollExited, Terminated, ReportInv
<1>4. CASE PollFails \/ PollTimesOut
  <2>1. /\ pc = "poll" /\ ~terminated /\ terminated' = terminated /\ got' = got /\ NextStage
    BY <1>4 DEF PollFails, PollTimesOut, ReportInv
  <2>2. pc' = "done" => stage = 5
    BY <1>1, <2>1, StageFacts DEF NextStage
  <2> QED BY <1>1, <2>1, <2>2, StageMoves DEF ReportInv
<1>5. CASE HostCollects \/ (\E p \in Members : Dies(p) \/ Unsticks(p)) \/ UNCHANGED vars
  <2>1. UNCHANGED <<got, stage, pc, terminated>>
    BY <1>5 DEF HostCollects, Dies, Unsticks, vars
  <2>2. st[Leader] = "gone" => st'[Leader] = "gone"
    BY <1>1, <1>5 DEF HostCollects, Dies, Unsticks, vars
  <2> QED BY <2>1, <2>2 DEF ReportInv
<1> QED BY <1>2, <1>3, <1>4, <1>5 DEF Next, GracefulKill

\* Every variable keeps its type, the stage within the five of them.
THEOREM ShutdownTypes == Spec => []TypeOK
<1>1. IInv => TypeOK
  BY DEF IInv
<1> QED BY IInvAlways, <1>1, PTL

\* Whichever stage ends it, and whatever the child, its descendants and the host do: a child
\* reported as terminated is gone, and one that is given up has had its SIGKILL.
THEOREM HonestReportAlways == Spec => []HonestReport
<1>1. Init => ReportInv
  BY DEF Init, ReportInv
<1>2. ReportInv => HonestReport
  BY DEF ReportInv, HonestReport, Present
<1> QED BY <1>1, <1>2, IInvAlways, ReportNext, PTL DEF Spec

=============================================================================
