---------------------------- MODULE RespawnProofs ----------------------------
(***************************************************************************)
(* The backoff of Respawn for every initial and longest wait and every     *)
(* interval.  NoEarlyRetry is not inductive: it needs the code's own       *)
(* backoff to be the next documented wait (LadderInv), a deadline and the  *)
(* time since the failure to add up to that wait (DeadlineInv), and a slot *)
(* that holds a child to owe nothing (FreshInv).                           *)
(***************************************************************************)
EXTENDS Respawn, TLAPS

\* agent_backoff_secs is the wait that one more failure will cost.
LadderInv == \A n \in Names : backoff[n] = Documented(owed[n])
\* What is left until next_attempt and what has passed make up the wait that is owed.
DeadlineInv == \A n \in Names :
  owed[n] # 0 => next[n] # None /\ next[n] + age[n] >= owed[n]
\* A child in its slot, alive or dead, owes no wait.
FreshInv == \A n \in Names : child[n] # "none" => owed[n] = 0
\* Nothing is planned before the loop begins, and an attempt is for an empty slot.
PlanInv == /\ pc \in {"tick", "tickspawn"} => \A n \in Names : plan[n] = "no"
           /\ pc = "tickspawn" => child[at] = "none"
           /\ \A n \in Names : plan[n] # "no" => child[n] = "none"

\* What every slot keeps to.
SlotInv == LadderInv /\ DeadlineInv /\ FreshInv
\* The inductive invariant.
IInv == TypeOK /\ SlotInv /\ PlanInv /\ NoEarlyRetry /\ NoOversleep

\* The part of TypeOK about the slots.
SlotTypes == /\ child \in [Names -> {"none", "up", "dead"}]
             /\ backoff \in [Names -> BackoffInitial..BackoffMax]
             /\ next \in [Names -> {None} \cup 0..BackoffMax]
             /\ owed \in [Names -> {0} \cup BackoffInitial..BackoffMax]
             /\ age \in [Names -> 0..BackoffMax]

USE BackoffAssumption, IntervalAssumption, DeadlineAssumption

\* The waits stay between the initial and the longest one.
LEMMA WaitBounds ==
  /\ \A w \in {0} \cup BackoffInitial..BackoffMax : Documented(w) \in BackoffInitial..BackoffMax
  /\ \A b \in BackoffInitial..BackoffMax : Doubled(b) \in BackoffInitial..BackoffMax
  /\ \A w \in {0} \cup BackoffInitial..BackoffMax :
       Doubled(Documented(w)) = Documented(Documented(w))
<1>1. \A w \in {0} \cup BackoffInitial..BackoffMax : Documented(w) \in BackoffInitial..BackoffMax
  BY DEF Documented, Lesser
<1>2. \A b \in BackoffInitial..BackoffMax : Doubled(b) \in BackoffInitial..BackoffMax
  BY DEF Doubled, Lesser
<1>3. \A b \in BackoffInitial..BackoffMax : Doubled(b) = Documented(b)
  BY DEF Doubled, Documented, Lesser
<1> QED BY <1>1, <1>2, <1>3

\* A stopwatch and a deadline stay in their ranges as time passes.
LEMMA ClockBounds ==
  /\ \A k \in 0..BackoffMax : OneMore(k) \in 0..BackoffMax /\ OneMore(k) >= k
  /\ \A a, b \in Nat : Less(a, b) \in Nat /\ Less(a, b) <= a
  /\ \A t \in {None} \cup 0..BackoffMax : Elapse(t) \in {None} \cup 0..BackoffMax
BY DEF OneMore, Lesser, Less, Elapse

\* A success leaves a slot that owes nothing.
LEMMA SuccessKeeps ==
  ASSUME SlotTypes, SlotInv, NEW n \in Names, Success(n)
  PROVE  /\ SlotTypes' /\ SlotInv'
         /\ age' = age /\ owed'[n] = 0 /\ \A k \in Names : k # n => owed'[k] = owed[k]
<1>1. SlotTypes'
  BY DEF SlotTypes, Success
<1>2. age' = age /\ owed'[n] = 0 /\ \A k \in Names : k # n => owed'[k] = owed[k]
  BY DEF SlotTypes, Success
<1>3. \A k \in Names : k # n => /\ child'[k] = child[k] /\ backoff'[k] = backoff[k]
                                /\ next'[k] = next[k]
  BY DEF SlotTypes, Success
<1>4. backoff'[n] = Documented(0)
  BY DEF SlotTypes, Success, Documented
<1>5. SlotInv'
  BY <1>2, <1>3, <1>4 DEF SlotInv, LadderInv, DeadlineInv, FreshInv
<1> QED BY <1>1, <1>2, <1>5

\* A failure leaves a slot that owes the next documented wait.
LEMMA FailureKeeps ==
  ASSUME SlotTypes, SlotInv, NEW n \in Names, NEW t \in 0..BackoffMax, Failure(n, t),
         child[n] = "none"
  PROVE  /\ SlotTypes' /\ SlotInv'
         /\ \A k \in Names : k # n => owed'[k] = owed[k] /\ age'[k] = age[k]
<1>1. /\ backoff[n] = Documented(owed[n]) /\ backoff[n] \in BackoffInitial..BackoffMax
      /\ owed[n] \in {0} \cup BackoffInitial..BackoffMax
  BY DEF SlotTypes, SlotInv, LadderInv
<1>2. Less(backoff[n], t) \in 0..BackoffMax /\ Less(backoff[n], t) + t >= backoff[n]
  BY <1>1 DEF Less
<1>3. SlotTypes'
  BY <1>1, <1>2, WaitBounds DEF SlotTypes, Failure
<1>4. \A k \in Names : k # n => /\ child'[k] = child[k] /\ backoff'[k] = backoff[k]
                                /\ next'[k] = next[k] /\ owed'[k] = owed[k] /\ age'[k] = age[k]
  BY DEF SlotTypes, Failure
<1>5. /\ backoff'[n] = Doubled(backoff[n]) /\ owed'[n] = Documented(owed[n])
      /\ next'[n] = Less(backoff[n], t) /\ age'[n] = t /\ child'[n] = "none"
  BY DEF SlotTypes, Failure
<1>6. backoff'[n] = Documented(owed'[n])
  BY <1>1, <1>5, WaitBounds
<1>7. next'[n] # None /\ next'[n] + age'[n] >= owed'[n]
  BY <1>1, <1>2, <1>5
<1>8. SlotInv'
  BY <1>4, <1>5, <1>6, <1>7 DEF SlotInv, LadderInv, DeadlineInv, FreshInv
<1> QED BY <1>3, <1>4, <1>8

\* Collecting a dead child leaves a slot that owes nothing.
LEMMA ReapKeeps ==
  ASSUME SlotTypes, SlotInv, NEW n \in Names, Reap(n), UNCHANGED <<backoff, next, history>>
  PROVE  /\ SlotTypes' /\ SlotInv' /\ owed' = owed /\ age' = age
         /\ child[n] # "up" => child'[n] = "none"
<1>1. owed' = owed /\ age' = age /\ backoff' = backoff /\ next' = next
  BY DEF history
<1>2. SlotTypes'
  BY <1>1 DEF SlotTypes, Reap
<1>3. \A k \in Names : child'[k] = child[k] \/ child'[k] = "none"
  BY DEF SlotTypes, Reap
<1>4. SlotInv'
  BY <1>1, <1>3 DEF SlotInv, LadderInv, DeadlineInv, FreshInv
<1>5. child[n] # "up" => child'[n] = "none"
  BY DEF SlotTypes, Reap
<1> QED BY <1>1, <1>2, <1>4, <1>5

\* The inductive invariant holds initially.
LEMMA IInvInit == Init => IInv
<1> SUFFICES ASSUME Init PROVE IInv
  OBVIOUS
<1>1. TypeOK /\ SlotInv
  BY DEF Init, TypeOK, SlotInv, LadderInv, DeadlineInv, FreshInv, Documented, Names
<1>2. PlanInv /\ NoEarlyRetry /\ NoOversleep
  BY DEF Init, PlanInv, NoEarlyRetry, NoOversleep, Attempting
<1> QED BY <1>1, <1>2 DEF IInv

\* What TypeOK says besides SlotTypes.
LoopTypes == /\ running \in BOOLEAN /\ taken \subseteq Names
             /\ pc \in {"tick", "tickspawn", "top", "check", "recheck", "commit", "sleep",
                        "wait", "done"}
             /\ at \in Names
             /\ plan \in [Names -> {"no", "want", "ok", "err"}]
             /\ sleep \in 0..Interval
             /\ spent \in 0..BackoffMax

\* The two halves of the type invariant, before and after a step.
LEMMA TypeSplit == /\ TypeOK <=> SlotTypes /\ LoopTypes
                   /\ TypeOK' <=> SlotTypes' /\ LoopTypes'
BY DEF TypeOK, SlotTypes, LoopTypes

\* start() decides on an attempt only for a slot that owes nothing: no backoff is pending.
LEMMA StartTickKeeps == ASSUME IInv, StartTick PROVE IInv'
<1>1. SlotTypes /\ LoopTypes /\ SlotInv /\ PlanInv
  BY TypeSplit DEF IInv
<1>2. /\ SlotTypes' /\ SlotInv' /\ owed' = owed /\ age' = age
      /\ child[at] # "up" => child'[at] = "none"
  BY <1>1, ReapKeeps DEF StartTick, LoopTypes
<1>3. LoopTypes'
  BY <1>1 DEF StartTick, LoopTypes, Advance, Names
<1>4. PlanInv'
  BY <1>1, <1>2 DEF StartTick, PlanInv, Advance, ShouldAttempt
<1>5. NoEarlyRetry'
  <2>1. pc' = "tickspawn" => BackoffOver(at) /\ at' = at
    BY DEF StartTick, Advance, ShouldAttempt
  <2>2. pc' = "tickspawn" => age'[at] >= owed[at]
    BY <1>1, <1>2, <2>1 DEF SlotInv, DeadlineInv, BackoffOver, SlotTypes, LoopTypes, StartTick
  <2> QED BY <1>1, <1>2, <2>1, <2>2 DEF StartTick, NoEarlyRetry, Attempting, PlanInv, LoopTypes
<1>6. NoOversleep'
  BY DEF StartTick, NoOversleep, Advance
<1> QED BY <1>2, <1>3, <1>4, <1>5, <1>6, TypeSplit DEF IInv

\* The attempt of start() ends as a success or as a failure.
LEMMA StartSpawnKeeps == ASSUME IInv, StartSpawn PROVE IInv'
<1>1. SlotTypes /\ LoopTypes /\ SlotInv /\ PlanInv /\ pc = "tickspawn"
  BY TypeSplit DEF IInv, StartSpawn
<1>2. SlotTypes' /\ SlotInv'
  BY <1>1, SuccessKeeps, FailureKeeps DEF StartSpawn, LoopTypes, PlanInv
<1>3. LoopTypes' /\ pc' \in {"tick", "top"} /\ plan' = plan
  BY <1>1 DEF StartSpawn, LoopTypes, Advance, Names
<1>4. PlanInv' /\ NoEarlyRetry' /\ NoOversleep'
  BY <1>1, <1>3 DEF PlanInv, NoEarlyRetry, NoOversleep, Attempting
<1> QED BY <1>2, <1>3, <1>4, TypeSplit DEF IInv

\* The monitor plans an attempt only when the deadline that backs the wait has passed.
LEMMA MonCheckKeeps == ASSUME IInv, MonCheck PROVE IInv'
<1>1. SlotTypes /\ LoopTypes /\ SlotInv /\ PlanInv /\ pc = "check" /\ NoEarlyRetry
  BY TypeSplit DEF IInv, MonCheck
<1>2. /\ SlotTypes' /\ SlotInv' /\ owed' = owed /\ age' = age
      /\ child[at] # "up" => child'[at] = "none"
  BY <1>1, ReapKeeps DEF MonCheck, LoopTypes
<1>3. LoopTypes' /\ pc' \in {"check", "recheck"}
  BY <1>1 DEF MonCheck, LoopTypes, Advance, Names
<1>4. /\ plan'[at] = "want" => child[at] # "up" /\ BackoffOver(at)
      /\ plan'[at] \in {"want", "no"} /\ \A k \in Names : k # at => plan'[k] = plan[k]
  BY <1>1 DEF MonCheck, LoopTypes, ShouldAttempt
<1>5. \A k \in Names : k # at => child'[k] = child[k]
  BY <1>1 DEF MonCheck, Reap, SlotTypes
<1>6. PlanInv'
  BY <1>1, <1>2, <1>3, <1>4, <1>5 DEF PlanInv
<1>7. NoEarlyRetry'
  <2>1. plan'[at] = "want" => age'[at] >= owed[at]
    BY <1>1, <1>2, <1>4 DEF SlotInv, DeadlineInv, BackoffOver, SlotTypes, LoopTypes
  <2>2. \A k \in Names : plan[k] = "want" => age[k] >= owed[k]
    BY <1>1 DEF NoEarlyRetry, Attempting
  <2>3. \A k \in Names : age'[k] \in 0..BackoffMax
    BY <1>2 DEF SlotTypes
  <2> QED BY <1>2, <1>3, <1>4, <2>1, <2>2, <2>3 DEF NoEarlyRetry, Attempting
<1>8. NoOversleep'
  BY <1>3 DEF NoOversleep
<1> QED BY <1>2, <1>3, <1>6, <1>7, <1>8, TypeSplit DEF IInv

\* Committing a result either clears the wait or starts the next documented one.
LEMMA MonCommitKeeps == ASSUME IInv, MonCommit PROVE IInv'
<1>1. SlotTypes /\ LoopTypes /\ SlotInv /\ PlanInv /\ pc = "commit" /\ NoEarlyRetry
  BY TypeSplit DEF IInv, MonCommit
<1>2. at \in Names /\ 0 \in 0..BackoffMax
  BY <1>1 DEF LoopTypes
<1>3. /\ SlotTypes' /\ SlotInv'
      /\ \A k \in Names : k # at => owed'[k] = owed[k] /\ age'[k] = age[k] /\ child'[k] = child[k]
  <2>1. CASE plan[at] = "ok" /\ Success(at)
    BY <1>1, <1>2, <2>1, SuccessKeeps DEF Success, SlotTypes
  <2>2. CASE plan[at] = "err" /\ Failure(at, 0)
    BY <1>1, <1>2, <2>2, FailureKeeps DEF Failure, SlotTypes, PlanInv
  <2>3. CASE UNCHANGED <<slots, history>>
    BY <1>1, <2>3 DEF slots, history, SlotTypes, SlotInv, LadderInv, DeadlineInv, FreshInv
  <2> QED BY <2>1, <2>2, <2>3 DEF MonCommit
<1>4. LoopTypes' /\ pc' \in {"commit", "sleep"}
  BY <1>1 DEF MonCommit, LoopTypes, Advance, Names
<1>5. plan'[at] = "no" /\ \A k \in Names : k # at => plan'[k] = plan[k]
  BY <1>1 DEF MonCommit, LoopTypes
<1>6. PlanInv' /\ NoEarlyRetry' /\ NoOversleep'
  BY <1>1, <1>3, <1>4, <1>5 DEF PlanInv, NoEarlyRetry, NoOversleep, Attempting
<1> QED BY <1>3, <1>4, <1>6, TypeSplit DEF IInv

\* The sleep is no longer than the nearest deadline ahead.
LEMMA MonSleepKeeps == ASSUME IInv, MonSleep PROVE IInv'
<1>1. SlotTypes /\ LoopTypes /\ SlotInv /\ PlanInv /\ pc = "sleep" /\ NoEarlyRetry
  BY TypeSplit DEF IInv, MonSleep
<1>2. \A n \in Names : Ahead(n) \in Nat /\ (next[n] \notin {None, 0} => Ahead(n) = next[n])
  BY <1>1 DEF Ahead, SlotTypes
<1>3. /\ NearestDeadline \in 0..Interval
      /\ \A n \in Names : NearestDeadline <= Ahead(n)
  BY <1>2 DEF NearestDeadline, Lesser, Names
<1>4. NoOversleep'
  BY <1>2, <1>3 DEF MonSleep, NoOversleep, slots
<1>5. SlotTypes' /\ SlotInv' /\ LoopTypes'
  BY <1>1, <1>3 DEF MonSleep, slots, history, SlotTypes, LoopTypes, SlotInv, LadderInv,
     DeadlineInv, FreshInv
<1>6. PlanInv' /\ NoEarlyRetry'
  BY <1>1 DEF MonSleep, slots, history, PlanInv, NoEarlyRetry, Attempting
<1> QED BY <1>4, <1>5, <1>6, TypeSplit DEF IInv

\* Time moves deadlines, sleep and stopwatches by the same second.
LEMMA TickKeeps == ASSUME IInv, Tick PROVE IInv'
<1>1. SlotTypes /\ LoopTypes /\ SlotInv /\ PlanInv /\ NoEarlyRetry /\ NoOversleep
  BY TypeSplit DEF IInv
<1>2. SlotTypes' /\ LoopTypes'
  BY <1>1, ClockBounds DEF Tick, SlotTypes, LoopTypes, Less
<1>3. \A n \in Names : /\ next'[n] = Elapse(next[n]) /\ age'[n] = OneMore(age[n])
                       /\ owed[n] \in 0..BackoffMax /\ age[n] \in 0..BackoffMax
                       /\ next[n] \in {None} \cup 0..BackoffMax
  BY <1>1 DEF Tick, SlotTypes
<1>4. DeadlineInv'
  <2> SUFFICES ASSUME NEW n \in Names, owed[n] # 0
               PROVE  next'[n] # None /\ next'[n] + age'[n] >= owed[n]
    BY DEF Tick, DeadlineInv
  <2>1. next[n] # None /\ next[n] + age[n] >= owed[n]
    BY <1>1 DEF SlotInv, DeadlineInv
  <2> QED BY <1>3, <2>1 DEF Elapse, Less, OneMore, Lesser
<1>5. SlotInv'
  BY <1>1, <1>4 DEF Tick, SlotInv, LadderInv, FreshInv
<1>6. NoEarlyRetry'
  <2> SUFFICES ASSUME NEW n \in Names, Attempting(n) PROVE age'[n] >= owed[n]
    BY DEF Tick, NoEarlyRetry, Attempting
  <2>1. age[n] >= owed[n] /\ age'[n] >= age[n] /\ age'[n] \in 0..BackoffMax
    BY <1>1, <1>3, ClockBounds DEF NoEarlyRetry
  <2> QED BY <1>3, <2>1
<1>7. NoOversleep'
  <2> SUFFICES ASSUME NEW n \in Names, pc = "wait", next'[n] \notin {None, 0}
               PROVE  sleep' <= next'[n]
    BY DEF Tick, NoOversleep
  <2>1. next[n] \notin {None, 0} /\ next'[n] = next[n] - 1
    BY <1>3 DEF Elapse, Less
  <2>2. sleep <= next[n] /\ sleep \in Nat
    BY <1>1, <2>1 DEF NoOversleep, LoopTypes
  <2> QED BY <1>3, <2>1, <2>2 DEF Tick, Less
<1>8. PlanInv'
  BY <1>1 DEF Tick, PlanInv
<1> QED BY <1>2, <1>5, <1>6, <1>7, <1>8, TypeSplit DEF IInv

\* The other steps of the thread touch neither slots nor clocks.
LEMMA LoopKeeps == ASSUME IInv, MonTop \/ MonSpawn \/ MonWake PROVE IInv'
<1>1. SlotTypes /\ LoopTypes /\ SlotInv /\ PlanInv /\ NoEarlyRetry
  BY TypeSplit DEF IInv
<1>2. UNCHANGED <<slots, history>>
  BY DEF MonTop, MonSpawn, MonWake
<1>3. SlotTypes' /\ SlotInv'
  BY <1>1, <1>2 DEF slots, history, SlotTypes, SlotInv, LadderInv, DeadlineInv, FreshInv
<1>4. LoopTypes' /\ pc' \in {"top", "check", "recheck", "commit", "done"}
  <2>1. CASE MonTop \/ MonWake
    BY <1>1, <2>1, IntervalAssumption DEF MonTop, MonWake, LoopTypes
  <2>2. CASE MonSpawn
    BY <1>1, <2>2 DEF MonSpawn, LoopTypes, Advance, Names
  <2> QED BY <2>1, <2>2
<1>5. \A n \in Names : plan'[n] = plan[n] \/ (plan[n] = "want" /\ plan'[n] \in {"ok", "err"})
  BY <1>1 DEF MonTop, MonSpawn, MonWake, LoopTypes
<1>6. PlanInv'
  <2>1. pc' # "tick" /\ pc' # "tickspawn"
    BY <1>4
  <2> QED BY <1>1, <1>2, <1>5, <2>1 DEF PlanInv, slots
<1>7. NoEarlyRetry' /\ NoOversleep'
  BY <1>1, <1>2, <1>4, <1>5 DEF NoEarlyRetry, NoOversleep, Attempting, history
<1> QED BY <1>3, <1>4, <1>6, <1>7, TypeSplit DEF IInv

\* A child that exits, its endpoint and stop() touch no wait and no deadline.
LEMMA OutsideKeeps ==
  ASSUME IInv, StopCall \/ \E n \in Names : ChildExits(n) \/ EndpointChanges(n)
  PROVE  IInv'
<1>1. SlotTypes /\ LoopTypes /\ SlotInv /\ PlanInv /\ NoEarlyRetry /\ NoOversleep
  BY TypeSplit DEF IInv
<1>2. CASE StopCall \/ \E n \in Names : EndpointChanges(n)
  <2>1. UNCHANGED <<slots, loop, history>> /\ running' \in BOOLEAN /\ taken' \subseteq Names
    BY <1>1, <1>2 DEF StopCall, EndpointChanges, LoopTypes
  <2>2. SlotTypes' /\ LoopTypes' /\ SlotInv'
    BY <1>1, <2>1 DEF slots, loop, history, SlotTypes, LoopTypes, SlotInv, LadderInv,
       DeadlineInv, FreshInv
  <2>3. PlanInv' /\ NoEarlyRetry' /\ NoOversleep'
    BY <1>1, <2>1 DEF slots, loop, history, PlanInv, NoEarlyRetry, NoOversleep, Attempting
  <2> QED BY <2>2, <2>3, TypeSplit DEF IInv
<1>3. CASE \E n \in Names : ChildExits(n)
  <2>1. PICK n \in Names : ChildExits(n)
    BY <1>3
  <2>2. /\ child[n] = "up" /\ child'[n] = "dead"
        /\ \A k \in Names : k # n => child'[k] = child[k]
        /\ child' \in [Names -> {"none", "up", "dead"}]
    BY <1>1, <2>1 DEF ChildExits, SlotTypes
  <2>3. UNCHANGED <<running, backoff, next, taken, pc, at, plan, sleep, spent, owed, age>>
    BY <2>1 DEF ChildExits, loop, history
  <2>4. SlotTypes' /\ LoopTypes' /\ NoEarlyRetry' /\ NoOversleep'
    BY <1>1, <2>2, <2>3 DEF SlotTypes, LoopTypes, NoEarlyRetry, NoOversleep, Attempting
  <2>5. SlotInv' /\ PlanInv'
    <3>1. LadderInv' /\ DeadlineInv'
      BY <1>1, <2>3 DEF SlotInv, LadderInv, DeadlineInv
    <3>2. FreshInv'
      BY <1>1, <2>2, <2>3 DEF SlotInv, FreshInv
    <3>3. PlanInv'
      <4>1. \A k \in Names : child[k] = "none" => child'[k] = "none"
        BY <2>2
      <4> QED BY <1>1, <2>3, <4>1 DEF PlanInv, LoopTypes
    <3> QED BY <3>1, <3>2, <3>3 DEF SlotInv
  <2> QED BY <2>4, <2>5, TypeSplit DEF IInv
<1> QED BY <1>2, <1>3

\* The inductive invariant is inductive.
LEMMA IInvNext == IInv /\ [Next]_vars => IInv'
<1> SUFFICES ASSUME IInv, [Next]_vars PROVE IInv'
  OBVIOUS
<1>1. CASE UNCHANGED vars
  BY <1>1 DEF vars, slots, loop, history, IInv, TypeOK, SlotInv, LadderInv, DeadlineInv,
     FreshInv, PlanInv, NoEarlyRetry, NoOversleep, Attempting
<1> QED BY <1>1, StartTickKeeps, StartSpawnKeeps, MonCheckKeeps, MonCommitKeeps, MonSleepKeeps,
           TickKeeps, LoopKeeps, OutsideKeeps DEF Next, Thread

\* The inductive invariant always holds.
LEMMA IInvAlways == Spec => []IInv
BY IInvInit, IInvNext, PTL DEF Spec

\* A child that could not be spawned is never attempted before the wait that its failures in a
\* row demand is over, for every initial and longest wait and every interval: what start() and
\* the monitor write into backoff and next_attempt keeps to the documented ladder.
THEOREM NoEarlyRetryAlways == Spec => []NoEarlyRetry
<1>1. IInv => NoEarlyRetry
  BY DEF IInv
<1> QED BY IInvAlways, <1>1, PTL

\* The monitor never sleeps past a deadline that lay ahead of it, for every interval.
THEOREM NoOversleepAlways == Spec => []NoOversleep
<1>1. IInv => NoOversleep
  BY DEF IInv
<1> QED BY IInvAlways, <1>1, PTL

\* Type correctness: no wait, sleep or deadline leaves its range.
THEOREM RespawnTypes == Spec => []TypeOK
<1>1. IInv => TypeOK
  BY DEF IInv
<1> QED BY IInvAlways, <1>1, PTL

=============================================================================
