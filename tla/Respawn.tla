------------------------------- MODULE Respawn -------------------------------
(***************************************************************************)
(* When libagent spawns its two children again: the backoff of start() and *)
(* of the monitor loop of one session, against the clock                   *)
(* (src/src/monitor.rs).  Lifecycle.tla has the threads and leaves out the *)
(* time; this module has the time and one thread, the one that runs        *)
(* start() and then, as the monitor, the loop.                             *)
(*                                                                         *)
(* Time is counted in seconds and passes between any two steps.  An        *)
(* Instant in the future is the time left until it, so that a deadline     *)
(* that has passed is 0 and the model needs no bound on the clock.         *)
(***************************************************************************)
EXTENDS Naturals

CONSTANTS BackoffInitial, \* BACKOFF_INITIAL_SECS
          BackoffMax,     \* BACKOFF_MAX_SECS
          Interval,       \* LIBAGENT_MONITOR_INTERVAL_SECS
          None            \* no deadline

ASSUME BackoffAssumption == /\ BackoffInitial \in Nat /\ BackoffMax \in Nat
                            /\ 1 <= BackoffInitial /\ BackoffInitial <= BackoffMax
ASSUME IntervalAssumption == Interval \in Nat \ {0}
ASSUME DeadlineAssumption == None \notin Nat

Names == {"agent", "trace"}

VARIABLES
  running,  \* should_run
  child,    \* what is in each slot: nothing, a live child, a dead one
  backoff,  \* agent_backoff_secs and trace_backoff_secs
  next,     \* agent_next_attempt and trace_next_attempt: time left, or None
  taken,    \* endpoints somebody else serves
  pc,       \* where the thread is
  at,       \* which child it is at
  plan,     \* the loop's locals for each child: no, want, ok, err
  sleep,    \* what is left of sleep_dur
  spent,    \* time since tick_process read the clock
  owed,     \* history: the wait that the failed attempts in a row have come to demand
  age       \* history: time since the last failed attempt

slots == <<child, backoff, next>>
loop == <<pc, at, plan, sleep, spent>>
history == <<owed, age>>
vars == <<running, slots, taken, loop, history>>

Init ==
  /\ running = TRUE
  /\ child = [n \in Names |-> "none"]
  /\ backoff = [n \in Names |-> BackoffInitial]
  /\ next = [n \in Names |-> None]
  /\ taken \in SUBSET Names
  /\ pc = "tick" /\ at = "agent"
  /\ plan = [n \in Names |-> "no"]
  /\ sleep = 0 /\ spent = 0
  /\ owed = [n \in Names |-> 0]
  /\ age = [n \in Names |-> 0]

Lesser(a, b) == IF a <= b THEN a ELSE b
Less(a, b) == IF a >= b THEN a - b ELSE 0

\* Both loops over the children: the agent first, then the trace-agent.
Advance(again, then) == /\ pc' = IF at = "agent" THEN again ELSE then
                        /\ at' = IF at = "agent" THEN "trace" ELSE "agent"

\* A stopwatch of the history: nothing is told apart beyond the longest wait.
OneMore(k) == Lesser(k + 1, BackoffMax)

\* The waits the documents promise for failures in a row: 1, 2, 4, ... and at most 30.
Documented(w) == IF w = 0 THEN BackoffInitial ELSE Lesser(2 * w, BackoffMax)

(***************************************************************************)
(* should_attempt_spawn, commit_spawn_result and tick_process              *)
(***************************************************************************)
\* A dead child is collected; that it exited leaves the backoff alone.
Reap(n) == child' = [child EXCEPT ![n] = IF @ = "dead" THEN "none" ELSE @]

BackoffOver_Ignored(n) == TRUE
BackoffOver_Unclocked(n) == next[n] = None
BackoffOver(n) == next[n] \in {None, 0}

ShouldAttempt(n) == child[n] # "up" /\ BackoffOver(n) /\ n \notin taken

Doubled_Uncapped(b) == 2 * b
Doubled(b) == Lesser(2 * b, BackoffMax)

\* The attempt succeeded: the child is in its slot and the backoff starts afresh.
Success(n) ==
  /\ child' = [child EXCEPT ![n] = "up"]
  /\ backoff' = [backoff EXCEPT ![n] = BackoffInitial]
  /\ next' = [next EXCEPT ![n] = None]
  /\ owed' = [owed EXCEPT ![n] = 0]
  /\ UNCHANGED age

\* It failed, and the clock was read t seconds ago: wait from then on, longer next time.
Failure(n, t) ==
  /\ next' = [next EXCEPT ![n] = Less(backoff[n], t)]
  /\ backoff' = [backoff EXCEPT ![n] = Doubled(@)]
  /\ owed' = [owed EXCEPT ![n] = Documented(@)]
  /\ age' = [age EXCEPT ![n] = t]
  /\ UNCHANGED child

(***************************************************************************)
(* AgentManager::start: tick_process for each child, then the monitor      *)
(***************************************************************************)
StartTick ==
  /\ pc = "tick"
  /\ Reap(at)
  /\ IF ShouldAttempt(at) THEN pc' = "tickspawn" /\ spent' = 0 /\ UNCHANGED at
     ELSE Advance("tick", "top") /\ UNCHANGED spent
  /\ UNCHANGED <<running, backoff, next, taken, plan, sleep, history>>

StartSpawn ==
  /\ pc = "tickspawn"
  /\ Success(at) \/ Failure(at, spent)
  /\ Advance("tick", "top") /\ spent' = 0
  /\ UNCHANGED <<running, taken, plan, sleep>>

(***************************************************************************)
(* monitor_loop                                                            *)
(***************************************************************************)
MonTop ==
  /\ pc = "top"
  /\ pc' = IF running THEN "check" ELSE "done"
  /\ UNCHANGED <<running, slots, taken, at, plan, sleep, spent, history>>

MonCheck ==
  /\ pc = "check"
  /\ Reap(at)
  /\ plan' = [plan EXCEPT ![at] = IF ShouldAttempt(at) THEN "want" ELSE "no"]
  /\ Advance("check", "recheck")
  /\ UNCHANGED <<running, backoff, next, taken, sleep, spent, history>>

MonSpawn ==
  /\ pc = "recheck"
  /\ IF plan[at] = "want"
     THEN IF running
          THEN /\ \E r \in {"ok", "err"} : plan' = [plan EXCEPT ![at] = r]
               /\ Advance("recheck", "commit")
          ELSE pc' = "done" /\ UNCHANGED <<at, plan>>
     ELSE Advance("recheck", "commit") /\ UNCHANGED plan
  /\ UNCHANGED <<running, slots, taken, sleep, spent, history>>

\* The clock is read after the attempt here.
MonCommit ==
  /\ pc = "commit"
  /\ CASE plan[at] = "ok" -> Success(at)
       [] plan[at] = "err" -> Failure(at, 0)
       [] OTHER -> UNCHANGED <<slots, history>>
  /\ plan' = [plan EXCEPT ![at] = "no"]
  /\ Advance("commit", "sleep")
  /\ UNCHANGED <<running, taken, sleep, spent>>

\* The interval, or the nearest deadline that is still to come.  Time may have passed
\* since the checks: reset_trace_agent_readiness waits for proxies.
Ahead(n) == IF next[n] \in {None, 0} THEN Interval ELSE next[n]
NearestDeadline_AgentOnly == Lesser(Interval, Ahead("agent"))
NearestDeadline == Lesser(Lesser(Interval, Ahead("agent")), Ahead("trace"))

MonSleep ==
  /\ pc = "sleep"
  /\ sleep' = NearestDeadline
  /\ pc' = "wait"
  /\ UNCHANGED <<running, slots, taken, at, plan, spent, history>>

\* wait_timeout returns: its time is up, stop() has notified it, or for no reason.
MonWake ==
  /\ pc = "wait"
  /\ pc' = "top" /\ sleep' = 0
  /\ UNCHANGED <<running, slots, taken, at, plan, spent, history>>

(***************************************************************************)
(* The clock, the children, their endpoints, and stop()                    *)
(***************************************************************************)
Elapse(t) == IF t = None THEN None ELSE Less(t, 1)

Tick ==
  /\ next' = [n \in Names |-> Elapse(next[n])]
  /\ sleep' = Less(sleep, 1)
  /\ spent' = IF pc = "tickspawn" THEN OneMore(spent) ELSE spent
  /\ age' = [n \in Names |-> OneMore(age[n])]
  /\ UNCHANGED <<running, child, backoff, taken, pc, at, plan, owed>>

ChildExits(n) ==
  /\ child[n] = "up"
  /\ child' = [child EXCEPT ![n] = "dead"]
  /\ UNCHANGED <<running, backoff, next, taken, loop, history>>

EndpointChanges(n) ==
  /\ taken' = IF n \in taken THEN taken \ {n} ELSE taken \cup {n}
  /\ UNCHANGED <<running, slots, loop, history>>

\* stop() gets start_stop_lock once start() has returned.
StopCall ==
  /\ running /\ pc \notin {"tick", "tickspawn"}
  /\ running' = FALSE
  /\ UNCHANGED <<slots, taken, loop, history>>

Thread == StartTick \/ StartSpawn \/ MonTop \/ MonCheck \/ MonSpawn \/ MonCommit \/ MonSleep
TimeUp == MonWake /\ sleep = 0

Next == \/ Thread \/ MonWake \/ Tick \/ StopCall
        \/ \E n \in Names : ChildExits(n) \/ EndpointChanges(n)

Spec == Init /\ [][Next]_vars

\* The thread is scheduled, time passes, and a sleep whose time is up ends.
Fairness == WF_vars(Thread) /\ WF_vars(Tick) /\ WF_vars(TimeUp)

FairSpec == Spec /\ Fairness

(***************************************************************************)
(* Properties                                                              *)
(***************************************************************************)
\* The type invariant.
TypeOK ==
  /\ running \in BOOLEAN
  /\ child \in [Names -> {"none", "up", "dead"}]
  /\ backoff \in [Names -> BackoffInitial..BackoffMax]
  /\ next \in [Names -> {None} \cup 0..BackoffMax]
  /\ taken \subseteq Names
  /\ pc \in {"tick", "tickspawn", "top", "check", "recheck", "commit", "sleep", "wait", "done"}
  /\ at \in Names
  /\ plan \in [Names -> {"no", "want", "ok", "err"}]
  /\ sleep \in 0..Interval
  /\ spent \in 0..BackoffMax
  /\ owed \in [Names -> {0} \cup BackoffInitial..BackoffMax]
  /\ age \in [Names -> 0..BackoffMax]

\* Where an attempt to spawn n has been decided.
Attempting(n) == plan[n] = "want" \/ (pc = "tickspawn" /\ at = n)

\* A child that could not be spawned is left alone for as long as its failures in a row
\* demand, whether start() or the monitor met them, and however the other child fares.
NoEarlyRetry ==
  \A n \in Names : Attempting(n) => age[n] >= owed[n]

\* The monitor never sleeps past a deadline that lay ahead of it when it went to sleep.
NoOversleep ==
  pc = "wait" => \A n \in Names : next[n] \notin {None, 0} => sleep <= next[n]

\* A child that is down is attempted again in the end, however often it has failed,
\* unless somebody else serves its endpoint or the session ends.
Retried ==
  \A n \in Names : child[n] # "up" ~> (Attempting(n) \/ child[n] = "up" \/ n \in taken \/ ~running)

=============================================================================
