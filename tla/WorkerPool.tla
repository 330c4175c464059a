----------------------------- MODULE WorkerPool -----------------------------
(***************************************************************************)
(* The worker pool of the Windows named-pipe client (src/src/winpipe.rs):  *)
(* proxy callers hand requests to a fixed number of workers in turn, each  *)
(* worker with a channel of its own, and wait for the answer with a        *)
(* timeout; stop() closes the channels and joins the workers with the      *)
(* pool's mutex held.                                                      *)
(*                                                                         *)
(* The mutex is held across steps only by a stop() that joins; every other *)
(* critical section is one step, not enabled meanwhile.  A request stands  *)
(* for the work item and for its result channel.                           *)
(***************************************************************************)
EXTENDS Integers, Sequences, SequencesExt

CONSTANTS Clients,        \* the threads that call request_over_named_pipe
          Requests,       \* the requests that can be under way at once (a bound)
          NumWorkers,     \* 4 in the code
          ThreadMayFail,  \* thread::spawn may panic
          WorkerMayPanic, \* perform_request may panic
          None            \* no request

ASSUME PoolAssumption ==
  /\ NumWorkers \in Nat \ {0}
  /\ ThreadMayFail \in BOOLEAN /\ WorkerMayPanic \in BOOLEAN
  /\ None \notin Requests

Workers == 0..(NumWorkers - 1)

VARIABLES
  pool,      \* WORKER_POOL: none, open, or closed (senders dropped, being joined)
  poisoned,  \* its mutex is poisoned
  next,      \* next_idx modulo the number of workers
  worker,    \* each worker thread: off, idle, busy, or dead of a panic
  queue,     \* each worker's channel
  work,      \* the request each worker performs
  pc,        \* where each client is in request_over_named_pipe
  req,       \* its request
  answered,  \* the requests whose result is in their result channel
  lost       \* history: the requests that were dropped by a panic

vars == <<pool, poisoned, next, worker, queue, work, pc, req, answered, lost>>

Init ==
  /\ pool = "none" /\ poisoned = FALSE /\ next = 0
  /\ worker = [w \in Workers |-> "off"]
  /\ queue = [w \in Workers |-> <<>>]
  /\ work = [w \in Workers |-> None]
  /\ pc = [c \in Clients |-> "idle"]
  /\ req = [c \in Clients |-> None]
  /\ answered = {} /\ lost = {}

HeldBy(w) == ToSet(queue[w]) \cup ({work[w]} \ {None})
Held(r) == \E w \in Workers : r \in HeldBy(w)
Awaited(r) == \E c \in Clients : req[c] = r

\* Whoever takes the mutex waits for a stop() that joins.
MutexFree == pool # "closed"

(***************************************************************************)
(* request_over_named_pipe                                                 *)
(***************************************************************************)
\* The call ends, with an answer or an error: its result channel is gone.
Return(c) ==
  /\ pc' = [pc EXCEPT ![c] = "idle"]
  /\ req' = [req EXCEPT ![c] = None]
  /\ answered' = answered \ {req[c]}
  /\ lost' = lost \ {req[c]}

Call(c) ==
  /\ pc[c] = "idle"
  /\ \E r \in Requests : /\ ~Held(r) /\ ~Awaited(r)
                         /\ req' = [req EXCEPT ![c] = r]
  /\ pc' = [pc EXCEPT ![c] = "create"]
  /\ UNCHANGED <<pool, poisoned, next, worker, queue, work, answered, lost>>

\* get_worker_pool: the first request after a stop() starts the workers again.
GetPool(c) ==
  /\ pc[c] = "create" /\ MutexFree /\ ~poisoned
  /\ IF pool = "none"
     THEN pool' = "open" /\ next' = 0 /\ worker' = [w \in Workers |-> "idle"]
     ELSE UNCHANGED <<pool, next, worker>>
  /\ pc' = [pc EXCEPT ![c] = "submit"]
  /\ UNCHANGED <<poisoned, queue, work, req, answered, lost>>

\* thread::spawn panics under the guard, at any of the workers: unwinding drops the handles of those
\* already started, which run on by themselves, and their senders.
GetPoolPanics(c) ==
  /\ ThreadMayFail
  /\ pc[c] = "create" /\ pool = "none" /\ ~poisoned
  /\ poisoned' = TRUE
  /\ \E failing \in Workers : worker' = [w \in Workers |-> IF w < failing THEN "idle" ELSE "off"]
  /\ Return(c)
  /\ UNCHANGED <<pool, next, queue, work>>

NextTurn_Unbounded == next + 1
NextTurn == (next + 1) % NumWorkers

\* submit_work: the turn passes to the next worker even if this one's channel is closed.
Submit(c) ==
  /\ pc[c] = "submit" /\ pool = "open" /\ ~poisoned
  /\ next' = NextTurn
  /\ IF worker[next] = "dead"
     THEN Return(c) /\ UNCHANGED queue
     ELSE /\ queue' = [queue EXCEPT ![next] = Append(@, req[c])]
          /\ pc' = [pc EXCEPT ![c] = "wait"]
          /\ UNCHANGED <<req, answered, lost>>
  /\ UNCHANGED <<pool, poisoned, worker, work>>

\* The mutex is poisoned, or a stop() came between get_worker_pool and submit_work_to_pool.
Refused_Retries(c) ==
  /\ MutexFree
  /\ \/ pc[c] \in {"create", "submit"} /\ poisoned
     \/ pc[c] = "submit" /\ pool = "none"
  /\ pc' = [pc EXCEPT ![c] = "create"]
  /\ UNCHANGED <<pool, poisoned, next, worker, queue, work, req, answered, lost>>
Refused(c) ==
  /\ MutexFree
  /\ \/ pc[c] \in {"create", "submit"} /\ poisoned
     \/ pc[c] = "submit" /\ pool = "none"
  /\ Return(c)
  /\ UNCHANGED <<pool, poisoned, next, worker, queue, work>>

\* recv_timeout: a result, no result in time, or nobody left who could send one.
Receive(c) ==
  /\ pc[c] = "wait" /\ req[c] \in answered
  /\ Return(c)
  /\ UNCHANGED <<pool, poisoned, next, worker, queue, work>>

TimeOut(c) ==
  /\ pc[c] = "wait" /\ req[c] \notin answered /\ Held(req[c])
  /\ Return(c)
  /\ UNCHANGED <<pool, poisoned, next, worker, queue, work>>

Disconnected(c) ==
  /\ pc[c] = "wait" /\ req[c] \notin answered /\ ~Held(req[c])
  /\ Return(c)
  /\ UNCHANGED <<pool, poisoned, next, worker, queue, work>>

(***************************************************************************)
(* worker_loop                                                             *)
(***************************************************************************)
\* recv: a request is performed also when its caller has timed out.
WorkerTake(w) ==
  /\ worker[w] = "idle" /\ queue[w] # <<>>
  /\ work' = [work EXCEPT ![w] = Head(queue[w])]
  /\ queue' = [queue EXCEPT ![w] = Tail(@)]
  /\ worker' = [worker EXCEPT ![w] = "busy"]
  /\ UNCHANGED <<pool, poisoned, next, pc, req, answered, lost>>

\* The result of a request that nobody awaits any more is dropped.
WorkerDone(w) ==
  /\ worker[w] = "busy"
  /\ answered' = answered \cup {r \in {work[w]} : Awaited(r)}
  /\ work' = [work EXCEPT ![w] = None]
  /\ worker' = [worker EXCEPT ![w] = "idle"]
  /\ UNCHANGED <<pool, poisoned, next, queue, pc, req, lost>>

\* Unwinding drops the request, the receiver and all that is queued.  Nobody replaces the worker.
WorkerPanics(w) ==
  /\ WorkerMayPanic
  /\ worker[w] = "busy"
  /\ lost' = lost \cup {r \in HeldBy(w) : Awaited(r)}
  /\ queue' = [queue EXCEPT ![w] = <<>>]
  /\ work' = [work EXCEPT ![w] = None]
  /\ worker' = [worker EXCEPT ![w] = "dead"]
  /\ UNCHANGED <<pool, poisoned, next, pc, req, answered>>

\* A channel whose sender is gone, by shutdown() or by unwinding, yields what is queued in it
\* before it reports the end.
Drained_AtOnce(w) == TRUE
Drained(w) == queue[w] = <<>>

WorkerEnds(w) ==
  /\ worker[w] = "idle" /\ pool # "open" /\ Drained(w)
  /\ worker' = [worker EXCEPT ![w] = "off"]
  /\ queue' = [queue EXCEPT ![w] = <<>>]
  /\ UNCHANGED <<pool, poisoned, next, work, pc, req, answered, lost>>

(***************************************************************************)
(* shutdown_worker_pool                                                    *)
(***************************************************************************)
\* A poisoned mutex or a missing pool leaves nothing to shut down.
ShutdownBegin ==
  /\ pool = "open" /\ ~poisoned
  /\ pool' = "closed" /\ next' = 0
  /\ UNCHANGED <<poisoned, worker, queue, work, pc, req, answered, lost>>

\* Every worker has been joined; one that panicked counts.
Joined_Unwaited == TRUE
Joined == \A w \in Workers : worker[w] \in {"off", "dead"}

ShutdownEnd ==
  /\ pool = "closed" /\ Joined
  /\ pool' = "none"
  /\ worker' = [w \in Workers |-> IF worker[w] = "dead" THEN "off" ELSE worker[w]]
  /\ UNCHANGED <<poisoned, next, queue, work, pc, req, answered, lost>>

(***************************************************************************)
(* The specification                                                       *)
(***************************************************************************)
\* What a client does until its call returns.
CallStep(c) == \/ GetPool(c) \/ GetPoolPanics(c) \/ Submit(c) \/ Refused(c)
               \/ Receive(c) \/ TimeOut(c) \/ Disconnected(c)

WorkerStep(w) == WorkerTake(w) \/ WorkerDone(w) \/ WorkerPanics(w) \/ WorkerEnds(w)

Next == \/ \E c \in Clients : Call(c) \/ CallStep(c)
        \/ \E w \in Workers : WorkerStep(w)
        \/ ShutdownBegin \/ ShutdownEnd

Spec == Init /\ [][Next]_vars

\* The workers run, perform_request ends by its own deadline, and who waits for the mutex gets
\* it in the end.  Nobody has to call the library.
Fairness == /\ \A c \in Clients : SF_vars(CallStep(c))
            /\ \A w \in Workers : WF_vars(WorkerStep(w))
            /\ WF_vars(ShutdownEnd)

FairSpec == Spec /\ Fairness

(***************************************************************************)
(* Properties                                                              *)
(***************************************************************************)
\* The type invariant.
TypeOK ==
  /\ pool \in {"none", "open", "closed"} /\ poisoned \in BOOLEAN
  /\ next \in Workers
  /\ worker \in [Workers -> {"off", "idle", "busy", "dead"}]
  /\ queue \in [Workers -> Seq(Requests)]
  /\ work \in [Workers -> Requests \cup {None}]
  /\ pc \in [Clients -> {"idle", "create", "submit", "wait"}]
  /\ req \in [Clients -> Requests \cup {None}]
  /\ answered \subseteq Requests /\ lost \subseteq Requests

\* A request that was accepted is answered or somebody who runs holds it, also when stop()
\* closes the channels behind it: only a panic of its worker loses it.
AnswerDue ==
  \A c \in Clients : pc[c] = "wait" =>
    \/ req[c] \in answered \cup lost
    \/ \E w \in Workers : worker[w] \in {"idle", "busy"} /\ req[c] \in HeldBy(w)

\* Without a pool no request is held and no worker runs: shutdown_worker_pool has joined them all.
\* The exception are the workers that a failed thread::spawn left behind: nobody has their handles,
\* and the poisoned mutex keeps every later stop() from waiting for them.  They hold nothing.
NoStrayWorker ==
  pool = "none" => \A w \in Workers :
    /\ HeldBy(w) = {}
    /\ worker[w] # "off" => poisoned /\ worker[w] = "idle"

\* Every call returns, whatever the workers and stop() do meanwhile, and so does
\* shutdown_worker_pool: it waits for the queues to drain and for nothing else.  A worker without a
\* pool comes to its end by itself.
CallsReturn == /\ \A c \in Clients : pc[c] # "idle" ~> pc[c] = "idle"
               /\ pool = "closed" ~> pool = "none"
               /\ pool = "none" ~> (\A w \in Workers : worker[w] = "off") \/ pool = "open"

=============================================================================
