\* Two clients and two workers; a request that timed out stays queued while its caller makes
\* the next one, so three requests fill the queues unevenly. Threads may fail and panic.
SPECIFICATION FairSpec
CONSTANTS
  Clients = {c1, c2}
  Requests = {r1, r2, r3}
  NumWorkers = 2
  ThreadMayFail = TRUE
  WorkerMayPanic = TRUE
  None = None
INVARIANTS TypeOK AnswerDue NoStrayWorker
PROPERTIES CallsReturn
