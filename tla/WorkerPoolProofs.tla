-------------------------- MODULE WorkerPoolProofs --------------------------
(***************************************************************************)
(* The worker pool for any number of clients, requests and workers.  What  *)
(* the workers hold is tied to their state (WorkInv), their state to the   *)
(* pool's (PoolInv), and each request to the client that made it           *)
(* (CallInv); then no accepted request is lost but by a panic.             *)
(***************************************************************************)
EXTENDS WorkerPool, SequenceTheorems, TLAPS

\* A worker holds a request exactly while it is busy; one that ended has nothing queued.
WorkInv == \A w \in Workers :
  /\ worker[w] = "busy" <=> work[w] # None
  /\ worker[w] \in {"off", "dead"} => queue[w] = <<>>

\* Worker threads exist while there is a pool, and end only once their channels are closed; those
\* that a failed thread::spawn left behind wait at theirs until then.
PoolInv == /\ pool = "none" => \A w \in Workers : /\ worker[w] # "off" => poisoned /\ worker[w] = "idle"
                                                  /\ queue[w] = <<>>
           /\ pool = "open" => \A w \in Workers : worker[w] # "off"
           /\ poisoned => pool = "none"

\* A client has a request of its own for as long as its call lasts.
CallInv == \A c \in Clients :
  /\ pc[c] = "idle" <=> req[c] = None
  /\ \A d \in Clients : req[c] = req[d] /\ req[c] # None => c = d

\* The inductive invariant.
IInv == TypeOK /\ WorkInv /\ PoolInv /\ CallInv /\ AnswerDue

\* What a channel holds after a send.
LEMMA ToSetAppend ==
  ASSUME NEW S, NEW s \in Seq(S), NEW e \in S
  PROVE  ToSet(Append(s, e)) = ToSet(s) \cup {e} /\ Append(s, e) \in Seq(S)
<1>1. Append(s, e) \in Seq(S) /\ Len(Append(s, e)) = Len(s) + 1
      /\ Append(s, e)[Len(s) + 1] = e
      /\ \A i \in 1..Len(s) : Append(s, e)[i] = s[i]
  OBVIOUS
<1>2. DOMAIN Append(s, e) = 1..(Len(s) + 1) /\ DOMAIN s = 1..Len(s) /\ Len(s) \in Nat
  BY <1>1
<1>3. 1..(Len(s) + 1) = (1..Len(s)) \cup {Len(s) + 1}
  BY <1>2
<1> QED BY <1>1, <1>2, <1>3 DEF ToSet

\* What a channel holds before a receive: the head and what is left.
LEMMA ToSetHeadTail ==
  ASSUME NEW S, NEW s \in Seq(S), s # <<>>
  PROVE  /\ ToSet(s) = {Head(s)} \cup ToSet(Tail(s))
         /\ Head(s) \in S /\ Tail(s) \in Seq(S)
<1>1. /\ Len(s) \in Nat /\ Len(s) > 0
      /\ Head(s) = s[1] /\ Tail(s) \in Seq(S) /\ Len(Tail(s)) = Len(s) - 1
      /\ \A i \in 1..(Len(s) - 1) : Tail(s)[i] = s[i + 1]
  OBVIOUS
<1>2. DOMAIN Tail(s) = 1..(Len(s) - 1) /\ DOMAIN s = 1..Len(s)
  BY <1>1
<1>3. ASSUME NEW x \in ToSet(s) PROVE x = s[1] \/ x \in ToSet(Tail(s))
  <2>1. PICK i \in 1..Len(s) : x = s[i]
    BY <1>2 DEF ToSet
  <2>2. i = 1 \/ (i - 1 \in 1..(Len(s) - 1) /\ (i - 1) + 1 = i)
    BY <1>1
  <2> QED BY <2>1, <2>2, <1>1, <1>2 DEF ToSet
<1>4. ASSUME NEW x \in ToSet(Tail(s)) PROVE x \in ToSet(s)
  <2>1. PICK i \in 1..(Len(s) - 1) : x = Tail(s)[i]
    BY <1>2 DEF ToSet
  <2>2. i + 1 \in 1..Len(s)
    BY <1>1
  <2> QED BY <2>1, <2>2, <1>1, <1>2 DEF ToSet
<1>5. s[1] \in ToSet(s) /\ s[1] \in S
  BY <1>1, <1>2 DEF ToSet
<1> QED BY <1>1, <1>3, <1>4, <1>5

\* Nothing is queued in an empty channel.
LEMMA ToSetEmpty == ToSet(<<>>) = {}
BY DEF ToSet

\* The turn stays among the workers.
LEMMA TurnFacts == ASSUME TypeOK PROVE NextTurn \in Workers /\ 0 \in Workers
<1>1. NumWorkers \in Nat \ {0} /\ next \in Nat
  BY PoolAssumption DEF TypeOK, Workers
<1>2. (next + 1) % NumWorkers \in 0..(NumWorkers - 1)
  BY <1>1
<1> QED BY <1>1, <1>2 DEF NextTurn, Workers

\* The inductive invariant holds initially.
LEMMA IInvInit == Init => IInv
<1> SUFFICES ASSUME Init PROVE IInv
  OBVIOUS
<1>1. 0 \in Workers
  BY PoolAssumption DEF Workers
<1>2. TypeOK
  BY <1>1 DEF Init, TypeOK
<1>3. WorkInv /\ PoolInv /\ CallInv /\ AnswerDue
  BY DEF Init, WorkInv, PoolInv, CallInv, AnswerDue
<1> QED BY <1>2, <1>3 DEF IInv

\* A call that ends takes only its own request out of the books.
LEMMA ReturnKeeps ==
  ASSUME IInv, NEW c \in Clients, pc[c] # "idle", Return(c), UNCHANGED <<worker, queue, work>>
  PROVE  /\ pc' \in [Clients -> {"idle", "create", "submit", "wait"}]
         /\ req' \in [Clients -> Requests \cup {None}]
         /\ answered' \subseteq Requests /\ lost' \subseteq Requests
         /\ CallInv' /\ AnswerDue' /\ WorkInv'
<1> USE DEF IInv
<1>1. /\ pc' = [pc EXCEPT ![c] = "idle"] /\ req' = [req EXCEPT ![c] = None]
      /\ answered' = answered \ {req[c]} /\ lost' = lost \ {req[c]}
  BY DEF Return
<1>2. /\ pc' \in [Clients -> {"idle", "create", "submit", "wait"}]
      /\ req' \in [Clients -> Requests \cup {None}]
      /\ answered' \subseteq Requests /\ lost' \subseteq Requests
  BY <1>1 DEF TypeOK
<1>3. /\ \A d \in Clients : d # c => pc'[d] = pc[d] /\ req'[d] = req[d]
      /\ pc'[c] = "idle" /\ req'[c] = None
  BY <1>1 DEF TypeOK
<1>4. CallInv'
  BY <1>3 DEF CallInv
<1>5. ASSUME NEW d \in Clients, pc'[d] = "wait"
      PROVE  \/ req'[d] \in answered' \cup lost'
             \/ \E w \in Workers : worker'[w] \in {"idle", "busy"} /\ req'[d] \in HeldBy(w)'
  <2>1. d # c /\ pc[d] = "wait" /\ req'[d] = req[d]
    BY <1>3, <1>5
  <2>2. req[d] # req[c]
    BY <2>1 DEF CallInv
  <2>3. \A w \in Workers : HeldBy(w)' = HeldBy(w) /\ worker'[w] = worker[w]
    BY DEF HeldBy
  <2> QED BY <1>1, <2>1, <2>2, <2>3 DEF AnswerDue
<1>6. AnswerDue'
  BY <1>5 DEF AnswerDue
<1>7. WorkInv'
  BY DEF WorkInv
<1> QED BY <1>2, <1>4, <1>6, <1>7

\* A new call takes a request that no other client has.
LEMMA CallKeeps == ASSUME IInv, NEW c \in Clients, Call(c) PROVE IInv'
<1> USE DEF IInv
<1>1. PICK r \in Requests : ~Held(r) /\ ~Awaited(r) /\ req' = [req EXCEPT ![c] = r]
  BY DEF Call
<1>2. pc[c] = "idle" /\ pc' = [pc EXCEPT ![c] = "create"]
      /\ UNCHANGED <<pool, poisoned, next, worker, queue, work, answered, lost>>
  BY DEF Call
<1>3. TypeOK'
  BY <1>1, <1>2 DEF TypeOK
<1>4. /\ \A d \in Clients : d # c => pc'[d] = pc[d] /\ req'[d] = req[d] /\ req[d] # r
      /\ pc'[c] = "create" /\ req'[c] = r /\ r # None
  BY <1>1, <1>2, PoolAssumption DEF TypeOK, Awaited
<1>5. CallInv'
  BY <1>4 DEF CallInv
<1>6. AnswerDue'
  <2>1. \A w \in Workers : HeldBy(w)' = HeldBy(w)
    BY <1>2 DEF HeldBy
  <2> QED BY <1>2, <1>4, <2>1 DEF AnswerDue
<1>7. WorkInv' /\ PoolInv'
  BY <1>2 DEF WorkInv, PoolInv
<1> QED BY <1>3, <1>5, <1>6, <1>7

\* The workers of a new pool start with empty channels.
LEMMA GetPoolKeeps == ASSUME IInv, NEW c \in Clients, GetPool(c) PROVE IInv'
<1> USE DEF IInv
<1>1. /\ pc[c] = "create" /\ pool # "closed" /\ ~poisoned
      /\ pc' = [pc EXCEPT ![c] = "submit"]
      /\ UNCHANGED <<poisoned, queue, work, req, answered, lost>>
  BY DEF GetPool, MutexFree
<1>2. pool' = "open" /\ next' \in Workers
      /\ worker' \in [Workers -> {"off", "idle", "busy", "dead"}]
      /\ \/ pool = "none" /\ worker' = [w \in Workers |-> "idle"]
         \/ pool = "open" /\ worker' = worker
  <2>1. CASE pool = "none"
    BY <2>1, TurnFacts DEF GetPool
  <2>2. CASE pool = "open"
    BY <2>2 DEF GetPool, TypeOK
  <2> QED BY <2>1, <2>2, <1>1 DEF TypeOK
<1>3. TypeOK'
  BY <1>1, <1>2 DEF TypeOK
<1>4. /\ \A d \in Clients : d # c => pc'[d] = pc[d]
      /\ pc'[c] = "submit"
  BY <1>1 DEF TypeOK
<1>5. CallInv'
  BY <1>1, <1>4 DEF CallInv
<1>6. WorkInv' /\ PoolInv'
  <2>1. CASE pool = "none" /\ worker' = [w \in Workers |-> "idle"]
    <3>1. \A w \in Workers : worker[w] = "off"
      BY <2>1, <1>1 DEF PoolInv
    <3> QED BY <2>1, <3>1, <1>1, <1>2 DEF WorkInv, PoolInv
  <2>2. CASE pool = "open" /\ worker' = worker
    BY <2>2, <1>1, <1>2 DEF WorkInv, PoolInv
  <2> QED BY <1>2, <2>1, <2>2
<1>7. AnswerDue'
  <2>1. \A w \in Workers : HeldBy(w)' = HeldBy(w)
    BY <1>1 DEF HeldBy
  <2>2. \A w \in Workers : worker[w] \in {"idle", "busy"} => worker'[w] \in {"idle", "busy"}
    BY <1>2
  <2>3. \A d \in Clients : pc'[d] = "wait" => pc[d] = "wait"
    BY <1>4
  <2> QED BY <1>1, <2>1, <2>2, <2>3 DEF AnswerDue
<1> QED BY <1>3, <1>5, <1>6, <1>7

\* The ways a call ends without handing in a request, or after it did.
LEMMA EndKeeps ==
  ASSUME IInv, NEW c \in Clients,
         Refused(c) \/ Receive(c) \/ TimeOut(c) \/ Disconnected(c)
  PROVE  IInv'
<1> USE DEF IInv
<1>1. /\ pc[c] # "idle" /\ Return(c)
      /\ UNCHANGED <<pool, poisoned, next, worker, queue, work>>
  BY DEF Refused, Receive, TimeOut, Disconnected
<1>2. /\ pc' \in [Clients -> {"idle", "create", "submit", "wait"}]
      /\ req' \in [Clients -> Requests \cup {None}]
      /\ answered' \subseteq Requests /\ lost' \subseteq Requests
      /\ CallInv' /\ AnswerDue' /\ WorkInv'
  BY <1>1, ReturnKeeps
<1>3. TypeOK' /\ PoolInv'
  BY <1>1, <1>2 DEF TypeOK, PoolInv
<1> QED BY <1>2, <1>3

\* A failed thread::spawn leaves workers that hold nothing, and nobody waited for one.
LEMMA PanicsKeeps == ASSUME IInv, NEW c \in Clients, GetPoolPanics(c) PROVE IInv'
<1> USE DEF IInv
<1>1. /\ pc[c] = "create" /\ pool = "none" /\ ~poisoned /\ poisoned' = TRUE
      /\ UNCHANGED <<pool, next, queue, work>>
      /\ pc' = [pc EXCEPT ![c] = "idle"] /\ req' = [req EXCEPT ![c] = None]
      /\ answered' = answered \ {req[c]} /\ lost' = lost \ {req[c]}
  BY DEF GetPoolPanics, Return
<1>2. PICK failing \in Workers : worker' = [w \in Workers |-> IF w < failing THEN "idle" ELSE "off"]
  BY DEF GetPoolPanics
<1>3. worker' \in [Workers -> {"off", "idle", "busy", "dead"}]
      /\ \A w \in Workers : worker'[w] \in {"off", "idle"}
  BY <1>2
<1>4. \A w \in Workers : worker[w] = "off" /\ queue[w] = <<>> /\ work[w] = None
  BY <1>1 DEF PoolInv, WorkInv
<1>5. TypeOK'
  BY <1>1, <1>3 DEF TypeOK
<1>6. WorkInv' /\ PoolInv'
  BY <1>1, <1>3, <1>4 DEF WorkInv, PoolInv
<1>7. /\ \A d \in Clients : d # c => pc'[d] = pc[d] /\ req'[d] = req[d]
      /\ pc'[c] = "idle" /\ req'[c] = None
  BY <1>1 DEF TypeOK
<1>8. CallInv'
  BY <1>7 DEF CallInv
<1>9. AnswerDue'
  <2> SUFFICES ASSUME NEW d \in Clients, pc'[d] = "wait"
               PROVE  req'[d] \in answered' \cup lost'
    BY DEF AnswerDue
  <2>1. d # c /\ pc[d] = "wait" /\ req'[d] = req[d]
    BY <1>7
  <2>2. req[d] # req[c]
    BY <2>1 DEF CallInv
  <2>3. req[d] \in answered \cup lost
    BY <2>1, <1>4 DEF AnswerDue
  <2> QED BY <1>1, <2>1, <2>2, <2>3
<1> QED BY <1>5, <1>6, <1>8, <1>9

\* A request goes to a worker that runs, or the call fails.
LEMMA SubmitKeeps == ASSUME IInv, NEW c \in Clients, Submit(c) PROVE IInv'
<1> USE DEF IInv
<1>1. /\ pc[c] = "submit" /\ pool = "open" /\ ~poisoned
      /\ next' \in Workers /\ next \in Workers
      /\ UNCHANGED <<pool, poisoned, worker, work>>
  BY TurnFacts DEF Submit, TypeOK
<1>2. CASE worker[next] = "dead"
  <2>1. Return(c) /\ UNCHANGED queue
    BY <1>2 DEF Submit
  <2>2. /\ pc' \in [Clients -> {"idle", "create", "submit", "wait"}]
        /\ req' \in [Clients -> Requests \cup {None}]
        /\ answered' \subseteq Requests /\ lost' \subseteq Requests
        /\ CallInv' /\ AnswerDue' /\ WorkInv'
    BY <1>1, <2>1, ReturnKeeps
  <2>3. TypeOK' /\ PoolInv'
    BY <1>1, <2>1, <2>2 DEF TypeOK, PoolInv
  <2> QED BY <2>2, <2>3
<1>3. CASE worker[next] # "dead"
  <2>1. /\ queue' = [queue EXCEPT ![next] = Append(@, req[c])]
        /\ pc' = [pc EXCEPT ![c] = "wait"]
        /\ UNCHANGED <<req, answered, lost>>
    BY <1>3 DEF Submit
  <2>2. req[c] \in Requests /\ queue[next] \in Seq(Requests)
    BY <1>1 DEF CallInv, TypeOK
  <2>3. /\ Append(queue[next], req[c]) \in Seq(Requests)
        /\ ToSet(Append(queue[next], req[c])) = ToSet(queue[next]) \cup {req[c]}
    BY <2>2, ToSetAppend
  <2>4. TypeOK'
    BY <1>1, <2>1, <2>3 DEF TypeOK
  <2>5. /\ worker[next] \in {"idle", "busy"}
        /\ \A w \in Workers : w # next => queue'[w] = queue[w]
        /\ queue'[next] = Append(queue[next], req[c])
    BY <1>1, <1>3, <2>1 DEF PoolInv, TypeOK
  <2>6. WorkInv' /\ PoolInv'
    BY <1>1, <2>5 DEF WorkInv, PoolInv
  <2>7. /\ \A d \in Clients : d # c => pc'[d] = pc[d]
        /\ pc'[c] = "wait"
    BY <2>1 DEF TypeOK
  <2>8. CallInv'
    BY <1>1, <2>1, <2>7 DEF CallInv
  <2> PICK n \in Workers : n = next
    BY <1>1
  <2>9. /\ HeldBy(n)' = HeldBy(n) \cup {req[c]}
        /\ \A w \in Workers : w # n => HeldBy(w)' = HeldBy(w)
    BY <1>1, <2>3, <2>5 DEF HeldBy
  <2>10. AnswerDue'
    <3>1. /\ req' = req /\ worker' = worker /\ answered' = answered /\ lost' = lost
          /\ worker[n] \in {"idle", "busy"} /\ req[c] \in HeldBy(n)'
          /\ \A w \in Workers : HeldBy(w) \subseteq HeldBy(w)'
      BY <1>1, <2>1, <2>5, <2>9
    <3> QED BY <2>7, <3>1 DEF AnswerDue
  <2> QED BY <2>4, <2>6, <2>8, <2>10
<1> QED BY <1>2, <1>3

\* The request that a worker takes from its channel stays with that worker.
LEMMA TakeKeeps == ASSUME IInv, NEW w \in Workers, WorkerTake(w) PROVE IInv'
<1> USE DEF IInv
<1>1. /\ worker[w] = "idle" /\ queue[w] # <<>>
      /\ work' = [work EXCEPT ![w] = Head(queue[w])]
      /\ queue' = [queue EXCEPT ![w] = Tail(queue[w])]
      /\ worker' = [worker EXCEPT ![w] = "busy"]
      /\ UNCHANGED <<pool, poisoned, next, pc, req, answered, lost>>
  BY DEF WorkerTake
<1>2. queue[w] \in Seq(Requests)
  BY DEF TypeOK
<1>3. /\ ToSet(queue[w]) = {Head(queue[w])} \cup ToSet(Tail(queue[w]))
      /\ Head(queue[w]) \in Requests /\ Tail(queue[w]) \in Seq(Requests)
  BY <1>1, <1>2, ToSetHeadTail
<1>4. TypeOK'
  BY <1>1, <1>3 DEF TypeOK
<1>5. /\ \A v \in Workers : v # w => /\ queue'[v] = queue[v] /\ work'[v] = work[v]
                                      /\ worker'[v] = worker[v]
      /\ queue'[w] = Tail(queue[w]) /\ work'[w] = Head(queue[w]) /\ worker'[w] = "busy"
  BY <1>1 DEF TypeOK
<1>6. WorkInv'
  BY <1>3, <1>5, PoolAssumption DEF WorkInv
<1>7. PoolInv' /\ CallInv'
  BY <1>1, <1>5 DEF PoolInv, CallInv
<1>8. \A v \in Workers : HeldBy(v) \subseteq HeldBy(v)'
  <2>1. work[w] = None
    BY <1>1 DEF WorkInv
  <2>2. HeldBy(w) \subseteq HeldBy(w)'
    BY <1>3, <1>5, <2>1, PoolAssumption DEF HeldBy
  <2>3. \A v \in Workers : v # w => HeldBy(v)' = HeldBy(v)
    BY <1>5 DEF HeldBy
  <2> QED BY <2>2, <2>3
<1>9. AnswerDue'
  BY <1>1, <1>5, <1>8 DEF AnswerDue
<1> QED BY <1>4, <1>6, <1>7, <1>9

\* A worker that is done has answered whoever waits for the request.
LEMMA DoneKeeps == ASSUME IInv, NEW w \in Workers, WorkerDone(w) PROVE IInv'
<1> USE DEF IInv
<1>1. /\ worker[w] = "busy"
      /\ answered' = answered \cup {r \in {work[w]} : Awaited(r)}
      /\ work' = [work EXCEPT ![w] = None]
      /\ worker' = [worker EXCEPT ![w] = "idle"]
      /\ UNCHANGED <<pool, poisoned, next, queue, pc, req, lost>>
  BY DEF WorkerDone
<1>2. work[w] \in Requests
  BY <1>1 DEF WorkInv, TypeOK
<1>3. TypeOK'
  BY <1>1, <1>2 DEF TypeOK
<1>4. /\ \A v \in Workers : v # w => work'[v] = work[v] /\ worker'[v] = worker[v]
      /\ work'[w] = None /\ worker'[w] = "idle"
  BY <1>1 DEF TypeOK
<1>5. WorkInv' /\ PoolInv' /\ CallInv'
  BY <1>1, <1>4 DEF WorkInv, PoolInv, CallInv
<1>6. \A d \in Clients : req[d] = work[w] => req[d] \in answered'
  BY <1>1 DEF Awaited
<1>7. AnswerDue'
  <2> SUFFICES ASSUME NEW c \in Clients, pc[c] = "wait", req[c] \notin answered' \cup lost
               PROVE  \E v \in Workers : worker'[v] \in {"idle", "busy"} /\ req[c] \in HeldBy(v)'
    BY <1>1 DEF AnswerDue
  <2>1. req[c] # work[w] /\ req[c] \notin answered
    BY <1>1, <1>6
  <2>2. PICK v \in Workers : worker[v] \in {"idle", "busy"} /\ req[c] \in HeldBy(v)
    BY <2>1 DEF AnswerDue
  <2>3. req[c] \in ToSet(queue[v]) \/ (req[c] = work[v] /\ req[c] # None)
    BY <2>2 DEF HeldBy
  <2>4. req[c] \in HeldBy(v)'
    <3>1. queue'[v] = queue[v] /\ (v # w => work'[v] = work[v])
      BY <1>1, <1>4, <2>2
    <3>2. req[c] \in ToSet(queue'[v]) \/ (req[c] = work'[v] /\ req[c] # None)
      BY <2>1, <2>3, <3>1
    <3> QED BY <3>2 DEF HeldBy
  <2>5. worker'[v] \in {"idle", "busy"}
    BY <1>4, <2>2
  <2> QED BY <2>4, <2>5
<1> QED BY <1>3, <1>5, <1>7

\* A panic drops what its worker held, and books it as lost.
LEMMA PanicKeeps == ASSUME IInv, NEW w \in Workers, WorkerPanics(w) PROVE IInv'
<1> USE DEF IInv
<1>1. /\ worker[w] = "busy"
      /\ lost' = lost \cup {r \in HeldBy(w) : Awaited(r)}
      /\ queue' = [queue EXCEPT ![w] = <<>>]
      /\ work' = [work EXCEPT ![w] = None]
      /\ worker' = [worker EXCEPT ![w] = "dead"]
      /\ UNCHANGED <<pool, poisoned, next, pc, req, answered>>
  BY DEF WorkerPanics
<1>2. HeldBy(w) \subseteq Requests
  <2>1. queue[w] \in Seq(Requests) /\ work[w] \in Requests \cup {None}
    BY DEF TypeOK
  <2>2. ToSet(queue[w]) \subseteq Requests
    BY <2>1 DEF ToSet
  <2> QED BY <2>1, <2>2 DEF HeldBy
<1>3. <<>> \in Seq(Requests)
  OBVIOUS
<1>4. TypeOK'
  BY <1>1, <1>2, <1>3 DEF TypeOK
<1>5. /\ \A v \in Workers : v # w => /\ queue'[v] = queue[v] /\ work'[v] = work[v]
                                      /\ worker'[v] = worker[v]
      /\ queue'[w] = <<>> /\ work'[w] = None /\ worker'[w] = "dead"
  BY <1>1 DEF TypeOK
<1>6. WorkInv' /\ PoolInv' /\ CallInv'
  BY <1>1, <1>5 DEF WorkInv, PoolInv, CallInv
<1>7. \A v \in Workers : v # w => HeldBy(v)' = HeldBy(v)
  BY <1>5 DEF HeldBy
<1>8. \A d \in Clients : req[d] \in HeldBy(w) => req[d] \in lost'
  BY <1>1 DEF Awaited
<1>9. AnswerDue'
  BY <1>1, <1>5, <1>7, <1>8 DEF AnswerDue
<1> QED BY <1>4, <1>6, <1>9

\* A worker ends with nothing in its hands.
LEMMA EndsKeeps == ASSUME IInv, NEW w \in Workers, WorkerEnds(w) PROVE IInv'
<1> USE DEF IInv
<1>1. /\ worker[w] = "idle" /\ pool # "open" /\ queue[w] = <<>>
      /\ worker' = [worker EXCEPT ![w] = "off"]
      /\ queue' = [queue EXCEPT ![w] = <<>>]
      /\ UNCHANGED <<pool, poisoned, next, work, pc, req, answered, lost>>
  BY DEF WorkerEnds, Drained
<1>2. queue' = queue
  BY <1>1 DEF TypeOK
<1>3. TypeOK'
  BY <1>1, <1>2 DEF TypeOK
<1>4. /\ \A v \in Workers : v # w => worker'[v] = worker[v]
      /\ worker'[w] = "off"
  BY <1>1 DEF TypeOK
<1>5. WorkInv' /\ PoolInv' /\ CallInv'
  BY <1>1, <1>2, <1>4 DEF WorkInv, PoolInv, CallInv
<1>6. HeldBy(w) = {} /\ \A v \in Workers : HeldBy(v)' = HeldBy(v)
  BY <1>1, <1>2, ToSetEmpty DEF HeldBy, WorkInv
<1>7. AnswerDue'
  BY <1>1, <1>4, <1>6 DEF AnswerDue
<1> QED BY <1>3, <1>5, <1>7

\* stop() closes the channels, and leaves when no thread of the pool runs.
LEMMA ShutdownKeeps == ASSUME IInv, ShutdownBegin \/ ShutdownEnd PROVE IInv'
<1> USE DEF IInv
<1>1. CASE ShutdownBegin
  <2>1. TypeOK'
    BY <1>1, TurnFacts DEF ShutdownBegin, TypeOK
  <2>2. WorkInv' /\ PoolInv' /\ CallInv'
    BY <1>1 DEF ShutdownBegin, WorkInv, PoolInv, CallInv
  <2>3. AnswerDue'
    BY <1>1 DEF ShutdownBegin, AnswerDue, HeldBy
  <2> QED BY <2>1, <2>2, <2>3
<1>2. CASE ShutdownEnd
  <2>1. /\ pool = "closed" /\ pool' = "none"
        /\ \A w \in Workers : worker[w] \in {"off", "dead"}
        /\ worker' = [w \in Workers |-> IF worker[w] = "dead" THEN "off" ELSE worker[w]]
        /\ UNCHANGED <<poisoned, next, queue, work, pc, req, answered, lost>>
    BY <1>2 DEF ShutdownEnd, Joined
  <2>2. \A w \in Workers : worker'[w] = "off"
    BY <2>1
  <2>3. worker' \in [Workers -> {"off", "idle", "busy", "dead"}]
    BY <2>1 DEF TypeOK
  <2>4. TypeOK'
    BY <2>1, <2>3 DEF TypeOK
  <2>5. \A w \in Workers : queue[w] = <<>>
    BY <2>1 DEF WorkInv
  <2>6. WorkInv'
    BY <2>1, <2>2, <2>5 DEF WorkInv
  <2>7. PoolInv' /\ CallInv'
    BY <2>1, <2>2, <2>5 DEF PoolInv, CallInv
  <2>8. AnswerDue'
    BY <2>1 DEF AnswerDue
  <2> QED BY <2>4, <2>6, <2>7, <2>8
<1> QED BY <1>1, <1>2

\* Every step preserves the inductive invariant.
LEMMA IInvStep == IInv /\ [Next]_vars => IInv'
<1> SUFFICES ASSUME IInv, [Next]_vars PROVE IInv'
  OBVIOUS
<1>1. ASSUME NEW c \in Clients, Call(c) \/ CallStep(c) PROVE IInv'
  BY <1>1, CallKeeps, GetPoolKeeps, PanicsKeeps, SubmitKeeps, EndKeeps DEF CallStep
<1>2. ASSUME NEW w \in Workers, WorkerStep(w) PROVE IInv'
  BY <1>2, TakeKeeps, DoneKeeps, PanicKeeps, EndsKeeps DEF WorkerStep
<1>3. CASE ShutdownBegin \/ ShutdownEnd
  BY <1>3, ShutdownKeeps
<1>4. CASE UNCHANGED vars
  BY <1>4 DEF vars, IInv, TypeOK, WorkInv, PoolInv, CallInv, AnswerDue, HeldBy
<1> QED BY <1>1, <1>2, <1>3, <1>4 DEF Next

\* All three safety properties follow.
LEMMA IInvAlways == Spec => []IInv
BY IInvInit, IInvStep, PTL DEF Spec

\* The pool's variables keep their types.
THEOREM PoolTypes == Spec => []TypeOK
<1>1. IInv => TypeOK
  BY DEF IInv
<1> QED BY <1>1, IInvAlways, PTL

\* submit_work and worker_loop: an accepted request is answered or held by a worker that runs,
\* whatever stop() does; only a panic loses it.
THEOREM AnswerDueAlways == Spec => []AnswerDue
<1>1. IInv => AnswerDue
  BY DEF IInv
<1> QED BY <1>1, IInvAlways, PTL

\* shutdown: without a pool nobody holds a request, and no worker runs but those that a failed
\* thread::spawn left behind, idle and with the mutex poisoned.
THEOREM NoStrayWorkerAlways == Spec => []NoStrayWorker
<1>1. IInv => NoStrayWorker
  <2> SUFFICES ASSUME IInv, pool = "none", NEW w \in Workers
               PROVE  HeldBy(w) = {} /\ (worker[w] # "off" => poisoned /\ worker[w] = "idle")
    BY DEF NoStrayWorker
  <2>1. worker[w] # "off" => poisoned /\ worker[w] = "idle"
    BY DEF IInv, PoolInv
  <2>2. queue[w] = <<>> /\ work[w] = None
    BY <2>1 DEF IInv, WorkInv, PoolInv, TypeOK
  <2> QED BY <2>1, <2>2, ToSetEmpty DEF HeldBy
<1> QED BY <1>1, IInvAlways, PTL

=============================================================================
