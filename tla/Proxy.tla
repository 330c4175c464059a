------------------------------- MODULE Proxy -------------------------------
(***************************************************************************)
(* The C entry points that carry traffic (src/src/ffi.rs): ProxyTraceAgent *)
(* and SendDogStatsDMetric, called by several host threads at once, the    *)
(* counters and averages that they update (src/src/metrics.rs), the        *)
(* DogStatsD client (src/src/dogstatsd.rs), and a thread in GetMetrics     *)
(* that reads one counter after the other meanwhile.                       *)
(*                                                                         *)
(* Every counter is an atomic of its own, and response_times a mutex held  *)
(* for one update or read: each access is one step.  The steps are taken   *)
(* in one order that all threads agree on (sequential consistency): the    *)
(* code's accesses are Ordering::Relaxed, which promises that for each     *)
(* counter alone, so a snapshot may be torn further where the hardware or  *)
(* the compiler reorders them.  What readiness and the HTTP client make of *)
(* a request is chosen freely here: see Lifecycle, WorkerPool and          *)
(* HttpClient.  A panic unwinds to catch_unwind, as in every build whose   *)
(* profile does not abort.                                                 *)
(***************************************************************************)
EXTENDS Integers, Sequences, SequencesExt, FiniteSets

CONSTANTS Callers,     \* the host threads that make calls
          Responsive,  \* those of them that pass an on_response callback
          Attentive,   \* those of them that pass an on_error callback
          Platforms,   \* "unix", "windows"
          Methods,     \* the method counters in use, "OTHER" among them
          Statuses,    \* the status codes of responses
          Durations,   \* how long a response may take
          PayloadSize, \* pieces in which a pipe may take a payload (a bound)
          MaxCalls     \* requests counted in a behaviour (a bound)

ASSUME ProxyAssumption ==
  /\ IsFiniteSet(Callers)
  /\ Responsive \subseteq Callers /\ Attentive \subseteq Callers
  /\ Platforms \subseteq {"unix", "windows"}
  /\ Methods \subseteq {"GET", "POST", "PUT", "DELETE", "PATCH", "HEAD", "OPTIONS", "OTHER"}
  /\ Durations \subseteq Nat \ {0}
  /\ PayloadSize \in Nat \ {0} /\ MaxCalls \in Nat
ASSUME StatusAssumption == Statuses \subseteq 0..65535

\* The ranges of status codes that are counted.
ClassOf(status) == CASE status \in 200..299 -> "2xx"
                     [] status \in 300..399 -> "3xx"
                     [] status \in 400..499 -> "4xx"
                     [] status \in 500..599 -> "5xx"
                     [] OTHER -> "none"

Classes == {ClassOf(s) : s \in Statuses} \ {"none"}
DogStatsD == {"dogstatsd_requests", "dogstatsd_successes", "dogstatsd_errors"}
Counters == Methods \cup Classes \cup DogStatsD

\* The averages: of all responses, and of each class that has one (3xx has none).
Averages == {"all"} \cup (Classes \ {"3xx"})

\* How a request ends: with a response whose status has a class or has none, or without one.
Ends == {"classed", "unclassed", "failed", "panicked"}

VARIABLES
  platform, \* the platform of the build
  pc,       \* where each thread is in its call
  call,     \* its call: which function, the status received, and the code to return
  told,     \* the callbacks that its call has made
  handed,   \* pieces of its payload that the DogStatsD server has been given
  count,    \* the atomic counters
  average,  \* ResponseTimeStats: the moving averages, 0 before the first sample
  samples,  \* its sample_count
  seen,     \* history: the durations that went into each average
  settled,  \* history: how many requests had which end, see Ends
  reading,  \* GetMetrics: the counters that it has yet to read
  snap,     \* what it has read
  begun     \* history: requests counted since it began

times == <<average, samples, seen>>
reader == <<reading, snap>>
vars == <<platform, pc, call, told, handed, count, times, settled, reader, begun>>

Calls == [function : {"none", "proxy", "send"}, status : Statuses \cup {0},
          code : {0, -1, -2, -100}]
Calling(f, code) == [function |-> f, status |-> 0, code |-> code]
NoCall == Calling("none", 0)

Init ==
  /\ platform \in Platforms
  /\ pc = [c \in Callers |-> "idle"] /\ call = [c \in Callers |-> NoCall]
  /\ told = [c \in Callers |-> <<>>] /\ handed = [c \in Callers |-> 0]
  /\ count = [k \in Counters |-> 0]
  /\ average = [k \in Averages |-> 0] /\ samples = 0
  /\ seen = [k \in Averages |-> {}]
  /\ settled = [k \in Ends |-> 0]
  /\ reading = <<>> /\ snap = [k \in Counters |-> 0] /\ begun = 0

Total(f, S) == FoldFunctionOnSet(LAMBDA m, n : m + n, 0, f, S)
Requests == Methods \cup {"dogstatsd_requests"}

\* fetch_add on one counter.
Counted(k) == count' = [count EXCEPT ![k] = @ + 1]

\* A request is counted: the history notes it for a snapshot under way.
Begun(k) == /\ Total(count, Requests) < MaxCalls
            /\ Counted(k)
            /\ begun' = begun + 1

Settled(k) == settled' = [settled EXCEPT ![k] = @ + 1]
GoTo(c, p) == pc' = [pc EXCEPT ![c] = p]
Code(c, n) == call' = [call EXCEPT ![c].code = n]

(***************************************************************************)
(* ProxyTraceAgent                                                         *)
(***************************************************************************)
\* validate_proxy_args refuses a null pointer and what is no UTF-8: nothing is counted.
ProxyInvalid(c) ==
  /\ pc[c] = "idle"
  /\ call' = [call EXCEPT ![c] = Calling("proxy", -1)]
  /\ GoTo(c, "error")
  /\ UNCHANGED <<platform, told, handed, count, times, settled, reader, begun>>

\* record_proxy_request: one of the method counters.
ProxyBegin(c) ==
  /\ pc[c] = "idle"
  /\ call' = [call EXCEPT ![c] = Calling("proxy", 0)]
  /\ \E m \in Methods : Begun(m)
  /\ GoTo(c, "request")
  /\ UNCHANGED <<platform, told, handed, times, settled, reader>>

\* A response is there.  record_proxy_response counts its class first, if it has one.
ProxyAnswered(c) ==
  /\ pc[c] = "request"
  /\ \E s \in Statuses :
       /\ call' = [call EXCEPT ![c].status = s]
       /\ IF ClassOf(s) = "none" THEN UNCHANGED count /\ Settled("unclassed")
                                 ELSE Counted(ClassOf(s)) /\ Settled("classed")
  /\ GoTo(c, "measure")
  /\ UNCHANGED <<platform, told, handed, times, reader, begun>>

\* ResponseTimeStats::update.  alpha is one tenth.
Moved(old, d) == (d + 9 * old) \div 10
update_Unseeded(k, d) == Moved(average[k], d)
update(k, d) ==
  LET first == IF k = "all" THEN samples = 0 ELSE average[k] = 0
  IN IF first THEN d ELSE Moved(average[k], d)

\* The second half of record_proxy_response, under the mutex of the averages.
ProxyMeasured(c) ==
  /\ pc[c] = "measure"
  /\ \E d \in Durations :
       LET moved == {"all", ClassOf(call[c].status)} \cap Averages
       IN /\ average' = [k \in Averages |-> IF k \in moved THEN update(k, d) ELSE average[k]]
          /\ seen' = [k \in Averages |-> IF k \in moved THEN seen[k] \cup {d} ELSE seen[k]]
  /\ samples' = samples + 1
  /\ call' = [call EXCEPT ![c].status = 0]
  /\ GoTo(c, "response")
  /\ UNCHANGED <<platform, told, handed, count, settled, reader, begun>>

\* The trace-agent was not ready, or the HTTP client failed.
ProxyFailed(c) ==
  /\ pc[c] = "request"
  /\ Code(c, -2) /\ Settled("failed")
  /\ GoTo(c, "error")
  /\ UNCHANGED <<platform, told, handed, count, times, reader, begun>>

\* A panic under catch_unwind: a poisoned lock, or no thread for the worker pool.
ProxyPanics(c) ==
  /\ pc[c] = "request"
  /\ Code(c, -100) /\ Settled("panicked")
  /\ GoTo(c, "error")
  /\ UNCHANGED <<platform, told, handed, count, times, reader, begun>>

\* One of the two callbacks, unless its pointer is null, and the way out.
Tell(c, which, given) ==
  /\ told' = [told EXCEPT ![c] = IF given THEN Append(@, which) ELSE @]
  /\ GoTo(c, "return")
  /\ UNCHANGED <<platform, call, handed, count, times, settled, reader, begun>>

OnResponse(c) == pc[c] = "response" /\ Tell(c, "response", c \in Responsive)
OnError(c) == pc[c] = "error" /\ Tell(c, "error", c \in Attentive)

(***************************************************************************)
(* SendDogStatsDMetric                                                     *)
(***************************************************************************)
\* A null or empty payload.
SendInvalid(c) ==
  /\ pc[c] = "idle"
  /\ call' = [call EXCEPT ![c] = Calling("send", -1)]
  /\ GoTo(c, "return")
  /\ UNCHANGED <<platform, told, handed, count, times, settled, reader, begun>>

SendBegin_Uncounted(c) ==
  /\ pc[c] = "idle"
  /\ call' = [call EXCEPT ![c] = Calling("send", 0)]
  /\ UNCHANGED <<count, begun>>
  /\ GoTo(c, "send")
  /\ UNCHANGED <<platform, told, handed, times, settled, reader>>
SendBegin(c) ==
  /\ pc[c] = "idle"
  /\ call' = [call EXCEPT ![c] = Calling("send", 0)]
  /\ Begun("dogstatsd_requests")
  /\ GoTo(c, "send")
  /\ UNCHANGED <<platform, told, handed, times, settled, reader>>

\* send_metric_over_uds: one datagram, whole or not at all; its wait has a timeout.
UdsSend(c) ==
  /\ pc[c] = "send" /\ platform = "unix"
  /\ \/ handed' = [handed EXCEPT ![c] = PayloadSize] /\ GoTo(c, "sent")
     \/ UNCHANGED handed /\ GoTo(c, "unsent")
  /\ UNCHANGED <<platform, call, told, count, times, settled, reader, begun>>

\* send_metric_over_pipe: the open, and write_all piece by piece, without a timeout.
PipeOpen(c) ==
  /\ pc[c] = "send" /\ platform = "windows"
  /\ GoTo(c, "write") \/ GoTo(c, "unsent")
  /\ UNCHANGED <<platform, call, told, handed, count, times, settled, reader, begun>>

PipeWrite_Again(c) ==
  /\ pc[c] = "write"
  /\ \E n \in 1..PayloadSize :
       /\ handed' = [handed EXCEPT ![c] = @ + n]
       /\ GoTo(c, IF handed[c] + n = PayloadSize THEN "sent" ELSE "write")
  /\ UNCHANGED <<platform, call, told, count, times, settled, reader, begun>>
PipeWrite_Once(c) ==
  /\ pc[c] = "write"
  /\ \E n \in 1..(PayloadSize - handed[c]) : handed' = [handed EXCEPT ![c] = @ + n]
  /\ GoTo(c, "sent")
  /\ UNCHANGED <<platform, call, told, count, times, settled, reader, begun>>
PipeWrite(c) ==
  /\ pc[c] = "write"
  /\ \E n \in 1..(PayloadSize - handed[c]) :
       /\ handed' = [handed EXCEPT ![c] = @ + n]
       /\ GoTo(c, IF handed[c] + n = PayloadSize THEN "sent" ELSE "write")
  /\ UNCHANGED <<platform, call, told, count, times, settled, reader, begun>>

\* The server goes away: what it has been given stays with it.
PipeBreaks(c) ==
  /\ pc[c] = "write"
  /\ GoTo(c, "unsent")
  /\ UNCHANGED <<platform, call, told, handed, count, times, settled, reader, begun>>

\* record_dogstatsd_success and record_dogstatsd_error.
SendDone_Uncounted(c) ==
  /\ pc[c] \in {"sent", "unsent"}
  /\ IF pc[c] = "sent" THEN Counted("dogstatsd_successes") /\ Code(c, 0)
                       ELSE UNCHANGED count /\ Code(c, -2)
  /\ GoTo(c, "return")
  /\ UNCHANGED <<platform, told, handed, times, settled, reader, begun>>
SendDone(c) ==
  /\ pc[c] \in {"sent", "unsent"}
  /\ IF pc[c] = "sent" THEN Counted("dogstatsd_successes") /\ Code(c, 0)
                       ELSE Counted("dogstatsd_errors") /\ Code(c, -2)
  /\ GoTo(c, "return")
  /\ UNCHANGED <<platform, told, handed, times, settled, reader, begun>>

\* The call returns its code.
Return(c) ==
  /\ pc[c] = "return"
  /\ GoTo(c, "idle")
  /\ call' = [call EXCEPT ![c] = NoCall]
  /\ told' = [told EXCEPT ![c] = <<>>] /\ handed' = [handed EXCEPT ![c] = 0]
  /\ UNCHANGED <<platform, count, times, settled, reader, begun>>

(***************************************************************************)
(* GetMetrics                                                              *)
(***************************************************************************)
\* A field of the struct, if the model counts it.
Field(k) == IF k \in Counters THEN <<k>> ELSE <<>>

\* The fields in the order in which they are filled.
ReadOrder ==
  Field("GET") \o Field("POST") \o Field("PUT") \o Field("DELETE") \o Field("PATCH")
  \o Field("HEAD") \o Field("OPTIONS") \o Field("OTHER")
  \o Field("2xx") \o Field("3xx") \o Field("4xx") \o Field("5xx")
  \o <<"dogstatsd_requests", "dogstatsd_successes", "dogstatsd_errors">>

SnapshotBegin ==
  /\ reading = <<>>
  /\ reading' = ReadOrder /\ begun' = 0
  /\ snap' = [k \in Counters |-> 0]
  /\ UNCHANGED <<platform, pc, call, told, handed, count, times, settled>>

SnapshotRead ==
  /\ reading # <<>>
  /\ snap' = [snap EXCEPT ![Head(reading)] = count[Head(reading)]]
  /\ reading' = Tail(reading)
  /\ UNCHANGED <<platform, pc, call, told, handed, count, times, settled, begun>>

(***************************************************************************)
(* The specification                                                       *)
(***************************************************************************)
Begin(c) == ProxyInvalid(c) \/ ProxyBegin(c) \/ SendInvalid(c) \/ SendBegin(c)

ProxyStep(c) == \/ ProxyAnswered(c) \/ ProxyMeasured(c) \/ ProxyFailed(c) \/ ProxyPanics(c)
                \/ OnResponse(c) \/ OnError(c)

SendStep(c) == UdsSend(c) \/ PipeOpen(c) \/ PipeWrite(c) \/ PipeBreaks(c) \/ SendDone(c)

Next == \/ \E c \in Callers : Begin(c) \/ ProxyStep(c) \/ SendStep(c) \/ Return(c)
        \/ SnapshotBegin \/ SnapshotRead

Spec == Init /\ [][Next]_vars

(***************************************************************************)
(* Properties                                                              *)
(***************************************************************************)
\* The type invariant.
TypeOK ==
  /\ platform \in Platforms
  /\ pc \in [Callers -> {"idle", "request", "measure", "response", "error", "send", "write",
                         "sent", "unsent", "return"}]
  /\ call \in [Callers -> Calls]
  /\ told \in [Callers -> Seq({"response", "error"})]
  /\ handed \in [Callers -> 0..PayloadSize]
  /\ count \in [Counters -> Nat] /\ snap \in [Counters -> Nat]
  /\ average \in [Averages -> Nat] /\ samples \in Nat
  /\ seen \in [Averages -> SUBSET Durations]
  /\ settled \in [Ends -> Nat]
  /\ reading \in Seq(Counters) /\ begun \in Nat

Within(places) == Cardinality({c \in Callers : pc[c] \in places})

\* No call is lost or counted twice, whatever the threads do at the same time: the counted requests
\* are those that were answered, failed or panicked and those under way, the counters of the classes
\* add up to the responses that have one, the samples are the responses but for those not yet
\* measured, and each metric sent is a success or an error.
Conserved ==
  /\ Total(count, Methods) = settled["classed"] + settled["unclassed"] + settled["failed"]
                             + settled["panicked"] + Within({"request"})
  /\ Total(count, Classes) = settled["classed"]
  /\ samples + Within({"measure"}) = settled["classed"] + settled["unclassed"]
  /\ count["dogstatsd_requests"] =
       count["dogstatsd_successes"] + count["dogstatsd_errors"]
         + Within({"send", "write", "sent", "unsent"})

\* A call of ProxyTraceAgent makes exactly one callback before it returns, the one that its code
\* stands for, unless that pointer is null; it never makes both.
OneCallback ==
  \A c \in Callers : pc[c] = "return" /\ call[c].function = "proxy" =>
    told[c] = IF call[c].code = 0
              THEN IF c \in Responsive THEN <<"response">> ELSE <<>>
              ELSE IF c \in Attentive THEN <<"error">> ELSE <<>>

\* A metric reported as sent was handed over whole; one reported as failed over a socket not at
\* all (over a pipe the server may keep a part of it).
HandedOver ==
  \A c \in Callers : pc[c] = "return" /\ call[c].function = "send" =>
    /\ call[c].code = 0 => handed[c] = PayloadSize
    /\ call[c].code # 0 /\ platform = "unix" => handed[c] = 0

\* What a call reports, by its code and by its callback, is what happened.
Reported == OneCallback /\ HandedOver

\* Each moving average lies between the shortest and the longest response that went into it.
AverageInRange ==
  \A k \in Averages :
    IF seen[k] = {} THEN average[k] = 0
    ELSE \E low, high \in seen[k] : low <= average[k] /\ average[k] <= high

\* GetMetrics reads the requests before their results, so a snapshot may show more results than
\* requests, but never by more than the requests that began while it was taken.
SnapshotBound ==
  reading = <<>> =>
    /\ snap["dogstatsd_successes"] + snap["dogstatsd_errors"] <= snap["dogstatsd_requests"] + begun
    /\ Total(snap, Classes) <= Total(snap, Methods) + begun

=============================================================================
