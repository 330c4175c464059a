---------------------------- MODULE ProxyProofs ----------------------------
(***************************************************************************)
(* What the entry points report and count, and the moving averages, for    *)
(* any number of threads, payloads, status codes and durations.            *)
(*                                                                         *)
(* A call's report follows from what each place of its code may already    *)
(* have done (CallInv), which no other thread disturbs.  The averages need *)
(* that a zero stands for "no sample yet" and for nothing else, which      *)
(* holds because no response takes no time.  The counters are balanced     *)
(* step by step against the number of threads at each place (CountInv):    *)
(* for that, a sum over counters is unfolded by induction over the subsets *)
(* of a finite set, stated as the existence of a least counterexample.     *)
(***************************************************************************)
EXTENDS Proxy, FiniteSetTheorems, WellFoundedInduction, TLAPS

Places == {"idle", "request", "measure", "response", "error", "send", "write", "sent", "unsent",
           "return"}

CallTypes == /\ pc \in [Callers -> Places]
             /\ call \in [Callers -> Calls]
             /\ told \in [Callers -> Seq({"response", "error"})]
             /\ handed \in [Callers -> 0..PayloadSize]

\* The callback that a call of ProxyTraceAgent owes for its code.
Due(c) == IF call[c].code = 0
          THEN IF c \in Responsive THEN <<"response">> ELSE <<>>
          ELSE IF c \in Attentive THEN <<"error">> ELSE <<>>

\* What a metric has come to when its code is returned.
Sent(c) == /\ call[c].code = 0 => handed[c] = PayloadSize
           /\ call[c].code # 0 /\ platform = "unix" => handed[c] = 0

\* What a call has done when it has come to each place.
CallInv(c) ==
  /\ pc[c] # "return" => told[c] = <<>>
  /\ pc[c] \in {"idle", "request", "measure", "response", "error", "send"} => handed[c] = 0
  /\ pc[c] \in {"request", "measure", "response"} =>
       call[c].function = "proxy" /\ call[c].code = 0
  /\ pc[c] = "error" => call[c].function = "proxy" /\ call[c].code # 0
  /\ pc[c] \in {"send", "write", "sent", "unsent"} => call[c].function = "send"
  /\ pc[c] = "write" => platform = "windows" /\ handed[c] < PayloadSize
  /\ pc[c] = "sent" => handed[c] = PayloadSize
  /\ pc[c] = "unsent" /\ platform = "unix" => handed[c] = 0
  /\ pc[c] = "return" => /\ call[c].function = "proxy" => told[c] = Due(c)
                         /\ call[c].function = "send" => Sent(c)

CallsInv == CallTypes /\ \A c \in Callers : CallInv(c)

\* The moving averages: zero before the first sample, and within the samples from then on.
Ranged(k) == \E low, high \in seen[k] : low <= average[k] /\ average[k] <= high

AverageInv ==
  /\ average \in [Averages -> Nat] /\ samples \in Nat
  /\ seen \in [Averages -> SUBSET Durations]
  /\ samples = 0 <=> seen["all"] = {}
  /\ \A k \in Averages : IF seen[k] = {} THEN average[k] = 0 ELSE Ranged(k)

\* What the proofs use of the constants.
LEMMA Bounds == PayloadSize \in Nat \ {0} /\ Durations \subseteq Nat \ {0}
BY ProxyAssumption

(***************************************************************************)
(* The calls                                                               *)
(***************************************************************************)
\* The thread at work moves on and the others stay: it is enough to look at that one.
LEMMA OneMoves ==
  ASSUME CallsInv, NEW c \in Callers, CallTypes', CallInv(c)',
         platform' = platform,
         \A d \in Callers : d # c => /\ pc'[d] = pc[d] /\ call'[d] = call[d]
                                     /\ told'[d] = told[d] /\ handed'[d] = handed[d]
  PROVE  CallsInv'
BY DEF CallsInv, CallInv, Due, Sent

\* The steps that enter a call.
LEMMA BeginKeeps == ASSUME CallsInv, NEW c \in Callers, Begin(c) PROVE CallsInv'
<1>1. PICK f \in {"proxy", "send"}, n \in {0, -1}, p \in {"error", "request", "send", "return"} :
        /\ pc[c] = "idle" /\ pc' = [pc EXCEPT ![c] = p]
        /\ call' = [call EXCEPT ![c] = Calling(f, n)]
        /\ f = "proxy" /\ n = 0 => p = "request"
        /\ f = "proxy" /\ n = -1 => p = "error"
        /\ f = "send" /\ n = 0 => p = "send"
        /\ f = "send" /\ n = -1 => p = "return"
        /\ UNCHANGED <<platform, told, handed>>
  <2>1. CASE ProxyInvalid(c)
    BY <2>1 DEF ProxyInvalid, GoTo
  <2>2. CASE ProxyBegin(c)
    BY <2>2 DEF ProxyBegin, GoTo
  <2>3. CASE SendInvalid(c)
    BY <2>3 DEF SendInvalid, GoTo
  <2>4. CASE SendBegin(c)
    BY <2>4 DEF SendBegin, GoTo
  <2> QED BY <2>1, <2>2, <2>3, <2>4 DEF Begin
<1>3. Calling(f, n) \in Calls /\ Calling(f, n).function = f /\ Calling(f, n).code = n
  BY <1>1 DEF Calling, Calls
<1>4. CallTypes'
  BY <1>1, <1>3 DEF CallsInv, CallTypes, Places
<1>5. pc'[c] = p /\ call'[c] = Calling(f, n)
  BY <1>1 DEF CallsInv, CallTypes
<1>6. told[c] = <<>> /\ handed[c] = 0
  BY <1>1 DEF CallsInv, CallInv
<1>7. CallInv(c)'
  BY <1>1, <1>3, <1>5, <1>6 DEF CallInv, Sent
<1>8. \A d \in Callers : d # c => pc'[d] = pc[d] /\ call'[d] = call[d]
  BY <1>1 DEF CallsInv, CallTypes
<1> QED BY <1>1, <1>4, <1>7, <1>8, OneMoves

\* A response is there, and is measured: the callback is still to come.
LEMMA AnswerKeeps ==
  ASSUME CallsInv, NEW c \in Callers, ProxyAnswered(c) \/ ProxyMeasured(c)
  PROVE  CallsInv'
<1>1. PICK s \in Statuses \cup {0}, p \in {"measure", "response"} :
        /\ pc[c] \in {"request", "measure"} /\ pc' = [pc EXCEPT ![c] = p]
        /\ call' = [call EXCEPT ![c].status = s]
        /\ UNCHANGED <<platform, told, handed>>
  <2>1. CASE ProxyAnswered(c)
    BY <2>1 DEF ProxyAnswered, GoTo
  <2>2. CASE ProxyMeasured(c)
    BY <2>2 DEF ProxyMeasured, GoTo
  <2> QED BY <2>1, <2>2
<1>2. call[c] \in Calls /\ call'[c] = [call[c] EXCEPT !.status = s] /\ pc'[c] = p
  BY <1>1 DEF CallsInv, CallTypes
<1>3. call'[c] \in Calls /\ call'[c].function = call[c].function /\ call'[c].code = call[c].code
  BY <1>1, <1>2 DEF Calls
<1>4. CallTypes'
  BY <1>1, <1>2, <1>3 DEF CallsInv, CallTypes, Places
<1>5. CallInv(c)'
  BY <1>1, <1>2, <1>3 DEF CallsInv, CallInv
<1>6. \A d \in Callers : d # c => pc'[d] = pc[d] /\ call'[d] = call[d]
  BY <1>1 DEF CallsInv, CallTypes
<1> QED BY <1>1, <1>4, <1>5, <1>6, OneMoves

\* A request fails or panics: its code is not zero.
LEMMA FailKeeps ==
  ASSUME CallsInv, NEW c \in Callers, ProxyFailed(c) \/ ProxyPanics(c)
  PROVE  CallsInv'
<1>1. PICK n \in {-2, -100} :
        /\ pc[c] = "request" /\ pc' = [pc EXCEPT ![c] = "error"]
        /\ call' = [call EXCEPT ![c].code = n]
        /\ UNCHANGED <<platform, told, handed>>
  <2>1. CASE ProxyFailed(c)
    BY <2>1 DEF ProxyFailed, GoTo, Code
  <2>2. CASE ProxyPanics(c)
    BY <2>2 DEF ProxyPanics, GoTo, Code
  <2> QED BY <2>1, <2>2
<1>2. call[c] \in Calls /\ call'[c] = [call[c] EXCEPT !.code = n] /\ pc'[c] = "error"
  BY <1>1 DEF CallsInv, CallTypes
<1>3. call'[c] \in Calls /\ call'[c].function = call[c].function /\ call'[c].code = n
  BY <1>1, <1>2 DEF Calls
<1>4. CallTypes'
  BY <1>1, <1>2, <1>3 DEF CallsInv, CallTypes, Places
<1>5. CallInv(c)'
  BY <1>1, <1>2, <1>3 DEF CallsInv, CallInv
<1>6. \A d \in Callers : d # c => pc'[d] = pc[d] /\ call'[d] = call[d]
  BY <1>1 DEF CallsInv, CallTypes
<1> QED BY <1>1, <1>4, <1>5, <1>6, OneMoves

\* The callback is made once, and is the one that the code stands for.
LEMMA TellKeeps ==
  ASSUME CallsInv, NEW c \in Callers, OnResponse(c) \/ OnError(c)
  PROVE  CallsInv'
<1>1. PICK which \in {"response", "error"}, given \in BOOLEAN :
        /\ pc[c] = which /\ pc' = [pc EXCEPT ![c] = "return"]
        /\ told' = [told EXCEPT ![c] = IF given THEN Append(told[c], which) ELSE told[c]]
        /\ given <=> c \in (IF which = "response" THEN Responsive ELSE Attentive)
        /\ UNCHANGED <<platform, call, handed>>
  <2>1. CASE OnResponse(c)
    BY <2>1 DEF OnResponse, Tell, GoTo
  <2>2. CASE OnError(c)
    BY <2>2 DEF OnError, Tell, GoTo
  <2> QED BY <2>1, <2>2
<1>2. told[c] = <<>> /\ call[c].function = "proxy" /\ (call[c].code = 0 <=> which = "response")
  BY <1>1 DEF CallsInv, CallInv
<1>3. Append(told[c], which) = <<which>> /\ <<which>> \in Seq({"response", "error"})
  BY <1>1, <1>2
<1>4. /\ pc'[c] = "return"
      /\ told'[c] = IF given THEN <<which>> ELSE <<>>
  BY <1>1, <1>2, <1>3 DEF CallsInv, CallTypes
<1>5. CallTypes'
  BY <1>1, <1>3 DEF CallsInv, CallTypes, Places
<1>6. told'[c] = Due(c)
  BY <1>1, <1>2, <1>4 DEF Due
<1>7. CallInv(c)'
  BY <1>1, <1>2, <1>4, <1>6 DEF CallInv, Due
<1>8. \A d \in Callers : d # c => pc'[d] = pc[d] /\ told'[d] = told[d]
  BY <1>1 DEF CallsInv, CallTypes
<1> QED BY <1>1, <1>5, <1>7, <1>8, OneMoves

\* The transfer of a metric: it counts as sent with the last piece.
LEMMA TransferKeeps ==
  ASSUME CallsInv, NEW c \in Callers, UdsSend(c) \/ PipeOpen(c) \/ PipeWrite(c) \/ PipeBreaks(c)
  PROVE  CallsInv'
<1>1. pc[c] \in {"send", "write"} /\ handed[c] \in 0..PayloadSize /\ PayloadSize \in Nat \ {0}
  BY Bounds DEF CallsInv, CallTypes, UdsSend, PipeOpen, PipeWrite, PipeBreaks
<1>2. PICK p \in {"write", "sent", "unsent"}, n \in 0..PayloadSize :
        /\ pc' = [pc EXCEPT ![c] = p]
        /\ handed' = [handed EXCEPT ![c] = n]
        /\ p = "sent" => n = PayloadSize
        /\ p = "write" => platform = "windows" /\ n < PayloadSize
        /\ p = "unsent" /\ platform = "unix" => n = 0
        /\ UNCHANGED <<platform, call, told>>
  <2>1. CASE UdsSend(c)
    BY <1>1, <2>1 DEF UdsSend, GoTo, CallsInv, CallInv, CallTypes
  <2>2. CASE PipeOpen(c)
    BY <1>1, <2>2 DEF PipeOpen, GoTo, CallsInv, CallInv, CallTypes
  <2>3. CASE PipeWrite(c)
    <3>1. platform = "windows"
      BY <2>3 DEF PipeWrite, CallsInv, CallInv
    <3>2. PICK i \in 1..(PayloadSize - handed[c]) :
            /\ handed' = [handed EXCEPT ![c] = handed[c] + i]
            /\ pc' = [pc EXCEPT ![c] = IF handed[c] + i = PayloadSize THEN "sent" ELSE "write"]
            /\ UNCHANGED <<platform, call, told>>
      BY <2>3 DEF PipeWrite, GoTo
    <3> DEFINE m == handed[c] + i
               q == IF m = PayloadSize THEN "sent" ELSE "write"
    <3>3. m \in 0..PayloadSize /\ (m # PayloadSize => m < PayloadSize)
      BY <1>1, <3>2
    <3>4. q \in {"write", "sent", "unsent"} /\ (q = "sent" <=> m = PayloadSize) /\ q # "unsent"
      OBVIOUS
    <3>5. pc' = [pc EXCEPT ![c] = q] /\ handed' = [handed EXCEPT ![c] = m]
      BY <3>2
    <3> HIDE DEF m, q
    <3> QED BY <3>1, <3>2, <3>3, <3>4, <3>5
  <2>4. CASE PipeBreaks(c)
    BY <1>1, <2>4 DEF PipeBreaks, GoTo, CallsInv, CallInv, CallTypes
  <2> QED BY <2>1, <2>2, <2>3, <2>4
<1>3. CallTypes'
  BY <1>2 DEF CallsInv, CallTypes, Places
<1>4. pc'[c] = p /\ handed'[c] = n
  BY <1>2 DEF CallsInv, CallTypes
<1>5. told[c] = <<>> /\ call[c].function = "send"
  BY <1>1 DEF CallsInv, CallInv
<1>6. CallInv(c)'
  BY <1>2, <1>4, <1>5 DEF CallInv
<1>7. \A d \in Callers : d # c => pc'[d] = pc[d] /\ handed'[d] = handed[d]
  BY <1>2 DEF CallsInv, CallTypes
<1> QED BY <1>2, <1>3, <1>6, <1>7, OneMoves

\* The code of a metric says what its transfer came to.
LEMMA DoneKeeps == ASSUME CallsInv, NEW c \in Callers, SendDone(c) PROVE CallsInv'
<1>1. PICK n \in {0, -2} :
        /\ pc[c] \in {"sent", "unsent"} /\ (n = 0 <=> pc[c] = "sent")
        /\ pc' = [pc EXCEPT ![c] = "return"]
        /\ call' = [call EXCEPT ![c].code = n]
        /\ UNCHANGED <<platform, told, handed>>
  BY DEF SendDone, GoTo, Code
<1>2. call[c] \in Calls /\ call'[c] = [call[c] EXCEPT !.code = n] /\ pc'[c] = "return"
  BY <1>1 DEF CallsInv, CallTypes
<1>3. call'[c] \in Calls /\ call'[c].function = call[c].function /\ call'[c].code = n
  BY <1>1, <1>2 DEF Calls
<1>4. CallTypes'
  BY <1>1, <1>2, <1>3 DEF CallsInv, CallTypes, Places
<1>5. CallInv(c)'
  BY <1>1, <1>2, <1>3 DEF CallsInv, CallInv, Sent
<1>6. \A d \in Callers : d # c => pc'[d] = pc[d] /\ call'[d] = call[d]
  BY <1>1 DEF CallsInv, CallTypes
<1> QED BY <1>1, <1>4, <1>5, <1>6, OneMoves

\* The next call starts afresh.
LEMMA ReturnKeeps == ASSUME CallsInv, NEW c \in Callers, Return(c) PROVE CallsInv'
<1>1. /\ pc' = [pc EXCEPT ![c] = "idle"] /\ call' = [call EXCEPT ![c] = NoCall]
      /\ told' = [told EXCEPT ![c] = <<>>] /\ handed' = [handed EXCEPT ![c] = 0]
      /\ platform' = platform
  BY DEF Return, GoTo
<1>2. CallTypes'
  <2>1. NoCall \in Calls
    BY DEF NoCall, Calling, Calls
  <2>2. <<>> \in Seq({"response", "error"}) /\ 0 \in 0..PayloadSize
    BY Bounds
  <2> QED BY <1>1, <2>1, <2>2 DEF CallsInv, CallTypes, Places
<1>3. pc'[c] = "idle" /\ told'[c] = <<>> /\ handed'[c] = 0
  BY <1>1 DEF CallsInv, CallTypes
<1>4. CallInv(c)'
  BY <1>3 DEF CallInv
<1>5. \A d \in Callers : d # c => /\ pc'[d] = pc[d] /\ call'[d] = call[d]
                                  /\ told'[d] = told[d] /\ handed'[d] = handed[d]
  BY <1>1 DEF CallsInv, CallTypes
<1> QED BY <1>1, <1>2, <1>4, <1>5, OneMoves

\* Every step keeps what the calls have done in order.
LEMMA CallsInductive == Spec => []CallsInv
<1>1. Init => CallsInv
  <2>1. NoCall \in Calls
    BY DEF NoCall, Calling, Calls
  <2>2. <<>> \in Seq({"response", "error"}) /\ 0 \in 0..PayloadSize
    BY Bounds
  <2> QED BY <2>1, <2>2 DEF Init, CallsInv, CallTypes, CallInv, Places
<1>2. CallsInv /\ [Next]_vars => CallsInv'
  <2> SUFFICES ASSUME CallsInv, [Next]_vars PROVE CallsInv'
    OBVIOUS
  <2>1. ASSUME NEW c \in Callers, Begin(c) \/ ProxyStep(c) \/ SendStep(c) \/ Return(c)
        PROVE  CallsInv'
    BY <2>1, BeginKeeps, AnswerKeeps, FailKeeps, TellKeeps, TransferKeeps, DoneKeeps, ReturnKeeps
       DEF ProxyStep, SendStep
  <2>2. CASE SnapshotBegin \/ SnapshotRead \/ UNCHANGED vars
    BY <2>2 DEF SnapshotBegin, SnapshotRead, vars, CallsInv, CallTypes, CallInv, Due, Sent
  <2> QED BY <2>1, <2>2 DEF Next
<1> QED BY <1>1, <1>2, PTL DEF Spec

\* Whichever of validation, readiness, transport or a panic ends a call, and whatever other
\* threads do: its code, its one callback and what became of its payload agree.
THEOREM ReportedAlways == Spec => []Reported
<1>1. CallsInv => Reported
  BY DEF CallsInv, CallInv, Due, Sent, Reported, OneCallback, HandedOver
<1> QED BY <1>1, CallsInductive, PTL

(***************************************************************************)
(* The averages                                                            *)
(***************************************************************************)
\* A moving average stays between the old value and the new sample.
LEMMA MovedBetween ==
  ASSUME NEW old \in Nat, NEW d \in Nat
  PROVE  /\ Moved(old, d) \in Nat
         /\ d <= old => d <= Moved(old, d) /\ Moved(old, d) <= old
         /\ old <= d => old <= Moved(old, d) /\ Moved(old, d) <= d
BY DEF Moved

\* One sample keeps one average within its samples.
LEMMA SampleKeeps ==
  ASSUME AverageInv, NEW k \in Averages, NEW d \in Durations,
         average'[k] = update(k, d), seen'[k] = seen[k] \cup {d}
  PROVE  average'[k] \in Nat /\ seen'[k] # {} /\ Ranged(k)'
<1>1. d \in Nat \ {0} /\ average[k] \in Nat /\ seen[k] \subseteq Nat \ {0}
  BY Bounds DEF AverageInv
<1>2. CASE seen[k] = {}
  <2>1. update(k, d) = d
    BY <1>2 DEF update, AverageInv
  <2> QED BY <1>1, <2>1 DEF Ranged
<1>3. CASE seen[k] # {}
  <2>1. PICK low, high \in seen[k] : low <= average[k] /\ average[k] <= high
    BY <1>3 DEF AverageInv, Ranged
  <2>2. update(k, d) = Moved(average[k], d)
    BY <1>1, <1>3, <2>1 DEF update, AverageInv
  <2>3. low \in Nat /\ high \in Nat
    BY <1>1, <2>1
  <2>4. CASE d <= average[k]
    <3>1. Moved(average[k], d) \in Nat /\ d <= Moved(average[k], d)
          /\ Moved(average[k], d) <= average[k]
      BY <1>1, <2>4, MovedBetween
    <3>2. average'[k] \in Nat /\ d <= average'[k] /\ average'[k] <= high
      BY <1>1, <2>1, <2>2, <2>3, <3>1
    <3> QED BY <2>1, <3>2 DEF Ranged
  <2>5. CASE average[k] <= d
    <3>1. Moved(average[k], d) \in Nat /\ average[k] <= Moved(average[k], d)
          /\ Moved(average[k], d) <= d
      BY <1>1, <2>5, MovedBetween
    <3>2. average'[k] \in Nat /\ low <= average'[k] /\ average'[k] <= d
      BY <1>1, <2>1, <2>2, <2>3, <3>1
    <3> QED BY <2>1, <3>2 DEF Ranged
  <2> QED BY <1>1, <2>4, <2>5
<1> QED BY <1>2, <1>3

\* A measured response goes into the average of all and into that of its class.
LEMMA MeasureKeeps ==
  ASSUME AverageInv, NEW c \in Callers, ProxyMeasured(c)
  PROVE  AverageInv'
<1>1. PICK d \in Durations, moved \in SUBSET Averages :
        /\ "all" \in moved /\ samples' = samples + 1
        /\ average' = [k \in Averages |-> IF k \in moved THEN update(k, d) ELSE average[k]]
        /\ seen' = [k \in Averages |-> IF k \in moved THEN seen[k] \cup {d} ELSE seen[k]]
  <2> DEFINE class == {"all", ClassOf(call[c].status)} \cap Averages
  <2>1. class \in SUBSET Averages /\ "all" \in class
    BY DEF Averages
  <2>2. \E d \in Durations :
          /\ samples' = samples + 1
          /\ average' = [k \in Averages |-> IF k \in class THEN update(k, d) ELSE average[k]]
          /\ seen' = [k \in Averages |-> IF k \in class THEN seen[k] \cup {d} ELSE seen[k]]
    BY DEF ProxyMeasured
  <2> HIDE DEF class
  <2> QED BY <2>1, <2>2
<1>2. \A k \in moved : average'[k] \in Nat /\ seen'[k] # {} /\ Ranged(k)'
  BY <1>1, SampleKeeps
<1>3. \A k \in Averages \ moved : average'[k] = average[k] /\ seen'[k] = seen[k]
  BY <1>1
<1>4. /\ average' \in [Averages -> Nat] /\ samples' \in Nat
      /\ seen' \in [Averages -> SUBSET Durations]
  <2>1. samples' \in Nat
    BY <1>1 DEF AverageInv
  <2>2. \A k \in Averages : average'[k] \in Nat
    BY <1>2, <1>3 DEF AverageInv
  <2>3. average' \in [Averages -> Nat]
    BY <1>1, <2>2
  <2>4. seen' \in [Averages -> SUBSET Durations]
    BY <1>1 DEF AverageInv
  <2> QED BY <2>1, <2>3, <2>4
<1>5. samples' # 0 /\ seen'["all"] # {}
  BY <1>1, <1>2 DEF AverageInv
<1>6. \A k \in Averages : IF seen'[k] = {} THEN average'[k] = 0 ELSE Ranged(k)'
  BY <1>2, <1>3 DEF AverageInv, Ranged
<1> QED BY <1>4, <1>5, <1>6 DEF AverageInv

LEMMA AverageInductive == Spec => []AverageInv
<1>1. Init => AverageInv
  BY DEF Init, AverageInv, Averages
<1>2. AverageInv /\ [Next]_vars => AverageInv'
  <2> SUFFICES ASSUME AverageInv, [Next]_vars PROVE AverageInv'
    OBVIOUS
  <2>1. CASE \E c \in Callers : ProxyMeasured(c)
    BY <2>1, MeasureKeeps
  <2>2. CASE ~\E c \in Callers : ProxyMeasured(c)
    <3>1. UNCHANGED times
      BY <2>2 DEF Next, Begin, ProxyInvalid, ProxyBegin, SendInvalid, SendBegin, ProxyStep,
                  ProxyAnswered, ProxyFailed, ProxyPanics, OnResponse, OnError, Tell, SendStep,
                  UdsSend, PipeOpen, PipeWrite, PipeBreaks, SendDone, Return, SnapshotBegin,
                  SnapshotRead, vars
    <3> QED BY <3>1 DEF times, AverageInv, Ranged
  <2> QED BY <2>1, <2>2
<1> QED BY <1>1, <1>2, PTL DEF Spec

\* Whatever statuses and durations the responses have and whoever measures them, each average
\* lies within its samples: the seed of the first one is never mistaken for a sample.
THEOREM AverageInRangeAlways == Spec => []AverageInRange
<1>1. AverageInv => AverageInRange
  BY DEF AverageInv, Ranged, AverageInRange
<1> QED BY <1>1, AverageInductive, PTL

(***************************************************************************)
(* Sums                                                                    *)
(***************************************************************************)
\* Induction over the subsets of a finite set, by the least counterexample.
LEMMA LeastSubset ==
  ASSUME NEW S, IsFiniteSet(S), NEW B \in SUBSET SUBSET S, B # {}
  PROVE  \E T \in B : \A U \in SUBSET T : U # T => U \notin B
<1>1. FiniteSubsetsOf(S) = SUBSET S
  BY FS_FiniteSubsetsOfFinite
<1>2. PICK T \in B : \A U \in B : ~(<<U, T>> \in StrictSubsetOrdering(S))
  BY <1>1, FS_StrictSubsetOrderingWellFounded, WFMin
<1>3. ASSUME NEW U \in SUBSET T, U # T PROVE U \notin B
  BY <1>2, <1>3 DEF StrictSubsetOrdering
<1> QED BY <1>2, <1>3

\* The element that the fold takes first, and the equation that it solves on the subsets of S.
First(s) == CHOOSE x \in s : TRUE
Sums(f, S, g) ==
  g = [s \in SUBSET S |-> IF s = {} THEN 0 ELSE f[First(s)] + g[s \ {First(s)}]]

LEMMA FirstIn == ASSUME NEW s, s # {} PROVE First(s) \in s
BY DEF First

\* Two solutions agree where both are defined.
LEMMA SumsUnique ==
  ASSUME NEW f, NEW S, IsFiniteSet(S), NEW U \in SUBSET S, NEW V \in SUBSET S,
         NEW g, Sums(f, U, g), NEW h, Sums(f, V, h)
  PROVE  \A T \in SUBSET (U \cap V) : g[T] = h[T]
<1> DEFINE B == {T \in SUBSET (U \cap V) : g[T] # h[T]}
<1> SUFFICES ASSUME B # {} PROVE FALSE
  OBVIOUS
<1>1. PICK T \in B : \A W \in SUBSET T : W # T => W \notin B
  <2>1. B \in SUBSET SUBSET S
    OBVIOUS
  <2> HIDE DEF B
  <2> QED BY <2>1, LeastSubset
<1>2. CASE T = {}
  BY <1>1, <1>2 DEF Sums
<1>3. CASE T # {}
  <2>1. First(T) \in T
    BY <1>3, FirstIn
  <2>2. g[T \ {First(T)}] = h[T \ {First(T)}]
    BY <1>1, <2>1
  <2>3. T \in SUBSET U /\ T \in SUBSET V
    BY <1>1
  <2>4. g[T] = f[First(T)] + g[T \ {First(T)}]
    BY <1>3, <2>3 DEF Sums
  <2>5. h[T] = f[First(T)] + h[T \ {First(T)}]
    BY <1>3, <2>3 DEF Sums
  <2> QED BY <1>1, <2>2, <2>4, <2>5
<1> QED BY <1>2, <1>3

\* There is a solution.
LEMMA SumsExist ==
  ASSUME NEW f, NEW S, IsFiniteSet(S)
  PROVE  \E g : Sums(f, S, g)
<1> DEFINE B == {T \in SUBSET S : ~\E g : Sums(f, T, g)}
<1> SUFFICES ASSUME B # {} PROVE FALSE
  OBVIOUS
<1>1. PICK T \in B : \A W \in SUBSET T : W # T => W \notin B
  <2>1. B \in SUBSET SUBSET S
    OBVIOUS
  <2> HIDE DEF B
  <2> QED BY <2>1, LeastSubset
<1> DEFINE sol == [W \in SUBSET T |-> CHOOSE h : Sums(f, W, h)]
           V(s) == sol[s][s]
           g == [s \in SUBSET T |-> IF s = {} THEN 0 ELSE f[First(s)] + V(s \ {First(s)})]
<1>2. \A W \in SUBSET T : W # T => Sums(f, W, sol[W])
  <2> SUFFICES ASSUME NEW W \in SUBSET T, W # T PROVE Sums(f, W, sol[W])
    OBVIOUS
  <2>1. \E h : Sums(f, W, h)
    BY <1>1
  <2>2. Sums(f, W, CHOOSE h : Sums(f, W, h))
    BY <2>1
  <2> QED BY <2>2
<1>3. \A s \in SUBSET T : s # {} => /\ First(s) \in s
                                    /\ s \ {First(s)} \in SUBSET T
                                    /\ s \ {First(s)} # T
  BY FirstIn
<1>4. \A s \in SUBSET T : s # T => V(s) = g[s]
  <2> SUFFICES ASSUME NEW s \in SUBSET T, s # T PROVE V(s) = g[s]
    OBVIOUS
  <2>1. Sums(f, s, sol[s])
    BY <1>2
  <2>2. CASE s = {}
    BY <2>1, <2>2 DEF Sums
  <2>3. CASE s # {}
    <3> DEFINE r == s \ {First(s)}
    <3>1. r \in SUBSET T /\ r # T /\ r \in SUBSET s
      BY <1>3, <2>3
    <3>2. sol[s][s] = f[First(s)] + sol[s][r]
      BY <2>1, <2>3 DEF Sums
    <3>3. Sums(f, r, sol[r])
      BY <1>2, <3>1
    <3>4. sol[s][r] = sol[r][r]
      <4>1. s \in SUBSET S /\ r \in SUBSET S /\ r \in SUBSET (s \cap r)
        BY <3>1
      <4> HIDE DEF sol, r
      <4> QED BY <4>1, <2>1, <3>3, SumsUnique
    <3> HIDE DEF sol, r
    <3> QED BY <3>2, <3>4, <2>3 DEF r
  <2> QED BY <2>2, <2>3
<1>5. Sums(f, T, g)
  <2> HIDE DEF sol
  <2>1. \A s \in SUBSET T : g[s] = IF s = {} THEN 0 ELSE f[First(s)] + g[s \ {First(s)}]
    BY <1>3, <1>4
  <2>2. g = [s \in SUBSET T |-> IF s = {} THEN 0 ELSE f[First(s)] + g[s \ {First(s)}]]
    BY <2>1, Zenon
  <2> QED BY <2>2 DEF Sums
<1> QED BY <1>1, <1>5

\* What Total adds up to, element by element.
LEMMA TotalFirst ==
  ASSUME NEW f, NEW S, IsFiniteSet(S)
  PROVE  Total(f, S) = IF S = {} THEN 0 ELSE f[First(S)] + Total(f, S \ {First(S)})
<1> DEFINE sol(W) == CHOOSE g : Sums(f, W, g)
<1>1. \A W \in SUBSET S : Total(f, W) = sol(W)[W]
  BY DEF Total, FoldFunctionOnSet, MapThenFoldSet, Sums, First
<1>2. \A W \in SUBSET S : Sums(f, W, sol(W))
  BY SumsExist, FS_Subset
<1> DEFINE R == S \ {First(S)}
<1>3. R \in SUBSET S
  OBVIOUS
<1>4. sol(S)[R] = sol(R)[R]
  <2>1. Sums(f, S, sol(S)) /\ Sums(f, R, sol(R)) /\ S \in SUBSET S /\ R \in SUBSET (S \cap R)
    BY <1>2, <1>3
  <2> HIDE DEF sol, R
  <2> QED BY <2>1, <1>3, SumsUnique
<1>5. sol(S)[S] = IF S = {} THEN 0 ELSE f[First(S)] + sol(S)[R]
  <2>1. Sums(f, S, sol(S))
    BY <1>2
  <2> HIDE DEF sol
  <2> QED BY <2>1 DEF Sums
<1> HIDE DEF sol
<1> QED BY <1>1, <1>3, <1>4, <1>5

\* The counters are finitely many, and of three kinds.
LEMMA CounterKinds ==
  /\ IsFiniteSet(Counters)
  /\ Methods \subseteq Counters /\ Classes \subseteq Counters /\ DogStatsD \subseteq Counters
  /\ Methods \cap Classes = {} /\ Methods \cap DogStatsD = {} /\ Classes \cap DogStatsD = {}
<1> DEFINE M == {"GET", "POST", "PUT", "DELETE", "PATCH", "HEAD", "OPTIONS", "OTHER"}
           C == {"2xx", "3xx", "4xx", "5xx"}
<1>1. Methods \subseteq M
  BY ProxyAssumption
<1>2. Classes \subseteq C
  <2>1. \A s \in Statuses : ClassOf(s) \in C \cup {"none"}
    BY DEF ClassOf
  <2> QED BY <2>1 DEF Classes
<1>3. IsFiniteSet(M \cup C \cup DogStatsD)
  <2>1. \A a, b, c, d : IsFiniteSet({a, b, c, d})
    <3> TAKE a, b, c, d
    <3>1. IsFiniteSet({a}) /\ IsFiniteSet({a} \cup {b})
      BY FS_Singleton, FS_AddElement
    <3>2. IsFiniteSet(({a} \cup {b}) \cup {c})
      BY <3>1, FS_AddElement
    <3>3. IsFiniteSet((({a} \cup {b}) \cup {c}) \cup {d})
      BY <3>2, FS_AddElement
    <3>4. {a, b, c, d} = ((({a} \cup {b}) \cup {c}) \cup {d})
      OBVIOUS
    <3> QED BY <3>3, <3>4
  <2> DEFINE M1 == {"GET", "POST", "PUT", "DELETE"}
             M2 == {"PATCH", "HEAD", "OPTIONS", "OTHER"}
             D == {"dogstatsd_requests", "dogstatsd_successes", "dogstatsd_errors",
                   "dogstatsd_errors"}
  <2>2. IsFiniteSet(M1) /\ IsFiniteSet(M2) /\ IsFiniteSet(C) /\ IsFiniteSet(D)
    BY <2>1
  <2>3. M \cup C \cup DogStatsD = ((M1 \cup M2) \cup C) \cup D
    BY DEF DogStatsD
  <2> HIDE DEF M, C, M1, M2, D
  <2>4. IsFiniteSet(M1 \cup M2)
    BY <2>2, FS_Union
  <2>5. IsFiniteSet((M1 \cup M2) \cup C)
    BY <2>2, <2>4, FS_Union
  <2> QED BY <2>2, <2>3, <2>5, FS_Union
<1>4. Counters \in SUBSET (M \cup C \cup DogStatsD)
  BY <1>1, <1>2 DEF Counters
<1>5. IsFiniteSet(Counters)
  BY <1>3, <1>4, FS_Subset
<1> QED BY <1>1, <1>2, <1>5 DEF Counters, DogStatsD

\* A sum of counters is a natural number.
LEMMA TotalNat ==
  ASSUME NEW f \in [Counters -> Nat], NEW S \in SUBSET Counters
  PROVE  Total(f, S) \in Nat
<1> DEFINE B == {T \in SUBSET Counters : Total(f, T) \notin Nat}
<1> SUFFICES ASSUME B # {} PROVE FALSE
  OBVIOUS
<1>1. PICK T \in B : \A W \in SUBSET T : W # T => W \notin B
  <2>1. B \in SUBSET SUBSET Counters
    OBVIOUS
  <2> HIDE DEF B
  <2> QED BY <2>1, LeastSubset, CounterKinds
<1>2. Total(f, T) = IF T = {} THEN 0 ELSE f[First(T)] + Total(f, T \ {First(T)})
  BY <1>1, TotalFirst, CounterKinds, FS_Subset
<1>3. CASE T # {}
  <2>1. First(T) \in T
    BY <1>3, FirstIn
  <2>2. f[First(T)] \in Nat /\ Total(f, T \ {First(T)}) \in Nat
    BY <1>1, <2>1
  <2> QED BY <1>1, <1>2, <1>3, <2>2
<1> QED BY <1>1, <1>2, <1>3

\* Any element may be added last.
LEMMA TotalSplit ==
  ASSUME NEW f \in [Counters -> Nat], NEW S \in SUBSET Counters, NEW x \in S
  PROVE  Total(f, S) = f[x] + Total(f, S \ {x})
<1> DEFINE Splits(T) == \A y \in T : Total(f, T) = f[y] + Total(f, T \ {y})
           B == {T \in SUBSET Counters : ~Splits(T)}
<1> SUFFICES ASSUME B # {} PROVE FALSE
  OBVIOUS
<1>1. PICK T \in B : \A W \in SUBSET T : W # T => W \notin B
  <2>1. B \in SUBSET SUBSET Counters
    OBVIOUS
  <2> HIDE DEF B
  <2> QED BY <2>1, LeastSubset, CounterKinds
<1>2. \A W \in SUBSET T : W # T => Splits(W)
  BY <1>1
<1>3. PICK y \in T : Total(f, T) # f[y] + Total(f, T \ {y})
  BY <1>1
<1> DEFINE a == First(T)
<1>4. a \in T /\ Total(f, T) = f[a] + Total(f, T \ {a})
  BY <1>1, <1>3, FirstIn, TotalFirst, CounterKinds, FS_Subset
<1> HIDE DEF a
<1>5. a # y
  BY <1>3, <1>4
<1>6. Total(f, T \ {a}) = f[y] + Total(f, (T \ {a}) \ {y})
  BY <1>2, <1>4, <1>5
<1>7. Total(f, T \ {y}) = f[a] + Total(f, (T \ {y}) \ {a})
  BY <1>2, <1>4, <1>5
<1>8. (T \ {a}) \ {y} = (T \ {y}) \ {a}
  OBVIOUS
<1> DEFINE r == Total(f, (T \ {y}) \ {a})
<1>9. f[a] \in Nat /\ f[y] \in Nat /\ r \in Nat
  BY <1>1, <1>3, <1>4, TotalNat
<1>10. Total(f, T) = f[a] + (f[y] + r) /\ Total(f, T \ {y}) = f[a] + r
  BY <1>4, <1>6, <1>7, <1>8
<1> HIDE DEF r
<1> QED BY <1>3, <1>9, <1>10

\* A sum depends on its elements, and grows with each.
LEMMA TotalMonotone ==
  ASSUME NEW f \in [Counters -> Nat], NEW g \in [Counters -> Nat], NEW S \in SUBSET Counters,
         \A x \in S : f[x] <= g[x]
  PROVE  Total(f, S) <= Total(g, S)
<1> DEFINE B == {T \in SUBSET S : ~(Total(f, T) <= Total(g, T))}
<1> SUFFICES ASSUME B # {} PROVE FALSE
  BY DEF B
<1>1. PICK T \in B : \A W \in SUBSET T : W # T => W \notin B
  <2>1. B \in SUBSET SUBSET Counters
    OBVIOUS
  <2> HIDE DEF B
  <2> QED BY <2>1, LeastSubset, CounterKinds
<1>2. CASE T = {}
  <2>1. Total(f, T) = 0 /\ Total(g, T) = 0
    BY <1>2, TotalFirst, FS_EmptySet
  <2> QED BY <1>1, <2>1
<1>3. CASE T # {}
  <2>1. PICK x \in T : TRUE
    BY <1>3
  <2>2. Total(f, T) = f[x] + Total(f, T \ {x}) /\ Total(g, T) = g[x] + Total(g, T \ {x})
    BY <1>1, <2>1, TotalSplit
  <2>3. Total(f, T \ {x}) <= Total(g, T \ {x}) /\ f[x] <= g[x]
    BY <1>1, <2>1
  <2>4. /\ f[x] \in Nat /\ g[x] \in Nat
        /\ Total(f, T \ {x}) \in Nat /\ Total(g, T \ {x}) \in Nat
    BY <1>1, <2>1, TotalNat
  <2> QED BY <1>1, <2>2, <2>3, <2>4
<1> QED BY <1>2, <1>3

LEMMA TotalSame ==
  ASSUME NEW f \in [Counters -> Nat], NEW g \in [Counters -> Nat], NEW S \in SUBSET Counters,
         \A x \in S : f[x] = g[x]
  PROVE  Total(f, S) = Total(g, S)
<1>1. Total(f, S) <= Total(g, S)
  <2>1. \A x \in S : f[x] <= g[x]
    OBVIOUS
  <2> QED BY <2>1, TotalMonotone
<1>2. Total(g, S) <= Total(f, S)
  <2>1. \A x \in S : g[x] <= f[x]
    OBVIOUS
  <2> QED BY <2>1, TotalMonotone
<1> QED BY <1>1, <1>2, TotalNat

\* What one more at k makes of a sum.
LEMMA TotalCounted ==
  ASSUME NEW f \in [Counters -> Nat], NEW k \in Counters, NEW S \in SUBSET Counters
  PROVE  LET g == [f EXCEPT ![k] = @ + 1]
         IN /\ g \in [Counters -> Nat]
            /\ Total(g, S) = IF k \in S THEN Total(f, S) + 1 ELSE Total(f, S)
<1> DEFINE g == [f EXCEPT ![k] = @ + 1]
<1>1. g \in [Counters -> Nat] /\ g[k] = f[k] + 1 /\ \A x \in Counters : x # k => g[x] = f[x]
  OBVIOUS
<1> HIDE DEF g
<1>2. CASE k \in S
  <2>1. Total(g, S) = g[k] + Total(g, S \ {k}) /\ Total(f, S) = f[k] + Total(f, S \ {k})
    BY <1>1, <1>2, TotalSplit
  <2>2. Total(g, S \ {k}) = Total(f, S \ {k})
    BY <1>1, TotalSame
  <2>3. f[k] \in Nat /\ Total(f, S \ {k}) \in Nat
    BY TotalNat
  <2> QED BY <1>1, <1>2, <2>1, <2>2, <2>3 DEF g
<1>3. CASE k \notin S
  <2>1. Total(g, S) = Total(f, S)
    BY <1>1, <1>3, TotalSame
  <2> QED BY <1>1, <1>3, <2>1 DEF g
<1> QED BY <1>2, <1>3

\* What one thread's move makes of the number of threads at some places.
LEMMA WithinMoves ==
  ASSUME pc \in [Callers -> Places], NEW c \in Callers, NEW p, pc' = [pc EXCEPT ![c] = p], NEW P
  PROVE  /\ Within(P) \in Nat
         /\ pc[c] \in P => Within(P) > 0
         /\ Within(P)' = IF pc[c] \in P
                         THEN IF p \in P THEN Within(P) ELSE Within(P) - 1
                         ELSE IF p \in P THEN Within(P) + 1 ELSE Within(P)
<1> DEFINE A == {d \in Callers : pc[d] \in P}
           N == {d \in Callers : pc'[d] \in P}
<1>1. IsFiniteSet(A)
  BY ProxyAssumption, FS_Subset
<1>2. Within(P) = Cardinality(A) /\ Within(P)' = Cardinality(N)
  BY DEF Within
<1>3. N = IF p \in P THEN A \cup {c} ELSE A \ {c}
  OBVIOUS
<1>4. c \in A <=> pc[c] \in P
  OBVIOUS
<1> HIDE DEF A, N
<1>5. Cardinality(A) \in Nat /\ (c \in A => Cardinality(A) > 0)
  BY <1>1, FS_CardinalityType, FS_EmptySet
<1>6. /\ Cardinality(A \cup {c}) = IF c \in A THEN Cardinality(A) ELSE Cardinality(A) + 1
      /\ Cardinality(A \ {c}) = IF c \in A THEN Cardinality(A) - 1 ELSE Cardinality(A)
  BY <1>1, FS_AddElement, FS_RemoveElement
<1> QED BY <1>2, <1>3, <1>4, <1>5, <1>6

(***************************************************************************)
(* The counters                                                            *)
(***************************************************************************)
\* The places of a metric under way.
Metric == {"send", "write", "sent", "unsent"}

CounterTypes ==
  /\ count \in [Counters -> Nat] /\ snap \in [Counters -> Nat]
  /\ settled \in [Ends -> Nat]
  /\ samples \in Nat /\ begun \in Nat
  /\ platform \in Platforms /\ reading \in Seq(Counters)
  /\ pc \in [Callers -> Places]

\* The counters that the snapshot under way has read, all of them when it is over.
Got == Counters \ {reading[i] : i \in 1..Len(reading)}

SnapshotInv ==
  /\ \A k \in Counters : snap[k] <= count[k]
  /\ "dogstatsd_requests" \in Got =>
       count["dogstatsd_requests"] <= snap["dogstatsd_requests"] + begun
  /\ Total(count, Methods \cap Got) <= Total(snap, Methods \cap Got) + begun

\* The threads under way with a counted request, with an answer to be measured, with a metric.
Requesting == Within({"request"})
Measuring == Within({"measure"})
Sending == Within({"send", "write", "sent", "unsent"})

\* What a thread's move makes of these three numbers.
LEMMA Moves ==
  ASSUME CounterTypes, NEW c \in Callers, NEW p, GoTo(c, p)
  PROVE  /\ Requesting \in Nat
         /\ (pc[c] = "request" <=> p = "request") => Requesting' = Requesting
         /\ pc[c] = "request" /\ ~(p = "request") => Requesting' = Requesting - 1
         /\ ~(pc[c] = "request") /\ p = "request" => Requesting' = Requesting + 1
         /\ Measuring \in Nat
         /\ (pc[c] = "measure" <=> p = "measure") => Measuring' = Measuring
         /\ pc[c] = "measure" /\ ~(p = "measure") => Measuring' = Measuring - 1
         /\ ~(pc[c] = "measure") /\ p = "measure" => Measuring' = Measuring + 1
         /\ Sending \in Nat
         /\ (pc[c] \in Metric <=> p \in Metric) => Sending' = Sending
         /\ pc[c] \in Metric /\ ~(p \in Metric) => Sending' = Sending - 1
         /\ ~(pc[c] \in Metric) /\ p \in Metric => Sending' = Sending + 1
<1>1. pc \in [Callers -> Places]
  BY DEF CounterTypes
<1>2. \A P : /\ Within(P) \in Nat
             /\ Within(P)' = IF pc[c] \in P
                             THEN IF p \in P THEN Within(P) ELSE Within(P) - 1
                             ELSE IF p \in P THEN Within(P) + 1 ELSE Within(P)
  BY <1>1, WithinMoves DEF GoTo
<1>3. /\ pc[c] \in {"request"} <=> pc[c] = "request"
      /\ p \in {"request"} <=> p = "request"
      /\ pc[c] \in {"measure"} <=> pc[c] = "measure"
      /\ p \in {"measure"} <=> p = "measure"
  OBVIOUS
<1>4. /\ Requesting \in Nat
      /\ Requesting' = IF pc[c] = "request"
                       THEN IF p = "request" THEN Requesting ELSE Requesting - 1
                       ELSE IF p = "request" THEN Requesting + 1 ELSE Requesting
  BY <1>2, <1>3 DEF Requesting
<1>5. /\ Measuring \in Nat
      /\ Measuring' = IF pc[c] = "measure"
                      THEN IF p = "measure" THEN Measuring ELSE Measuring - 1
                      ELSE IF p = "measure" THEN Measuring + 1 ELSE Measuring
  BY <1>2, <1>3 DEF Measuring
<1>6. /\ Sending \in Nat
      /\ Sending' = IF pc[c] \in Metric
                    THEN IF p \in Metric THEN Sending ELSE Sending - 1
                    ELSE IF p \in Metric THEN Sending + 1 ELSE Sending
  BY <1>2 DEF Sending, Metric
<1> QED BY <1>4, <1>5, <1>6

\* The balance that Conserved strikes.
Balance ==
  /\ Total(count, Methods) = settled["classed"] + settled["unclassed"] + settled["failed"]
                             + settled["panicked"] + Requesting
  /\ Total(count, Classes) = settled["classed"]
  /\ samples + Measuring = settled["classed"] + settled["unclassed"]
  /\ count["dogstatsd_requests"] =
       count["dogstatsd_successes"] + count["dogstatsd_errors"] + Sending

\* The inductive invariant.
CountInv == CounterTypes /\ Balance /\ SnapshotInv

\* The numbers in it.
LEMMA Numbers ==
  ASSUME CounterTypes
  PROVE  /\ settled["classed"] \in Nat /\ settled["unclassed"] \in Nat
         /\ settled["failed"] \in Nat /\ settled["panicked"] \in Nat
         /\ count["dogstatsd_requests"] \in Nat /\ count["dogstatsd_successes"] \in Nat
         /\ count["dogstatsd_errors"] \in Nat /\ samples \in Nat
         /\ Total(count, Methods) \in Nat /\ Total(count, Classes) \in Nat
<1>1. Total(count, Methods) \in Nat /\ Total(count, Classes) \in Nat
  BY CounterKinds, TotalNat DEF CounterTypes
<1> QED BY <1>1, CounterKinds DEF CounterTypes, DogStatsD, Ends

\* A thread moves without an effect on what is counted.
LEMMA QuietMove ==
  ASSUME CountInv, NEW c \in Callers, NEW p \in Places, GoTo(c, p),
         UNCHANGED <<platform, count, samples, settled, reader, begun>>,
         pc[c] = "request" <=> p = "request", pc[c] = "measure" <=> p = "measure",
         pc[c] \in Metric <=> p \in Metric
  PROVE  CountInv'
<1>1. Requesting' = Requesting /\ Measuring' = Measuring /\ Sending' = Sending
  BY Moves DEF CountInv
<1>2. Balance'
  BY <1>1 DEF CountInv, Balance
<1>3. CounterTypes'
  BY DEF CountInv, CounterTypes, reader, GoTo
<1>4. SnapshotInv'
  BY DEF CountInv, SnapshotInv, Got, reader
<1> QED BY <1>2, <1>3, <1>4 DEF CountInv

\* A number that goes up by one under a condition.
Bit(b) == IF b THEN 1 ELSE 0

\* What one more at a counter makes of the sums and of the snapshot.
LEMMA CountedSums ==
  ASSUME CountInv, NEW k \in Counters, Counted(k)
  PROVE  /\ count' \in [Counters -> Nat]
         /\ count'[k] = count[k] + 1 /\ \A j \in Counters : j # k => count'[j] = count[j]
         /\ Total(count', Methods) = Total(count, Methods) + Bit(k \in Methods)
         /\ Total(count', Classes) = Total(count, Classes) + Bit(k \in Classes)
         /\ Total(count, Methods) \in Nat /\ Total(count, Classes) \in Nat
<1>1. count \in [Counters -> Nat] /\ count' = [count EXCEPT ![k] = @ + 1]
  BY DEF CountInv, CounterTypes, Counted
<1>2. Methods \in SUBSET Counters /\ Classes \in SUBSET Counters
  BY CounterKinds
<1>3. Total(count, Methods) \in Nat /\ Total(count, Classes) \in Nat
  BY <1>1, <1>2, TotalNat
<1>4. \A S \in SUBSET Counters :
        Total(count', S) = IF k \in S THEN Total(count, S) + 1 ELSE Total(count, S)
  BY <1>1, TotalCounted
<1>5. count' \in [Counters -> Nat] /\ count'[k] = count[k] + 1
      /\ \A j \in Counters : j # k => count'[j] = count[j]
  BY <1>1
<1> QED BY <1>2, <1>3, <1>4, <1>5 DEF Bit

LEMMA CountedSnapshot ==
  ASSUME CountInv, NEW k \in Counters, Counted(k), UNCHANGED reader, begun' \in Nat,
         begun' = begun + Bit(k \in Requests)
  PROVE  SnapshotInv'
<1>1. count \in [Counters -> Nat] /\ count' = [count EXCEPT ![k] = @ + 1] /\ begun \in Nat
  BY DEF CountInv, CounterTypes, Counted
<1>2. Got' = Got /\ snap' = snap
  BY DEF Got, reader
<1> DEFINE S == Methods \cap Got
<1>3. S \in SUBSET Counters
  BY CounterKinds
<1>4. Total(count', S) = (IF k \in S THEN Total(count, S) + 1 ELSE Total(count, S))
  BY <1>1, <1>3, TotalCounted
<1>5. Total(count, S) \in Nat /\ Total(snap, S) \in Nat
  BY <1>3, TotalNat DEF CountInv, CounterTypes
<1>6. k \in S => k \in Requests
  BY DEF Requests
<1>7. Total(count', S) <= Total(snap, S) + begun'
  BY <1>1, <1>4, <1>5, <1>6 DEF CountInv, SnapshotInv, Bit
<1>8. \A j \in Counters : snap[j] <= count'[j]
  BY <1>1 DEF CountInv, SnapshotInv, CounterTypes
<1>9. "dogstatsd_requests" \in Got =>
        count'["dogstatsd_requests"] <= snap["dogstatsd_requests"] + begun'
  <2> DEFINE q == "dogstatsd_requests"
  <2> SUFFICES ASSUME q \in Got PROVE count'[q] <= snap[q] + begun'
    OBVIOUS
  <2>1. q \in Counters /\ q \in Requests
    BY CounterKinds DEF DogStatsD, Requests
  <2>2. count[q] <= snap[q] + begun
    BY DEF CountInv, SnapshotInv
  <2>3. count[q] \in Nat /\ snap[q] \in Nat
    BY <2>1 DEF CountInv, CounterTypes
  <2> HIDE DEF q
  <2>4. CASE k = q
    <3>1. count'[q] = count[q] + 1 /\ begun' = begun + 1
      BY <1>1, <2>1, <2>4 DEF Bit
    <3> QED BY <1>1, <2>2, <2>3, <3>1
  <2>5. CASE k # q
    <3>1. count'[q] = count[q] /\ begun <= begun'
      BY <1>1, <2>1, <2>5 DEF Bit
    <3> QED BY <1>1, <2>2, <2>3, <3>1
  <2> QED BY <2>4, <2>5
<1> HIDE DEF S
<1> QED BY <1>2, <1>7, <1>8, <1>9 DEF SnapshotInv, S

\* The steps that count: each with its thread's move.
LEMMA BeginCounts == ASSUME CountInv, NEW c \in Callers, Begin(c) PROVE CountInv'
<1>1. CASE ProxyInvalid(c) \/ SendInvalid(c)
  <2>1. PICK p \in {"error", "return"} : GoTo(c, p) /\ pc[c] = "idle"
          /\ UNCHANGED <<platform, count, samples, settled, reader, begun>>
    BY <1>1 DEF ProxyInvalid, SendInvalid, times
  <2> QED BY <2>1, QuietMove DEF Places, Metric
<1>2. CASE ProxyBegin(c)
  <2>1. PICK m \in Methods : Counted(m) /\ begun' = begun + 1
    BY <1>2 DEF ProxyBegin, Begun
  <2>2. /\ pc[c] = "idle" /\ GoTo(c, "request")
        /\ UNCHANGED <<platform, samples, settled, reader>>
    BY <1>2 DEF ProxyBegin, times
  <2>3. m \in Counters /\ m \in Requests /\ m \notin Classes /\ m \notin DogStatsD
    BY <2>1, CounterKinds DEF Requests
  <2>4. /\ Requesting' = Requesting + 1 /\ Requesting \in Nat
        /\ Measuring' = Measuring /\ Sending' = Sending
    BY <2>2, Moves DEF CountInv, Metric
  <2>5. CounterTypes'
    BY <2>1, <2>2, <2>3, CountedSums DEF CountInv, CounterTypes, reader, Places, GoTo
  <2>6. /\ Total(count', Methods) = Total(count, Methods) + 1
        /\ Total(count', Classes) = Total(count, Classes)
        /\ \A j \in DogStatsD : count'[j] = count[j]
    BY <2>1, <2>3, CountedSums, CounterKinds, Numbers DEF CountInv, Bit
  <2>8. Balance'
    BY <2>2, <2>4, <2>6, Numbers DEF CountInv, Balance, DogStatsD
  <2>7. SnapshotInv'
    BY <2>1, <2>2, <2>3, <2>5, CountedSnapshot DEF Bit, CounterTypes
  <2> QED BY <2>5, <2>7, <2>8 DEF CountInv
<1>3. CASE SendBegin(c)
  <2> DEFINE k == "dogstatsd_requests"
  <2>1. /\ pc[c] = "idle" /\ GoTo(c, "send") /\ Counted(k) /\ begun' = begun + 1
        /\ UNCHANGED <<platform, samples, settled, reader>>
    BY <1>3 DEF SendBegin, Begun, times
  <2>2. k \in Counters /\ k \in Requests /\ k \notin Classes /\ k \notin Methods
    BY CounterKinds DEF Requests, DogStatsD
  <2>3. /\ Sending' = Sending + 1 /\ Sending \in Nat
        /\ Requesting' = Requesting /\ Measuring' = Measuring
    BY <2>1, Moves DEF CountInv, Metric
  <2>4. CounterTypes'
    BY <2>1, <2>2, CountedSums DEF CountInv, CounterTypes, reader, Places, GoTo
  <2>5. Balance'
    <3>1. /\ Total(count', Methods) = Total(count, Methods)
          /\ Total(count', Classes) = Total(count, Classes)
          /\ count'[k] = count[k] + 1
          /\ count'["dogstatsd_successes"] = count["dogstatsd_successes"]
          /\ count'["dogstatsd_errors"] = count["dogstatsd_errors"]
      BY <2>1, <2>2, CountedSums, CounterKinds, Numbers DEF CountInv, Bit, DogStatsD
    <3> QED BY <2>1, <2>3, <3>1, Numbers DEF CountInv, Balance
  <2>6. SnapshotInv'
    BY <2>1, <2>2, <2>4, CountedSnapshot DEF Bit, CounterTypes
  <2> QED BY <2>4, <2>5, <2>6 DEF CountInv
<1> QED BY <1>1, <1>2, <1>3 DEF Begin

\* One more of the requests that ended in a way.
LEMMA Settles ==
  ASSUME CounterTypes, NEW k \in Ends, Settled(k)
  PROVE  /\ settled' \in [Ends -> Nat] /\ settled'[k] = settled[k] + 1
         /\ \A j \in Ends : j # k => settled'[j] = settled[j]
BY DEF CounterTypes, Settled

\* A response counts for its class, if it has one, and for the balance in any case.
LEMMA AnswerCounts == ASSUME CountInv, NEW c \in Callers, ProxyAnswered(c) PROVE CountInv'
<1>1. PICK s \in Statuses :
        IF ClassOf(s) = "none" THEN UNCHANGED count /\ Settled("unclassed")
                               ELSE Counted(ClassOf(s)) /\ Settled("classed")
  BY DEF ProxyAnswered
<1>2. /\ pc[c] = "request" /\ GoTo(c, "measure")
      /\ UNCHANGED <<platform, samples, reader, begun>>
  BY DEF ProxyAnswered, times
<1>3. /\ Requesting' = Requesting - 1 /\ Requesting \in Nat
      /\ Measuring' = Measuring + 1 /\ Measuring \in Nat
      /\ Sending' = Sending
  BY <1>2, Moves DEF CountInv, Metric
<1> DEFINE k == ClassOf(s)
<1>4. k # "none" => k \in Classes /\ k \in Counters /\ k \notin Methods /\ k \notin DogStatsD
                    /\ k \notin Requests
  BY CounterKinds DEF Classes, Requests, DogStatsD
<1>5. CounterTypes /\ {"classed", "unclassed"} \subseteq Ends
  BY DEF CountInv, Ends
<1>6. /\ count' \in [Counters -> Nat] /\ settled' \in [Ends -> Nat]
      /\ Total(count', Methods) = Total(count, Methods)
      /\ Total(count', Classes) - settled'["classed"] = Total(count, Classes) - settled["classed"]
      /\ settled'["classed"] + settled'["unclassed"] = settled["classed"] + settled["unclassed"] + 1
      /\ \A j \in Ends \ {"classed", "unclassed"} : settled'[j] = settled[j]
      /\ \A j \in DogStatsD : count'[j] = count[j]
      /\ SnapshotInv'
  <2> HIDE DEF k
  <2>1. CASE k = "none"
    <3>1. count' = count /\ Got' = Got /\ snap' = snap /\ Settled("unclassed")
      BY <1>1, <1>2, <2>1 DEF k, Got, reader
    <3>2. SnapshotInv'
      BY <1>2, <3>1 DEF CountInv, SnapshotInv
    <3>3. /\ settled' \in [Ends -> Nat] /\ settled'["unclassed"] = settled["unclassed"] + 1
          /\ \A j \in Ends : j # "unclassed" => settled'[j] = settled[j]
      BY <1>5, <3>1, Settles
    <3>4. settled'["classed"] = settled["classed"]
      BY <1>5, <3>3
    <3>5. \A j \in Ends \ {"classed", "unclassed"} : settled'[j] = settled[j]
      BY <3>3
    <3>6. count' \in [Counters -> Nat]
      BY <1>5, <3>1 DEF CounterTypes
    <3>7. settled["classed"] \in Nat /\ settled["unclassed"] \in Nat /\ Total(count, Classes) \in Nat
      BY <1>5, Numbers
    <3> QED BY <3>1, <3>2, <3>3, <3>4, <3>5, <3>6, <3>7
  <2>2. CASE k # "none"
    <3>1. Counted(k) /\ Settled("classed")
      BY <1>1, <2>2 DEF k
    <3>2. SnapshotInv'
      BY <1>2, <1>4, <2>2, <3>1, CountedSnapshot DEF Bit, CountInv, CounterTypes
    <3>3. \A j \in DogStatsD : count'[j] = count[j]
      BY <1>4, <2>2, <3>1, CountedSums, CounterKinds
    <3>4. /\ count' \in [Counters -> Nat] /\ Total(count', Methods) = Total(count, Methods)
          /\ Total(count', Classes) = Total(count, Classes) + 1
      BY <1>4, <1>5, <2>2, <3>1, CountedSums, Numbers DEF Bit
    <3>5. /\ settled' \in [Ends -> Nat] /\ settled'["classed"] = settled["classed"] + 1
          /\ \A j \in Ends : j # "classed" => settled'[j] = settled[j]
      BY <1>5, <3>1, Settles
    <3>6. settled'["unclassed"] = settled["unclassed"]
      BY <1>5, <3>5
    <3>7. \A j \in Ends \ {"classed", "unclassed"} : settled'[j] = settled[j]
      BY <3>5
    <3>8. settled["classed"] \in Nat /\ settled["unclassed"] \in Nat /\ Total(count, Classes) \in Nat
      BY <1>5, Numbers
    <3> QED BY <3>2, <3>3, <3>4, <3>5, <3>6, <3>7, <3>8
  <2> QED BY <2>1, <2>2
<1>7. CounterTypes'
  BY <1>2, <1>5, <1>6 DEF CounterTypes, reader, Places, GoTo
<1>8. Balance'
  <2>1. settled'["failed"] = settled["failed"] /\ settled'["panicked"] = settled["panicked"]
    BY <1>6 DEF Ends
  <2>2. /\ count'["dogstatsd_requests"] = count["dogstatsd_requests"]
        /\ count'["dogstatsd_successes"] = count["dogstatsd_successes"]
        /\ count'["dogstatsd_errors"] = count["dogstatsd_errors"]
    BY <1>6 DEF DogStatsD
  <2>3. CounterTypes => Total(count', Classes) \in Nat /\ settled'["classed"] \in Nat
                        /\ settled'["unclassed"] \in Nat
    BY <1>5, <1>6, TotalNat, CounterKinds
  <2>4. Balance
    BY DEF CountInv
  <2>5. Total(count', Methods) = settled'["classed"] + settled'["unclassed"] + settled'["failed"]
                                 + settled'["panicked"] + Requesting'
    BY <1>3, <1>5, <1>6, <2>1, <2>3, <2>4, Numbers DEF Balance
  <2>6. Total(count', Classes) = settled'["classed"]
    BY <1>5, <1>6, <2>3, <2>4, Numbers DEF Balance
  <2>7. samples' + Measuring' = settled'["classed"] + settled'["unclassed"]
    BY <1>2, <1>3, <1>5, <1>6, <2>4, Numbers DEF Balance
  <2>8. count'["dogstatsd_requests"] =
          count'["dogstatsd_successes"] + count'["dogstatsd_errors"] + Sending'
    BY <1>3, <2>2, <2>4 DEF Balance
  <2> QED BY <2>5, <2>6, <2>7, <2>8 DEF Balance
<1> QED BY <1>6, <1>7, <1>8 DEF CountInv

\* A request that is not answered is one that failed or one that panicked.
LEMMA FailCounts ==
  ASSUME CountInv, NEW c \in Callers, ProxyFailed(c) \/ ProxyPanics(c)
  PROVE  CountInv'
<1>1. /\ UNCHANGED <<platform, count, samples, reader, begun>>
      /\ Settled("failed") \/ Settled("panicked")
      /\ pc[c] = "request" /\ GoTo(c, "error")
  BY DEF ProxyFailed, ProxyPanics, times
<1>2. CounterTypes
  BY DEF CountInv
<1>3. SnapshotInv'
  BY <1>1 DEF CountInv, SnapshotInv, Got, reader
<1>4. /\ settled' \in [Ends -> Nat]
      /\ settled'["failed"] + settled'["panicked"] = settled["failed"] + settled["panicked"] + 1
      /\ settled'["classed"] = settled["classed"] /\ settled'["unclassed"] = settled["unclassed"]
  BY <1>1, <1>2, Settles, Numbers DEF Ends
<1>5. CounterTypes'
  BY <1>1, <1>2, <1>4 DEF CounterTypes, reader, Places, GoTo
<1>6. Requesting' = Requesting - 1 /\ Measuring' = Measuring /\ Sending' = Sending
      /\ Requesting \in Nat
  BY <1>1, <1>2, Moves DEF Metric
<1>7. settled'["failed"] \in Nat /\ settled'["panicked"] \in Nat
  BY <1>4 DEF Ends
<1>8. Balance'
  <2>1. count' = count /\ samples' = samples
    BY <1>1
  <2>2. Total(count', Methods) = settled'["classed"] + settled'["unclassed"] + settled'["failed"]
                                 + settled'["panicked"] + Requesting'
    <3>1. /\ settled["classed"] \in Nat /\ settled["unclassed"] \in Nat
          /\ settled["failed"] \in Nat /\ settled["panicked"] \in Nat
      BY <1>2, Numbers
    <3>2. Total(count, Methods) = settled["classed"] + settled["unclassed"] + settled["failed"]
                                  + settled["panicked"] + Requesting
      BY DEF CountInv, Balance
    <3> QED BY <1>4, <1>6, <1>7, <2>1, <3>1, <3>2
  <2>3. /\ Total(count', Classes) = settled'["classed"]
        /\ samples' + Measuring' = settled'["classed"] + settled'["unclassed"]
        /\ count'["dogstatsd_requests"] =
             count'["dogstatsd_successes"] + count'["dogstatsd_errors"] + Sending'
    BY <1>4, <1>6, <2>1 DEF CountInv, Balance
  <2> QED BY <2>2, <2>3 DEF Balance
<1> QED BY <1>3, <1>5, <1>8 DEF CountInv

\* A sample is an answer that has been measured.
LEMMA MeasureCounts == ASSUME CountInv, NEW c \in Callers, ProxyMeasured(c) PROVE CountInv'
<1>1. /\ UNCHANGED <<platform, count, settled, reader, begun>> /\ samples' = samples + 1
      /\ pc[c] = "measure" /\ GoTo(c, "response")
  BY DEF ProxyMeasured
<1>2. CounterTypes
  BY DEF CountInv
<1>3. SnapshotInv'
  BY <1>1 DEF CountInv, SnapshotInv, Got, reader
<1>4. CounterTypes'
  BY <1>1, <1>2 DEF CounterTypes, reader, Places, GoTo
<1>5. Measuring' = Measuring - 1 /\ Requesting' = Requesting /\ Sending' = Sending
      /\ Measuring \in Nat
  BY <1>1, <1>2, Moves DEF Metric
<1>6. Balance'
  BY <1>1, <1>2, <1>5, Numbers DEF CountInv, Balance
<1> QED BY <1>3, <1>4, <1>6 DEF CountInv

LEMMA DoneCounts == ASSUME CountInv, NEW c \in Callers, SendDone(c) PROVE CountInv'
<1>1. PICK k \in {"dogstatsd_successes", "dogstatsd_errors"} : Counted(k)
  BY DEF SendDone
<1>2. /\ pc[c] \in {"sent", "unsent"} /\ GoTo(c, "return")
      /\ UNCHANGED <<platform, samples, settled, reader, begun>>
  BY DEF SendDone, times
<1>3. /\ k \in Counters /\ k \notin Classes /\ k \notin Methods /\ k \notin Requests
  BY <1>1, CounterKinds DEF Requests, DogStatsD
<1>4. /\ Sending' = Sending - 1 /\ Sending \in Nat
      /\ Requesting' = Requesting /\ Measuring' = Measuring
  <2>1. CounterTypes
    BY DEF CountInv
  <2> QED BY <1>2, <2>1, Moves DEF Metric
<1>5. SnapshotInv'
  BY <1>1, <1>2, <1>3, CountedSnapshot DEF Bit, CountInv, CounterTypes
<1>6. CounterTypes'
  BY <1>1, <1>2, <1>3, CountedSums DEF CountInv, CounterTypes, reader, Places, GoTo
<1>7. Balance'
  <2>1. /\ count'["dogstatsd_requests"] = count["dogstatsd_requests"]
        /\ count'["dogstatsd_successes"] + count'["dogstatsd_errors"]
             = count["dogstatsd_successes"] + count["dogstatsd_errors"] + 1
    <3>1. /\ count'[k] = count[k] + 1
          /\ \A j \in DogStatsD : j # k => count'[j] = count[j]
      BY <1>1, <1>3, CountedSums, CounterKinds
    <3> QED BY <1>1, <3>1, Numbers DEF DogStatsD, CountInv
  <2>2. Total(count', Methods) = Total(count, Methods)
        /\ Total(count', Classes) = Total(count, Classes)
    BY <1>1, <1>3, CountedSums, Numbers DEF Bit, CountInv
  <2>3. settled' = settled
    BY <1>2
  <2>4. count'["dogstatsd_successes"] \in Nat /\ count'["dogstatsd_errors"] \in Nat
    BY <1>6, CounterKinds DEF CounterTypes, DogStatsD
  <2> QED BY <1>2, <1>4, <2>1, <2>2, <2>3, <2>4, Numbers DEF CountInv, Balance
<1> QED BY <1>5, <1>6, <1>7 DEF CountInv

\* The other steps of a thread.
LEMMA RestCounts ==
  ASSUME CountInv, NEW c \in Callers,
         \/ OnResponse(c) \/ OnError(c) \/ Return(c)
         \/ UdsSend(c) \/ PipeOpen(c) \/ PipeWrite(c) \/ PipeBreaks(c)
  PROVE  CountInv'
<1>1. PICK p \in Places :
        /\ GoTo(c, p)
        /\ UNCHANGED <<platform, count, samples, settled, reader, begun>>
        /\ \/ pc[c] \in {"send", "write"} /\ p \in Metric
           \/ pc[c] \in {"response", "error", "return"} /\ p \in {"return", "idle"}
  <2>1. CASE OnResponse(c) \/ OnError(c)
    BY <2>1 DEF OnResponse, OnError, Tell, Places, times
  <2>2. CASE Return(c)
    BY <2>2 DEF Return, Places, times
  <2>3. CASE UdsSend(c) \/ PipeOpen(c) \/ PipeBreaks(c)
    BY <2>3 DEF UdsSend, PipeOpen, PipeBreaks, Places, times, Metric
  <2>4. CASE PipeWrite(c)
    BY <2>4 DEF PipeWrite, Places, times, Metric
  <2> QED BY <2>1, <2>2, <2>3, <2>4
<1> QED BY <1>1, QuietMove DEF Metric

\* The order of the fields names every counter.
Named(s, K) == s \in Seq(Counters) /\ \A k \in K \cap Counters : \E i \in 1..Len(s) : s[i] = k

LEMMA NamedField ==
  ASSUME NEW s, NEW K, Named(s, K), NEW f
  PROVE  Named(s \o Field(f), K \cup {f})
<1>1. Field(f) \in Seq(Counters) /\ s \in Seq(Counters)
  BY DEF Field, Named
<1>2. s \o Field(f) \in Seq(Counters)
  BY <1>1
<1>3. ASSUME NEW k \in (K \cup {f}) \cap Counters
      PROVE  \E i \in 1..Len(s \o Field(f)) : (s \o Field(f))[i] = k
  <2>1. CASE k \in K
    <3>1. PICK i \in 1..Len(s) : s[i] = k
      BY <1>3, <2>1 DEF Named
    <3>2. i \in 1..Len(s \o Field(f)) /\ (s \o Field(f))[i] = k
      BY <1>1, <3>1
    <3> QED BY <3>2
  <2>2. CASE k = f
    <3>1. Field(f) = <<k>>
      BY <1>3, <2>2 DEF Field
    <3>2. Len(s) + 1 \in 1..Len(s \o Field(f)) /\ (s \o Field(f))[Len(s) + 1] = k
      BY <1>1, <3>1
    <3> QED BY <3>2
  <2> QED BY <1>3, <2>1, <2>2
<1> QED BY <1>2, <1>3 DEF Named

\* An element of the second of two sequences.
LEMMA Behind ==
  ASSUME NEW S, NEW s \in Seq(S), NEW t \in Seq(S), NEW i \in 1..Len(t)
  PROVE  Len(s) + i \in 1..Len(s \o t) /\ (s \o t)[Len(s) + i] = t[i]
OBVIOUS

LEMMA OrderComplete == Named(ReadOrder, Counters)
<1> DEFINE s1 == Field("GET") \o Field("POST") \o Field("PUT") \o Field("DELETE")
                 \o Field("PATCH") \o Field("HEAD") \o Field("OPTIONS") \o Field("OTHER")
           K1 == {"GET", "POST", "PUT", "DELETE", "PATCH", "HEAD", "OPTIONS", "OTHER"}
           s2 == s1 \o Field("2xx") \o Field("3xx") \o Field("4xx") \o Field("5xx")
           K2 == K1 \cup {"2xx", "3xx", "4xx", "5xx"}
<1>1. Named(s1, K1)
  <2>1. Named(Field("GET"), {"GET"})
    BY DEF Named, Field
  <2>2. Named(Field("GET") \o Field("POST"), {"GET"} \cup {"POST"})
    BY <2>1, NamedField
  <2>3. Named(Field("GET") \o Field("POST") \o Field("PUT"), {"GET"} \cup {"POST"} \cup {"PUT"})
    BY <2>2, NamedField
  <2> DEFINE a == Field("GET") \o Field("POST") \o Field("PUT")
             A == {"GET"} \cup {"POST"} \cup {"PUT"}
  <2>4. Named(a, A)
    BY <2>3
  <2> HIDE DEF a, A
  <2>5. Named(a \o Field("DELETE"), A \cup {"DELETE"})
    BY <2>4, NamedField
  <2>6. Named(a \o Field("DELETE") \o Field("PATCH"), A \cup {"DELETE"} \cup {"PATCH"})
    BY <2>5, NamedField
  <2>7. Named(a \o Field("DELETE") \o Field("PATCH") \o Field("HEAD"),
              A \cup {"DELETE"} \cup {"PATCH"} \cup {"HEAD"})
    BY <2>6, NamedField
  <2> DEFINE b == a \o Field("DELETE") \o Field("PATCH") \o Field("HEAD")
             B == A \cup {"DELETE"} \cup {"PATCH"} \cup {"HEAD"}
  <2>8. Named(b, B)
    BY <2>7
  <2> HIDE DEF b, B
  <2>9. Named(b \o Field("OPTIONS"), B \cup {"OPTIONS"})
    BY <2>8, NamedField
  <2>10. Named(b \o Field("OPTIONS") \o Field("OTHER"), B \cup {"OPTIONS"} \cup {"OTHER"})
    BY <2>9, NamedField
  <2>11. K1 = B \cup {"OPTIONS"} \cup {"OTHER"} /\ s1 = b \o Field("OPTIONS") \o Field("OTHER")
    BY DEF A, B, a, b
  <2> QED BY <2>10, <2>11
<1> HIDE DEF s1, K1
<1>2. Named(s2, K2)
  <2>1. Named(s1 \o Field("2xx"), K1 \cup {"2xx"})
    BY <1>1, NamedField
  <2>2. Named(s1 \o Field("2xx") \o Field("3xx"), K1 \cup {"2xx"} \cup {"3xx"})
    BY <2>1, NamedField
  <2>3. Named(s1 \o Field("2xx") \o Field("3xx") \o Field("4xx"),
              K1 \cup {"2xx"} \cup {"3xx"} \cup {"4xx"})
    BY <2>2, NamedField
  <2>4. Named(s2, K1 \cup {"2xx"} \cup {"3xx"} \cup {"4xx"} \cup {"5xx"})
    BY <2>3, NamedField
  <2>5. K2 = K1 \cup {"2xx"} \cup {"3xx"} \cup {"4xx"} \cup {"5xx"}
    OBVIOUS
  <2> QED BY <2>4, <2>5
<1> HIDE DEF s2, K2
<1> DEFINE t == <<"dogstatsd_requests", "dogstatsd_successes", "dogstatsd_errors">>
<1>3. ReadOrder = s2 \o t
  BY DEF ReadOrder, s1, s2
<1>4. t \in Seq(Counters) /\ s2 \in Seq(Counters)
  BY <1>2, CounterKinds DEF Named, DogStatsD
<1>5. \A k \in DogStatsD : \E i \in 1..3 : t[i] = k
  BY DEF DogStatsD
<1>6. Counters \subseteq K2 \cup DogStatsD
  <2>1. \A s \in Statuses : ClassOf(s) \in {"2xx", "3xx", "4xx", "5xx", "none"}
    BY DEF ClassOf
  <2> QED BY <2>1, ProxyAssumption DEF Counters, Classes, K1, K2
<1>7. ASSUME NEW k \in Counters
      PROVE  \E i \in 1..Len(s2 \o t) : (s2 \o t)[i] = k
  <2>1. CASE k \in K2
    <3>1. PICK i \in 1..Len(s2) : s2[i] = k
      BY <1>2, <2>1 DEF Named
    <3> HIDE DEF t
    <3>2. i \in 1..Len(s2 \o t) /\ (s2 \o t)[i] = k
      BY <1>4, <3>1
    <3> QED BY <3>2
  <2>2. CASE k \in DogStatsD
    <3>1. PICK i \in 1..3 : t[i] = k
      BY <1>5, <2>2
    <3>2. i \in 1..Len(t)
      OBVIOUS
    <3> HIDE DEF t
    <3>3. Len(s2) + i \in 1..Len(s2 \o t) /\ (s2 \o t)[Len(s2) + i] = t[i]
      BY <1>4, <3>2, Behind
    <3> QED BY <3>1, <3>3
  <2> QED BY <1>6, <2>1, <2>2
<1>8. s2 \o t \in Seq(Counters)
  BY <1>4
<1> HIDE DEF t
<1> QED BY <1>3, <1>7, <1>8 DEF Named

\* The steps of the reader.
LEMMA SnapshotKeeps == ASSUME CountInv, SnapshotBegin \/ SnapshotRead PROVE CountInv'
<1>1. UNCHANGED <<platform, pc, count, samples, settled>>
  BY DEF SnapshotBegin, SnapshotRead, times
<1>2. Balance'
  BY <1>1 DEF CountInv, Balance, Requesting, Measuring, Sending, Within
<1>3. CounterTypes
  BY DEF CountInv
<1>4. CASE SnapshotBegin
  <2>1. reading' = ReadOrder /\ begun' = 0 /\ snap' = [k \in Counters |-> 0]
    BY <1>4 DEF SnapshotBegin
  <2>2. /\ ReadOrder \in Seq(Counters)
        /\ \A k \in Counters : \E i \in 1..Len(ReadOrder) : ReadOrder[i] = k
    BY OrderComplete DEF Named
  <2>3. CounterTypes'
    BY <1>1, <1>3, <2>1, <2>2 DEF CounterTypes
  <2>4. Got' = {}
    BY <2>1, <2>2 DEF Got
  <2>5. SnapshotInv'
    <3>1. Methods \cap Got' = {}
      BY <2>4
    <3>2. \A f : Total(f, {}) = 0
      BY TotalFirst, FS_EmptySet
    <3>3. Total(count', Methods \cap Got') = 0 /\ Total(snap', Methods \cap Got') = 0
      BY <3>1, <3>2
    <3> QED BY <1>1, <1>3, <2>1, <2>4, <3>3 DEF SnapshotInv, CounterTypes
  <2> QED BY <1>2, <2>3, <2>5 DEF CountInv
<1>5. CASE SnapshotRead
  <2> DEFINE k == Head(reading)
  <2>1. reading # <<>> /\ reading \in Seq(Counters)
    BY <1>3, <1>5 DEF SnapshotRead, CounterTypes
  <2>2. k \in Counters /\ Tail(reading) \in Seq(Counters)
    BY <2>1
  <2>3. snap' = [snap EXCEPT ![k] = count[k]] /\ reading' = Tail(reading) /\ begun' = begun
    BY <1>5 DEF SnapshotRead
  <2>4. {reading[i] : i \in 1..Len(reading)}
          \subseteq {Tail(reading)[i] : i \in 1..Len(Tail(reading))} \cup {k}
    <3> SUFFICES ASSUME NEW i \in 1..Len(reading), reading[i] # k
                 PROVE  \E j \in 1..Len(Tail(reading)) : Tail(reading)[j] = reading[i]
      OBVIOUS
    <3>1. i - 1 \in 1..Len(Tail(reading)) /\ Tail(reading)[i - 1] = reading[i]
      BY <2>1
    <3> QED BY <3>1
  <2>5. {Tail(reading)[i] : i \in 1..Len(Tail(reading))}
          \subseteq {reading[i] : i \in 1..Len(reading)}
    <3> SUFFICES ASSUME NEW i \in 1..Len(Tail(reading))
                 PROVE  \E j \in 1..Len(reading) : reading[j] = Tail(reading)[i]
      OBVIOUS
    <3>1. i + 1 \in 1..Len(reading) /\ Tail(reading)[i] = reading[i + 1]
      BY <2>1
    <3> QED BY <3>1
  <2> HIDE DEF k
  <2>6. Got \subseteq Got' /\ Got' \subseteq Got \cup {k} /\ Got' \subseteq Counters
    BY <2>3, <2>4, <2>5 DEF Got
  <2>7. CounterTypes'
    BY <1>1, <1>3, <2>2, <2>3 DEF CounterTypes
  <2>8. /\ snap' \in [Counters -> Nat] /\ snap'[k] = count[k] /\ count \in [Counters -> Nat]
        /\ snap \in [Counters -> Nat] /\ begun \in Nat /\ count' = count
        /\ \A j \in Counters : j # k => snap'[j] = snap[j]
    BY <1>1, <1>3, <2>2, <2>3 DEF CounterTypes
  <2>9. \A j \in Counters : snap'[j] <= count[j]
    BY <2>8 DEF CountInv, SnapshotInv
  <2>10. "dogstatsd_requests" \in Got' =>
           count["dogstatsd_requests"] <= snap'["dogstatsd_requests"] + begun
    BY <2>6, <2>8 DEF CountInv, SnapshotInv
  <2> DEFINE S == Methods \cap Got
             N == Methods \cap Got'
             R == S \ {k}
  <2>11. S \in SUBSET Counters /\ N \in SUBSET Counters /\ R \in SUBSET Counters
    BY CounterKinds
  <2>12. N \ {k} = R /\ (k \in S => k \in N) /\ (k \notin N => k \notin S)
    BY <2>6
  <2>13. Total(count, S) <= Total(snap, S) + begun
    BY DEF CountInv, SnapshotInv
  <2> HIDE DEF S, N
  <2>14. Total(count, R) \in Nat /\ Total(snap, R) \in Nat /\ Total(snap', R) = Total(snap, R)
    BY <2>8, <2>11, TotalNat, TotalSame
  <2>15. Total(count, R) <= Total(snap, R) + begun
    <3>1. CASE k \in S
      <4>1. /\ Total(count, S) = count[k] + Total(count, R)
            /\ Total(snap, S) = snap[k] + Total(snap, R)
        BY <2>8, <2>11, <3>1, TotalSplit
      <4>2. snap[k] <= count[k] /\ snap[k] \in Nat /\ count[k] \in Nat
        BY <2>2, <2>8 DEF CountInv, SnapshotInv
      <4> QED BY <2>8, <2>13, <2>14, <4>1, <4>2
    <3>2. CASE k \notin S
      <4>1. R = S
        BY <3>2
      <4> QED BY <2>13, <4>1
    <3> QED BY <3>1, <3>2
  <2>16. Total(count, N) <= Total(snap', N) + begun
    <3>1. CASE k \in N
      <4>1. /\ Total(count, N) = count[k] + Total(count, R)
            /\ Total(snap', N) = count[k] + Total(snap, R)
        BY <2>8, <2>11, <2>12, <2>14, <3>1, TotalSplit
      <4>2. count[k] \in Nat
        BY <2>2, <2>8
      <4> QED BY <2>8, <2>14, <2>15, <4>1, <4>2
    <3>2. CASE k \notin N
      <4>1. N = R
        BY <2>12, <3>2
      <4> HIDE DEF R
      <4> QED BY <2>8, <2>14, <2>15, <4>1
    <3> QED BY <3>1, <3>2
  <2>17. SnapshotInv'
    BY <2>3, <2>8, <2>9, <2>10, <2>16 DEF SnapshotInv, N
  <2> QED BY <1>2, <2>7, <2>17 DEF CountInv
<1> QED BY <1>4, <1>5

\* The invariant holds of every state.
LEMMA CountInductive == Spec => []CountInv
<1>1. Init => CountInv
  <2> SUFFICES ASSUME Init PROVE CountInv
    OBVIOUS
  <2>1. CounterTypes
    BY DEF Init, CounterTypes, Places
  <2>2. \A P : "idle" \notin P => Within(P) = 0
    <3> TAKE P
    <3>1. "idle" \notin P => {c \in Callers : pc[c] \in P} = {}
      BY DEF Init
    <3> QED BY <3>1, FS_EmptySet DEF Within
  <2>3. Requesting = 0 /\ Measuring = 0 /\ Sending = 0
    BY <2>2 DEF Requesting, Measuring, Sending
  <2>4. \A S \in SUBSET Counters : Total(count, S) = 0 /\ Total(snap, S) = 0
    <3> DEFINE z == [k \in Counters |-> 0]
    <3> SUFFICES ASSUME NEW S \in SUBSET Counters PROVE Total(z, S) = 0
      BY DEF Init
    <3> DEFINE B == {T \in SUBSET Counters : Total(z, T) # 0}
    <3> SUFFICES ASSUME B # {} PROVE FALSE
      OBVIOUS
    <3>1. PICK T \in B : \A W \in SUBSET T : W # T => W \notin B
      <4>1. B \in SUBSET SUBSET Counters
        OBVIOUS
      <4> HIDE DEF B
      <4> QED BY <4>1, LeastSubset, CounterKinds
    <3>2. Total(z, T) = IF T = {} THEN 0 ELSE z[First(T)] + Total(z, T \ {First(T)})
      BY <3>1, TotalFirst, CounterKinds, FS_Subset
    <3>3. T # {} => First(T) \in T
      BY FirstIn
    <3> QED BY <3>1, <3>2, <3>3
  <2>5. Balance
    BY <2>3, <2>4, CounterKinds DEF Init, Balance, DogStatsD, Ends
  <2>6. SnapshotInv
    BY <2>4, CounterKinds DEF Init, SnapshotInv, DogStatsD, Got
  <2> QED BY <2>1, <2>5, <2>6 DEF CountInv
<1>2. CountInv /\ [Next]_vars => CountInv'
  <2> SUFFICES ASSUME CountInv, [Next]_vars PROVE CountInv'
    OBVIOUS
  <2>1. ASSUME NEW c \in Callers, Begin(c) \/ ProxyStep(c) \/ SendStep(c) \/ Return(c)
        PROVE  CountInv'
    BY <2>1, BeginCounts, AnswerCounts, FailCounts, MeasureCounts, DoneCounts, RestCounts
       DEF ProxyStep, SendStep
  <2>2. CASE UNCHANGED vars
    BY <2>2 DEF vars, times, reader, CountInv, CounterTypes, Balance, SnapshotInv, Got,
                Requesting, Measuring, Sending, Within
  <2> QED BY <2>1, <2>2, SnapshotKeeps DEF Next
<1> QED BY <1>1, <1>2, PTL DEF Spec

\* No request is lost and none is counted twice, by any number of threads: each is in exactly one
\* of the accounts, wherever the threads are between the steps of their calls.
THEOREM ConservedAlways == Spec => []Conserved
<1>1. CountInv => Conserved
  BY DEF CountInv, Balance, Requesting, Measuring, Sending, Conserved
<1> QED BY <1>1, CountInductive, PTL

\* A snapshot taken while calls go on is off by no more than the requests that began meanwhile.
THEOREM SnapshotBoundAlways == Spec => []SnapshotBound
<1>1. CountInv => SnapshotBound
  <2> SUFFICES ASSUME CountInv, reading = <<>> PROVE
         /\ snap["dogstatsd_successes"] + snap["dogstatsd_errors"]
              <= snap["dogstatsd_requests"] + begun
         /\ Total(snap, Classes) <= Total(snap, Methods) + begun
    BY DEF SnapshotBound
  <2>1. Got = Counters
    BY DEF Got
  <2>2. CounterTypes
    BY DEF CountInv
  <2>3. /\ snap["dogstatsd_successes"] <= count["dogstatsd_successes"]
        /\ snap["dogstatsd_errors"] <= count["dogstatsd_errors"]
        /\ count["dogstatsd_requests"] <= snap["dogstatsd_requests"] + begun
        /\ snap["dogstatsd_successes"] \in Nat /\ snap["dogstatsd_errors"] \in Nat
        /\ snap["dogstatsd_requests"] \in Nat /\ begun \in Nat
    BY <2>1, <2>2, CounterKinds DEF CountInv, SnapshotInv, CounterTypes, DogStatsD
  <2>4. Sending \in Nat /\ Requesting \in Nat
    <3>1. \A P : Within(P) \in Nat
      <4> TAKE P
      <4>1. IsFiniteSet({c \in Callers : pc[c] \in P})
        BY ProxyAssumption, FS_Subset
      <4> QED BY <4>1, FS_CardinalityType DEF Within
    <3> QED BY <3>1 DEF Sending, Requesting
  <2>5. snap["dogstatsd_successes"] + snap["dogstatsd_errors"]
              <= snap["dogstatsd_requests"] + begun
    <3>1. count["dogstatsd_successes"] + count["dogstatsd_errors"] <= count["dogstatsd_requests"]
      BY <2>2, <2>4, Numbers DEF CountInv, Balance
    <3> DEFINE a == snap["dogstatsd_successes"]
               b == snap["dogstatsd_errors"]
               r == snap["dogstatsd_requests"]
               x == count["dogstatsd_successes"]
               y == count["dogstatsd_errors"]
               z == count["dogstatsd_requests"]
    <3>2. /\ a \in Nat /\ b \in Nat /\ r \in Nat /\ x \in Nat /\ y \in Nat /\ z \in Nat
          /\ a <= x /\ b <= y /\ z <= r + begun /\ x + y <= z /\ begun \in Nat
      BY <2>2, <2>3, <3>1, Numbers
    <3> HIDE DEF a, b, r, x, y, z
    <3>3. a + b <= r + begun
      BY <3>2
    <3> QED BY <3>3 DEF a, b, r
  <2>6. Total(snap, Classes) <= Total(count, Classes)
    BY <2>2, CounterKinds, TotalMonotone DEF CountInv, SnapshotInv, CounterTypes
  <2>7. Total(count, Methods) <= Total(snap, Methods) + begun
    <3>1. Methods \cap Got = Methods
      BY <2>1, CounterKinds
    <3> QED BY <3>1 DEF CountInv, SnapshotInv
  <2>8. Total(snap, Classes) \in Nat /\ Total(snap, Methods) \in Nat
    BY <2>2, CounterKinds, TotalNat DEF CounterTypes
  <2>9. Total(count, Classes) <= Total(count, Methods)
    <3> DEFINE c == Total(count, Classes)
               m == Total(count, Methods)
               a == settled["classed"]
               u == settled["unclassed"]
               f == settled["failed"]
               p == settled["panicked"]
    <3>1. /\ c \in Nat /\ m \in Nat /\ Requesting \in Nat
          /\ a \in Nat /\ u \in Nat /\ f \in Nat /\ p \in Nat
      BY <2>2, <2>4, Numbers
    <3>2. c = a /\ m = a + u + f + p + Requesting
      BY DEF CountInv, Balance
    <3> HIDE DEF c, m, a, u, f, p
    <3>3. c <= m
      BY <3>1, <3>2
    <3> QED BY <3>3 DEF c, m
  <2>10. Total(snap, Classes) <= Total(snap, Methods) + begun
    <3> DEFINE a == Total(snap, Classes)
               b == Total(count, Classes)
               m == Total(count, Methods)
               n == Total(snap, Methods)
    <3>1. /\ a \in Nat /\ b \in Nat /\ m \in Nat /\ n \in Nat /\ begun \in Nat
          /\ a <= b /\ b <= m /\ m <= n + begun
      BY <2>2, <2>3, <2>6, <2>7, <2>8, <2>9, Numbers
    <3> HIDE DEF a, b, m, n
    <3>2. a <= n + begun
      BY <3>1
    <3> QED BY <3>2 DEF a, n
  <2> QED BY <2>5, <2>10
<1> QED BY <1>1, CountInductive, PTL

\* Every variable keeps its type.
THEOREM ProxyTypes == Spec => []TypeOK
<1>1. CallsInv /\ AverageInv /\ CountInv => TypeOK
  BY DEF CallsInv, CallTypes, AverageInv, CountInv, CounterTypes, TypeOK, Places
<1> QED BY <1>1, CallsInductive, AverageInductive, CountInductive, PTL

=============================================================================
