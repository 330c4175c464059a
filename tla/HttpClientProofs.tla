-------------------------- MODULE HttpClientProofs --------------------------
(***************************************************************************)
(* What HttpClient promises, for every reply, every way to cut it into     *)
(* reads, every limit, buffer and timeout.                                 *)
(*                                                                         *)
(* The clock of a pipe call stays within its deadline because every wait   *)
(* takes what is left of it, and because none follows when nothing is      *)
(* left.  The count of waits in vain is bounded phase by phase: a phase    *)
(* that is reached at all is reached with the timeouts that Allowance says.*)
(*                                                                         *)
(* The decoder is held against MeaningOf, which reads a reply off all of   *)
(* its bytes at once.  In every state some position separates the bytes    *)
(* that have been consumed from the others (Reached), and the meaning of   *)
(* the reply is that of the former, continued by the latter (Stands).      *)
(* MeaningOf recurs over the chunks; that its function exists, and what it *)
(* yields, is shown by least counterexamples.                              *)
(***************************************************************************)
EXTENDS HttpClient, SequenceTheorems, WellFoundedInduction, TLAPS

(***************************************************************************)
(* The clock and the count of waits in vain                                *)
(***************************************************************************)
Phases == {"idle", "open", "write", "head", "drain", "length", "eof", "line", "data", "crlf",
           "trailer"}

\* The waits in vain that a call may have behind it.
Allowance == IF phase = "idle" THEN 2
             ELSE IF phase = "drain" THEN 1
             ELSE IF phase = "trailer" THEN 2 - need
             ELSE 0

ClockInv == /\ elapsed \in 0..Horizon
            /\ transport \in {"uds", "pipe"}
            /\ transport = "pipe" => elapsed <= Timeout + 1 /\ phase # "drain"

CountInv == /\ phase \in Phases
            /\ phase = "trailer" => need \in {1, 2}
            /\ timeouts \in Nat /\ timeouts <= Allowance

\* The inductive invariant.
IInv == ClockInv /\ CountInv

\* A wait takes time; over the pipe no more than what is left of the deadline, or one tick.
LEMMA ReadOutcome ==
  ASSUME ClockInv, NEW cap, NEW r \in Reads(cap)
  PROVE  /\ r.ticks \in Nat
         /\ transport = "pipe" => elapsed + r.ticks <= Timeout + 1
<1> USE HttpAssumption
<1>1. CASE rest # <<>>
  <2>1. r.ticks = 0
    BY <1>1 DEF Reads, Outcome
  <2> QED BY <2>1 DEF ClockInv, Horizon
<1>2. CASE rest = <<>> /\ transport = "uds"
  <2>1. r \in Arrivals(cap, Timeout) \cup Ending \cup Silence(Timeout)
    BY <1>2 DEF Reads, TransportReads, UdsReads
  <2>2. r.ticks \in Nat
    BY <2>1 DEF Arrivals, Ending, Silence, Outcome
  <2> QED BY <1>2, <2>2
<1>3. CASE rest = <<>> /\ transport = "pipe" /\ Expired
  <2>1. r.ticks = 0
    BY <1>3 DEF Reads, TransportReads, PipeReads, Outcome
  <2> QED BY <1>3, <2>1 DEF ClockInv, Horizon
<1>4. CASE rest = <<>> /\ transport = "pipe" /\ ~Expired
  <2> DEFINE wait == duration_to_millis(Remaining)
  <2>1. r \in Arrivals(cap, wait) \cup Ending \cup Silence(wait)
    BY <1>4 DEF Reads, TransportReads, PipeReads
  <2>2. wait \in Nat /\ elapsed + wait <= Timeout + 1 /\ elapsed \in Nat /\ elapsed <= Timeout + 1
    BY <1>4 DEF ClockInv, Horizon, Expired, Remaining, duration_to_millis
  <2> HIDE DEF wait
  <2>3. r.ticks \in Nat /\ (r.ticks <= wait \/ r.ticks = 0)
    BY <2>1, <2>2 DEF Arrivals, Ending, Silence, Outcome
  <2> QED BY <2>2, <2>3
<1> QED BY <1>1, <1>2, <1>3, <1>4 DEF ClockInv

\* What a wait of so many ticks leaves on the clock.
LEMMA ClockAdvance ==
  ASSUME ClockInv, NEW ticks \in Nat, elapsed' = After(ticks), transport' = transport,
         transport = "pipe" => elapsed + ticks <= Timeout + 1 /\ phase' # "drain"
  PROVE  ClockInv'
BY HttpAssumption DEF ClockInv, After, Horizon

\* What one read leaves on the clock and on the count.
LEMMA ReadKeepsClock ==
  ASSUME ClockInv, NEW cap, NEW r \in Reads(cap), Take(r), transport' = transport,
         transport = "pipe" => phase' # "drain"
  PROVE  ClockInv'
<1>1. r.ticks \in Nat /\ (transport = "pipe" => elapsed + r.ticks <= Timeout + 1)
  BY ReadOutcome
<1>2. elapsed' = After(r.ticks)
  BY DEF Take
<1> HIDE DEF Take
<1> QED BY <1>1, <1>2, ClockAdvance

\* A read in a phase that no timeout may precede, and that ends the call or goes on.
LEMMA ReadKeepsCount ==
  ASSUME CountInv, NEW cap, NEW r \in Reads(cap), Take(r), Allowance = 0,
         \/ phase' = "idle"
         \/ r.kind # "timeout" /\ phase' \in Phases \ {"trailer"}
         \/ r.kind # "timeout" /\ phase' = "trailer" /\ need' = 2
         \/ phase' = "drain"
  PROVE  CountInv'
<1>1. timeouts = 0
  BY DEF CountInv
<1>2. timeouts' \in {0, 1} /\ (r.kind # "timeout" => timeouts' = 0)
  BY <1>1 DEF Take
<1> QED BY <1>2 DEF CountInv, Allowance, Phases

\* The head: a wait in vain ends the call over the pipe, and leads to the drain over the socket.
LEMMA HeadKeeps == ASSUME IInv, ReadHead PROVE IInv'
<1>1. PICK r \in Reads(ReadSize) :
        /\ Take(r) /\ transport' = transport
        /\ \/ phase' = "idle"
           \/ phase' = "drain" /\ transport = "uds"
           \/ r.kind # "timeout" /\ phase' \in {"head", "length", "line", "eof"}
  BY DEF ReadHead, HeadFails, UdsHeadFails, HeadEnds, StartBody, LengthBody, GoOn, Return
<1>2. ClockInv'
  BY <1>1, ReadKeepsClock DEF IInv
<1>3. CountInv'
  BY <1>1, ReadKeepsCount DEF IInv, ReadHead, Allowance, Phases
<1> QED BY <1>2, <1>3 DEF IInv

\* The drain behind it ends with its first wait in vain.
LEMMA DrainKeeps == ASSUME IInv, UdsDrain PROVE IInv'
<1>1. PICK r \in UdsReads(BlockSize) :
        /\ Take(r) /\ transport' = transport /\ phase = "drain"
        /\ phase' = "idle" \/ (r.kind = "data" /\ phase' = "drain")
  BY DEF UdsDrain, GoOn, Return
<1>2. transport = "uds" /\ elapsed \in 0..Horizon
  BY <1>1 DEF IInv, ClockInv
<1>3. r.ticks \in Nat
  BY HttpAssumption DEF UdsReads, Arrivals, Ending, Silence, Outcome
<1>4. ClockInv'
  BY <1>1, <1>2, <1>3, ClockAdvance DEF IInv, Take
<1>5. CountInv'
  BY <1>1 DEF IInv, CountInv, Allowance, Take, Phases
<1> QED BY <1>4, <1>5 DEF IInv

\* The body: every wait in vain ends the call.
LEMMA BodyKeeps ==
  ASSUME IInv, ReadLength \/ ReadEof \/ ReadSizeLine \/ ReadChunk \/ ReadCrlf
  PROVE  IInv'
<1>1. phase \in {"length", "eof", "line", "data", "crlf"}
  BY DEF ReadLength, ReadEof, ReadSizeLine, ReadChunk, ReadCrlf
<1>2. \E cap : \E r \in Reads(cap) :
        /\ Take(r) /\ transport' = transport
        /\ \/ phase' = "idle"
           \/ r.kind # "timeout" /\ phase' \in {"length", "eof", "line", "data", "crlf"}
           \/ r.kind # "timeout" /\ phase' = "trailer" /\ need' = 2
  <2>1. CASE ReadLength
    BY <2>1 DEF ReadLength, GoOn, Return
  <2>2. CASE ReadEof
    BY <2>2 DEF ReadEof, GoOn, Return
  <2>3. CASE ReadSizeLine
    BY <2>3 DEF ReadSizeLine, Sized, GoOn, Return
  <2>4. CASE ReadChunk
    BY <2>4 DEF ReadChunk, GoOn, Return
  <2>5. CASE ReadCrlf
    BY <2>5 DEF ReadCrlf, GoOn, Return
  <2> QED BY <2>1, <2>2, <2>3, <2>4, <2>5
<1>3. PICK cap : \E r \in Reads(cap) :
        /\ Take(r) /\ transport' = transport
        /\ \/ phase' = "idle"
           \/ r.kind # "timeout" /\ phase' \in {"length", "eof", "line", "data", "crlf"}
           \/ r.kind # "timeout" /\ phase' = "trailer" /\ need' = 2
  BY <1>2
<1>4. PICK r \in Reads(cap) :
        /\ Take(r) /\ transport' = transport
        /\ \/ phase' = "idle"
           \/ r.kind # "timeout" /\ phase' \in {"length", "eof", "line", "data", "crlf"}
           \/ r.kind # "timeout" /\ phase' = "trailer" /\ need' = 2
  BY <1>3
<1>5. ClockInv'
  BY <1>4, ReadKeepsClock DEF IInv
<1>6. CountInv'
  BY <1>1, <1>4, ReadKeepsCount DEF IInv, Allowance, Phases
<1> QED BY <1>5, <1>6 DEF IInv

\* Each of the two reads behind the last chunk may wait in vain.
LEMMA TrailerKeeps == ASSUME IInv, ReadTrailer PROVE IInv'
<1>1. PICK r \in Reads(1) :
        /\ Take(r) /\ transport' = transport /\ phase = "trailer"
        /\ \/ need = 2 /\ phase' = "trailer" /\ need' = 1
           \/ need = 1 /\ phase' = "idle"
  BY DEF ReadTrailer, GoOn, Return
<1>2. ClockInv'
  BY <1>1, ReadKeepsClock DEF IInv
<1>3. timeouts' \in Nat /\ timeouts' <= timeouts + 1
  BY <1>1 DEF IInv, CountInv, Take
<1>4. CountInv'
  BY <1>1, <1>3 DEF IInv, CountInv, Allowance, Phases
<1> QED BY <1>2, <1>4 DEF IInv

\* The request: a wait in vain ends the call.
LEMMA RequestKeeps ==
  ASSUME IInv,
         \/ UdsConnect \/ PipeExpired \/ PipeOpen \/ PipeBusy \/ PipeMissing
         \/ UdsWrite \/ PipeWrite
  PROVE  IInv'
<1> USE HttpAssumption
<1>1. phase \in {"open", "write"} /\ timeouts = 0 /\ transport' = transport
  BY DEF IInv, CountInv, Allowance, UdsConnect, PipeExpired, PipeOpen, PipeBusy, PipeMissing,
         UdsWrite, PipeWrite, Opened, Fail, FailAfter, Return, Wrote
<1>2. /\ phase' \in {"open", "write", "head", "idle"}
      /\ timeouts' = 0 \/ (timeouts' = 1 /\ phase' = "idle")
  BY <1>1 DEF UdsConnect, PipeExpired, PipeOpen, PipeBusy, PipeMissing, UdsWrite, PipeWrite,
              Opened, Fail, FailAfter, Return, Wrote
<1>3. CountInv'
  BY <1>2 DEF CountInv, Allowance, Phases
<1>4. \/ elapsed' = elapsed
      \/ \E ticks \in Nat : /\ elapsed' = After(ticks)
                            /\ transport = "pipe" => elapsed + ticks <= Timeout + 1
  <2>1. CASE UdsConnect \/ PipeExpired \/ PipeOpen
    BY <2>1 DEF UdsConnect, PipeExpired, PipeOpen, Opened, Fail
  <2>2. CASE PipeBusy
    BY <2>2 DEF PipeBusy, IInv, ClockInv, Horizon, Fail, FailAfter, Expired, Remaining,
                duration_to_millis
  <2>3. CASE PipeMissing
    BY <2>3 DEF PipeMissing, IInv, ClockInv, Horizon, Fail, Expired, Remaining
  <2>4. CASE UdsWrite
    BY <2>4 DEF UdsWrite, Wrote, Fail, FailAfter
  <2>5. CASE PipeWrite
    BY <2>5 DEF PipeWrite, IInv, ClockInv, Horizon, Wrote, Fail, FailAfter, Expired, Remaining,
                duration_to_millis
  <2> QED BY <2>1, <2>2, <2>3, <2>4, <2>5
<1>5. CASE elapsed' = elapsed
  BY <1>1, <1>2, <1>3, <1>5 DEF IInv, ClockInv, Horizon
<1>6. CASE \E ticks \in Nat : /\ elapsed' = After(ticks)
                              /\ transport = "pipe" => elapsed + ticks <= Timeout + 1
  BY <1>1, <1>2, <1>3, <1>6, ClockAdvance DEF IInv
<1> QED BY <1>4, <1>5, <1>6

\* The invariant holds of every state.
LEMMA Inductive == Spec => []IInv
<1>1. Init => IInv
  BY HttpAssumption DEF Init, IInv, ClockInv, CountInv, Allowance, Phases, Horizon
<1>2. IInv /\ [Next]_vars => IInv'
  <2> SUFFICES ASSUME IInv, [Next]_vars PROVE IInv'
    OBVIOUS
  <2>1. CASE Call
    BY <2>1, HttpAssumption DEF Call, IInv, ClockInv, CountInv, Allowance, Phases, Horizon
  <2>2. CASE \/ UdsConnect \/ PipeExpired \/ PipeOpen \/ PipeBusy \/ PipeMissing
             \/ UdsWrite \/ PipeWrite
    BY <2>2, RequestKeeps
  <2>3. CASE ReadLength \/ ReadEof \/ ReadSizeLine \/ ReadChunk \/ ReadCrlf
    BY <2>3, BodyKeeps
  <2>4. CASE UNCHANGED vars
    BY <2>4 DEF vars, IInv, ClockInv, CountInv, Allowance, Horizon
  <2> QED BY <2>1, <2>2, <2>3, <2>4, HeadKeeps, DrainKeeps, TrailerKeeps DEF Next, Step
<1> QED BY <1>1, <1>2, PTL DEF Spec

\* A call over the named pipe is over one tick after its deadline.
THEOREM PipeDeadlineAlways == Spec => []PipeDeadline
<1>1. IInv => PipeDeadline
  BY DEF IInv, ClockInv, PipeDeadline
<1> QED BY <1>1, Inductive, PTL

\* A silent peer costs a call two waits, wherever in the reply it falls silent.
THEOREM TwoTimeoutsAlways == Spec => []TwoTimeouts
<1>1. IInv => TwoTimeouts
  BY DEF IInv, CountInv, Allowance, TwoTimeouts
<1> QED BY <1>1, Inductive, PTL

(***************************************************************************)
(* Pieces of a sequence of bytes                                           *)
(***************************************************************************)
\* A byte.
Bytes == 0..255

\* The bytes of w behind position a, up to position b.
Slice(w, a, b) == SubSeq(w, a + 1, b)

\* A slice has bytes, as many as its ends are apart, and they are those of w.
LEMMA SliceLen ==
  ASSUME NEW w \in Seq(Bytes), NEW a \in Nat, NEW b \in Nat, a <= b, b <= Len(w)
  PROVE  /\ Slice(w, a, b) \in Seq(Bytes) /\ Len(Slice(w, a, b)) = b - a
         /\ \A i \in 1..(b - a) : Slice(w, a, b)[i] = w[a + i]
<1>1. \A i \in (a + 1)..b : w[i] \in Bytes
  BY ElementOfSeq
<1>2. /\ SubSeq(w, a + 1, b) \in Seq(Bytes)
      /\ Len(SubSeq(w, a + 1, b)) = IF a + 1 <= b THEN b - (a + 1) + 1 ELSE 0
      /\ \A i \in 1 .. b - (a + 1) + 1 : SubSeq(w, a + 1, b)[i] = w[a + 1 + i - 1]
  <2> DEFINE m == a + 1
  <2>1. m \in Int /\ b \in Int /\ \A i \in m..b : w[i] \in Bytes
    BY <1>1
  <2> HIDE DEF m
  <2>2. /\ SubSeq(w, m, b) \in Seq(Bytes)
        /\ Len(SubSeq(w, m, b)) = IF m <= b THEN b - m + 1 ELSE 0
        /\ \A i \in 1 .. b - m + 1 : SubSeq(w, m, b)[i] = w[m + i - 1]
    BY <2>1, SubSeqProperties
  <2> QED BY <2>2 DEF m
<1>3. b - (a + 1) + 1 = b - a /\ \A i \in 1..(b - a) : a + 1 + i - 1 = a + i
  OBVIOUS
<1> QED BY <1>2, <1>3 DEF Slice

\* Two slices that meet make one.
LEMMA SliceJoin ==
  ASSUME NEW w \in Seq(Bytes), NEW a \in Nat, NEW b \in Nat, NEW c \in Nat,
         a <= b, b <= c, c <= Len(w)
  PROVE  Slice(w, a, b) \o Slice(w, b, c) = Slice(w, a, c)
<1>1. Len(w) \in Nat
  BY LenProperties
<1>2. a + 1 \in 1..Len(w) + 1 /\ b \in (a + 1) - 1..Len(w) /\ c \in b..Len(w)
  BY <1>1
<1> QED BY <1>2, ConcatAdjacentSubSeq DEF Slice

\* A slice of a slice is a slice.
LEMMA SliceOfSlice ==
  ASSUME NEW w \in Seq(Bytes), NEW a \in Nat, NEW b \in Nat, a <= b, b <= Len(w),
         NEW i \in Nat, NEW j \in Nat, i <= j, j <= b - a
  PROVE  Slice(Slice(w, a, b), i, j) = Slice(w, a + i, a + j)
<1> DEFINE s == Slice(w, a, b)
           t == Slice(s, i, j)
           u == Slice(w, a + i, a + j)
<1>1. s \in Seq(Bytes) /\ Len(s) = b - a /\ \A k \in 1..(b - a) : s[k] = w[a + k]
  BY SliceLen
<1>2. t \in Seq(Bytes) /\ Len(t) = j - i /\ \A k \in 1..(j - i) : t[k] = s[i + k]
  <2> HIDE DEF s
  <2>1. j <= Len(s)
    BY <1>1
  <2> QED BY <2>1, <1>1, SliceLen
<1>3. /\ a + i \in Nat /\ a + j \in Nat /\ a + i <= a + j /\ a + j <= Len(w)
      /\ (a + j) - (a + i) = j - i
  BY LenProperties
<1>4. u \in Seq(Bytes) /\ Len(u) = j - i /\ \A k \in 1..(j - i) : u[k] = w[a + i + k]
  <2> DEFINE p == a + i
             q == a + j
  <2> HIDE DEF p, q
  <2>1. p \in Nat /\ q \in Nat /\ p <= q /\ q <= Len(w)
    BY <1>3 DEF p, q
  <2>2. /\ Slice(w, p, q) \in Seq(Bytes) /\ Len(Slice(w, p, q)) = q - p
        /\ \A k \in 1..(q - p) : Slice(w, p, q)[k] = w[p + k]
    BY <2>1, SliceLen
  <2>3. q - p = j - i
    BY <1>3 DEF p, q
  <2> QED BY <2>2, <2>3 DEF p, q
<1>5. \A k \in 1..(j - i) : t[k] = u[k]
  <2> HIDE DEF s, t, u
  <2> TAKE k \in 1..(j - i)
  <2>1. i + k \in 1..(b - a) /\ a + (i + k) = a + i + k
    OBVIOUS
  <2> QED BY <2>1, <1>1, <1>2, <1>4
<1> HIDE DEF s, t, u
<1>6. t = u
  BY <1>2, <1>4, <1>5, SeqEqual
<1> QED BY <1>6 DEF t, u, s

\* Between a position and itself there is nothing.
LEMMA SliceEmpty ==
  ASSUME NEW w \in Seq(Bytes), NEW p \in 0..Len(w)
  PROVE  Slice(w, p, p) = <<>>
<1>1. p \in Nat /\ Len(w) \in Nat /\ p - p = 0
  BY LenProperties
<1>2. Slice(w, p, p) \in Seq(Bytes) /\ Len(Slice(w, p, p)) = 0
  BY <1>1, SliceLen
<1> QED BY <1>2, EmptySeq

\* Joining is associative; stated of bytes, for the provers.
LEMMA JoinThree ==
  ASSUME NEW a \in Seq(Bytes), NEW b \in Seq(Bytes), NEW c \in Seq(Bytes)
  PROVE  (a \o b) \o c = a \o (b \o c)
BY ConcatAssociative

(***************************************************************************)
(* Recursion over numbers: the least counterexample                        *)
(***************************************************************************)
\* A nonempty set of numbers has a least one, and Min takes it.
LEMMA LeastOf ==
  ASSUME NEW T \in SUBSET Nat, T # {}
  PROVE  Min(T) \in T /\ \A y \in T : Min(T) <= y
<1>1. PICK x \in T : \A y \in T : ~(<<y, x>> \in OpToRel(<, Nat))
  BY NatLessThanWellFounded, WFMin
<1>2. \A y \in T : ~(y < x)
  BY <1>1 DEF OpToRel
<1>3. \A y \in T : x <= y
  BY <1>2
<1> QED BY <1>3 DEF Min

\* f is what the recursion over next, which goes on from the members of T only, defines on D.
Unrolled(f, D, T, next, part, kind) ==
  f = [x \in D |-> IF x \in T THEN Meant(f[next[x]].kind, part[x] \o f[next[x]].payload)
                              ELSE Bare(kind[x])]

\* Such a function exists when next brings the rank down: otherwise take the least rank up to
\* which there is none, and extend the function that there is below it.
LEMMA RecursionExists ==
  ASSUME NEW D, NEW T, NEW next, NEW part, NEW kind, NEW rank, NEW top \in Nat,
         \A x \in D : rank[x] \in 0..top,
         \A x \in D : x \in T => next[x] \in D /\ rank[next[x]] < rank[x]
  PROVE  \E f : Unrolled(f, D, T, next, part, kind)
<1> DEFINE Low(k) == {x \in D : rank[x] < k}
           B == {k \in 0..(top + 1) : ~\E f : Unrolled(f, Low(k), T, next, part, kind)}
<1>1. Low(top + 1) = D
  OBVIOUS
<1>2. CASE B = {}
  <2>1. top + 1 \notin B
    BY <1>2
  <2>2. \E f : Unrolled(f, Low(top + 1), T, next, part, kind)
    <3> HIDE DEF Low
    <3> QED BY <2>1
  <2> HIDE DEF Low
  <2> QED BY <2>2, <1>1
<1>3. CASE B # {}
  <2>1. PICK k \in B : \A j \in B : k <= j
    <3>1. B \in SUBSET Nat
      OBVIOUS
    <3> HIDE DEF B
    <3> QED BY <3>1, <1>3, LeastOf
  <2>2. \E f : Unrolled(f, Low(k), T, next, part, kind)
    <3>1. CASE k = 0
      <4>1. Low(k) = {}
        BY <3>1
      <4> DEFINE f == [x \in {} |-> 0]
      <4>2. f = [x \in {} |-> IF x \in T THEN Meant(f[next[x]].kind, part[x] \o f[next[x]].payload)
                              ELSE Bare(kind[x])]
        OBVIOUS
      <4> HIDE DEF f, Low
      <4> QED BY <4>1, <4>2 DEF Unrolled
    <3>2. CASE k # 0
      <4>1. k \in Nat /\ k - 1 \in 0..(top + 1) /\ k - 1 \notin B
        <5> k \in 0..(top + 1)
          OBVIOUS
        <5> HIDE DEF B
        <5> QED BY <2>1, <3>2
      <4>2. \E f : Unrolled(f, Low(k - 1), T, next, part, kind)
        <5> HIDE DEF Low
        <5> QED BY <4>1
      <4>3. PICK f : Unrolled(f, Low(k - 1), T, next, part, kind)
        BY <4>2
      <4> DEFINE Body(h, x) == IF x \in T
                                 THEN Meant(h[next[x]].kind, part[x] \o h[next[x]].payload)
                                 ELSE Bare(kind[x])
                 g == [x \in Low(k) |-> Body(f, x)]
      <4>4. f = [x \in Low(k - 1) |-> Body(f, x)]
        <5> HIDE DEF Low
        <5> QED BY <4>3 DEF Unrolled
      <4>5. Low(k - 1) \subseteq Low(k)
        BY <4>1
      <4>6. \A x \in Low(k) : x \in T => next[x] \in Low(k - 1)
        BY <4>1
      <4> HIDE DEF Low
      <4>7. \A x \in Low(k - 1) : f[x] = Body(f, x)
        <5> HIDE DEF Body
        <5> QED BY <4>4
      <4>8. \A x \in Low(k - 1) : g[x] = f[x]
        <5> HIDE DEF Body
        <5> QED BY <4>5, <4>7
      <4>9. \A x \in Low(k) : Body(f, x) = Body(g, x)
        <5> HIDE DEF g
        <5> QED BY <4>6, <4>8
      <4>10. g = [x \in Low(k) |-> Body(g, x)]
        <5> HIDE DEF Body
        <5>1. \A x \in Low(k) : g[x] = Body(g, x)
          BY <4>9
        <5> QED BY <5>1, Zenon
      <4> HIDE DEF g
      <4> QED BY <4>10 DEF Unrolled
    <3> QED BY <3>1, <3>2
  <2> HIDE DEF Low
  <2> QED BY <2>2
<1> QED BY <1>2, <1>3

\* v[n] is the number that the first n digits of text denote.
Values(v, text, m) ==
  v = [n \in 0..m |-> IF n = 0 THEN 0 ELSE 16 * v[n - 1] + HexDigit(text[n])]

\* ChunkSize is a recursive function that exists, by the least number of digits for which it would
\* not.
LEMMA ValuesExist == ASSUME NEW text, NEW N \in Nat PROVE \E v : Values(v, text, N)
<1> DEFINE B == {m \in Nat : ~\E v : Values(v, text, m)}
<1> SUFFICES ASSUME B # {} PROVE FALSE
  OBVIOUS
<1>1. PICK m \in B : \A j \in B : m <= j
  <2>1. B \in SUBSET Nat
    OBVIOUS
  <2> HIDE DEF B
  <2> QED BY <2>1, LeastOf
<1>2. CASE m = 0
  <2> DEFINE v == [n \in 0..0 |-> 0]
  <2>1. \A n \in 0..m : v[n] = IF n = 0 THEN 0 ELSE 16 * v[n - 1] + HexDigit(text[n])
    BY <1>2
  <2>2. v = [n \in 0..m |-> IF n = 0 THEN 0 ELSE 16 * v[n - 1] + HexDigit(text[n])]
    BY <1>2, <2>1
  <2> HIDE DEF v
  <2> QED BY <2>2, <1>1 DEF Values
<1>3. CASE m # 0
  <2>1. m \in Nat /\ m - 1 \in Nat /\ m - 1 \notin B
    <3>1. m \in Nat
      OBVIOUS
    <3> HIDE DEF B
    <3> QED BY <3>1, <1>1, <1>3
  <2>2. PICK u : Values(u, text, m - 1)
    BY <2>1
  <2> DEFINE v == [n \in 0..m |-> IF n = 0 THEN 0 ELSE 16 * u[n - 1] + HexDigit(text[n])]
  <2>3. \A n \in 0..(m - 1) :
          u[n] = IF n = 0 THEN 0 ELSE 16 * u[n - 1] + HexDigit(text[n])
    BY <2>2, <2>1 DEF Values
  <2>4. \A n \in 0..(m - 1) : v[n] = u[n]
    BY <2>1, <2>3
  <2>5. \A n \in 0..m : n # 0 => v[n - 1] = u[n - 1]
    BY <2>1, <2>4
  <2>6. \A n \in 0..m : v[n] = IF n = 0 THEN 0 ELSE 16 * v[n - 1] + HexDigit(text[n])
    BY <2>5
  <2> HIDE DEF v
  <2>7. v = [n \in 0..m |-> IF n = 0 THEN 0 ELSE 16 * v[n - 1] + HexDigit(text[n])]
    <3>1. v = [n \in 0..m |-> v[n]]
      BY DEF v
    <3> QED BY <3>1, <2>6, Zenon
  <2> QED BY <2>7, <1>1 DEF Values
<1> QED BY <1>2, <1>3

\* A digit has a number for its value.
LEMMA HexDigitInt == ASSUME NEW c \in Bytes PROVE HexDigit(c) \in Int
BY DEF HexDigit, Bytes

\* What stands before the extensions of a size line is a sequence of bytes.
LEMMA SizeTextType ==
  ASSUME NEW line \in Seq(Bytes) PROVE SizeText(line) \in Seq(Bytes)
<1> DEFINE cuts == {i \in 1..Len(line) : line[i] = Semicolon}
<1>1. CASE cuts = {}
  BY <1>1 DEF SizeText
<1>2. CASE cuts # {}
  <2>1. Len(line) \in Nat /\ cuts \in SUBSET Nat /\ cuts \subseteq 1..Len(line)
    BY LenProperties
  <2>2. Min(cuts) \in 1..Len(line)
    <3> HIDE DEF cuts
    <3> QED BY <1>2, <2>1, LeastOf
  <2>3. Slice(line, 0, Min(cuts) - 1) \in Seq(Bytes)
    <3> HIDE DEF cuts
    <3> DEFINE b == Min(cuts) - 1
    <3>1. 0 \in Nat /\ b \in Nat /\ 0 <= b /\ b <= Len(line)
      BY <2>1, <2>2
    <3> HIDE DEF b
    <3>2. Slice(line, 0, b) \in Seq(Bytes)
      BY <3>1, SliceLen
    <3> QED BY <3>2 DEF b
  <2> QED BY <1>2, <2>3 DEF SizeText, Slice
<1> QED BY <1>1, <1>2

\* from_str_radix: a size line that is accepted denotes a natural number, by the least number of
\* digits that would not.
LEMMA ChunkSizeNat == ASSUME NEW line \in Seq(Bytes), ValidSize(line) PROVE ChunkSize(line) \in Nat
<1> DEFINE text == SizeText(line)
           v == CHOOSE u : Values(u, text, Len(text))
<1>1. text \in Seq(Bytes) /\ Len(text) \in Nat
  BY SizeTextType, LenProperties
<1>2. \A i \in 1..Len(text) : HexDigit(text[i]) \in Nat
  <2>1. \A i \in 1..Len(text) : HexDigit(text[i]) >= 0
    BY DEF ValidSize
  <2> HIDE DEF text
  <2>2. \A i \in 1..Len(text) : text[i] \in Bytes
    BY <1>1, ElementOfSeq
  <2> QED BY <2>1, <2>2, HexDigitInt
<1>3. ChunkSize(line) = v[Len(text)]
  BY DEF ChunkSize, Values
<1> HIDE DEF text
<1>4. Values(v, text, Len(text))
  BY <1>1, ValuesExist
<1> HIDE DEF v
<1>5. \A n \in 0..Len(text) : v[n] = IF n = 0 THEN 0 ELSE 16 * v[n - 1] + HexDigit(text[n])
  BY <1>4 DEF Values
<1> DEFINE B == {n \in 0..Len(text) : v[n] \notin Nat}
<1>6. B = {}
  <2> SUFFICES ASSUME B # {} PROVE FALSE
    OBVIOUS
  <2>1. PICK n \in B : \A j \in B : n <= j
    <3>1. B \in SUBSET Nat
      OBVIOUS
    <3> HIDE DEF B
    <3> QED BY <3>1, LeastOf
  <2>2. n \in 0..Len(text) /\ n # 0
    BY <1>5
  <2>3. n - 1 \in 0..Len(text) /\ n - 1 \notin B
    <3> HIDE DEF B
    <3> QED BY <1>1, <2>1, <2>2
  <2>4. v[n - 1] \in Nat /\ HexDigit(text[n]) \in Nat
    BY <2>3, <2>2, <1>2
  <2>5. v[n] = 16 * v[n - 1] + HexDigit(text[n])
    BY <1>5, <2>2
  <2> QED BY <2>4, <2>5
<1> QED BY <1>1, <1>3, <1>6

(***************************************************************************)
(* The elements of a reply                                                 *)
(***************************************************************************)
\* memchr_crlf_crlf finds the same empty line in the bytes that have come as in the whole reply,
\* once they reach up to it, and nothing before.
LEMMA HeadFound ==
  ASSUME NEW w \in Seq(Bytes), NEW a \in 0..Len(w)
  PROVE  /\ memchr_crlf_crlf(w) \in 0..Len(w)
         /\ memchr_crlf_crlf(Slice(w, 0, a)) =
              IF memchr_crlf_crlf(w) <= a THEN memchr_crlf_crlf(w) ELSE 0
<1> DEFINE Ends(b) == {i \in 4..Len(b) : SubSeq(b, i - 3, i) = <<CR, LF, CR, LF>>}
           b == Slice(w, 0, a)
           S == Ends(w)
           T == Ends(b)
<1>1. /\ memchr_crlf_crlf(w) = IF S = {} THEN 0 ELSE Min(S)
      /\ memchr_crlf_crlf(b) = IF T = {} THEN 0 ELSE Min(T)
  BY DEF memchr_crlf_crlf
<1>2. Len(w) \in Nat /\ a \in Nat /\ a <= Len(w)
  BY LenProperties
<1>3. Len(b) = a
  <2>1. 0 \in Nat /\ 0 <= a /\ a - 0 = a
    BY <1>2
  <2> QED BY <2>1, <1>2, SliceLen
<1>4. \A i \in 4..a : SubSeq(b, i - 3, i) = SubSeq(w, i - 3, i)
  <2> HIDE DEF Ends, S, T
  <2> SUFFICES ASSUME NEW i \in 4..a PROVE SubSeq(b, i - 3, i) = SubSeq(w, i - 3, i)
    OBVIOUS
  <2> DEFINE k == i - 4
             z == 0
  <2>1. /\ z \in Nat /\ z <= a /\ a - z = a /\ k \in Nat /\ i \in Nat /\ k <= i /\ i <= a
        /\ z + k = k /\ z + i = i /\ k + 1 = i - 3
    BY <1>2
  <2> HIDE DEF k, z
  <2>2. Slice(Slice(w, z, a), k, i) = Slice(w, z + k, z + i)
    BY <2>1, <1>2, SliceOfSlice
  <2>3. SubSeq(b, k + 1, i) = SubSeq(w, k + 1, i)
    BY <2>1, <2>2 DEF Slice, z
  <2> QED BY <2>1, <2>3
<1>5. T = {i \in S : i <= a}
  <2> HIDE DEF b
  <2>1. \A i : i \in T <=> i \in 4..a /\ SubSeq(b, i - 3, i) = <<CR, LF, CR, LF>>
    BY <1>3
  <2>2. \A i : i \in S /\ i <= a <=> i \in 4..a /\ SubSeq(w, i - 3, i) = <<CR, LF, CR, LF>>
    BY <1>2
  <2> HIDE DEF S, T
  <2>3. \A i : i \in T <=> i \in S /\ i <= a
    BY <2>1, <2>2, <1>4
  <2> QED BY <2>3
<1>6. S \in SUBSET Nat /\ \A i \in S : i >= 4 /\ i <= Len(w)
  BY <1>2
<1>7. T \in SUBSET Nat
  BY <1>5, <1>6
<1> HIDE DEF S, T, b
<1>8. S # {} => Min(S) \in S /\ \A y \in S : Min(S) <= y
  BY <1>6, LeastOf
<1>9. T # {} => Min(T) \in T /\ \A y \in T : Min(T) <= y
  BY <1>7, LeastOf
<1>10. CASE S = {}
  BY <1>10, <1>1, <1>2, <1>5 DEF b
<1>11. CASE S # {} /\ Min(S) <= a
  <2>1. T # {} /\ Min(S) \in T
    BY <1>11, <1>8, <1>5
  <2> DEFINE x == Min(S)
             y == Min(T)
  <2>2. x \in Nat /\ y \in Nat /\ x <= y /\ y <= x /\ x >= 4 /\ x <= Len(w)
    BY <2>1, <1>11, <1>8, <1>9, <1>5, <1>6, <1>7
  <2> HIDE DEF x, y
  <2>3. x = y /\ x # 0
    BY <2>2
  <2>4. memchr_crlf_crlf(w) = x /\ memchr_crlf_crlf(b) = x
    BY <2>1, <2>3, <1>1, <1>11 DEF x, y
  <2> QED BY <2>2, <2>3, <2>4, <1>2, <1>11 DEF b, x
<1>12. CASE S # {} /\ ~(Min(S) <= a)
  <2>1. T = {}
    <3> SUFFICES ASSUME NEW i \in S, i <= a PROVE FALSE
      BY <1>5
    <3>1. Min(S) <= i /\ Min(S) \in Nat /\ i \in Nat
      BY <1>8, <1>6
    <3> QED BY <3>1, <1>2, <1>12
  <2>2. Min(S) \in 0..Len(w)
    <3>1. Min(S) \in S
      BY <1>12, <1>8
    <3>2. Min(S) \in Nat /\ Min(S) <= Len(w)
      BY <3>1, <1>6
    <3> QED BY <3>2, <1>2
  <2>3. memchr_crlf_crlf(w) = Min(S) /\ memchr_crlf_crlf(b) = 0
    BY <2>1, <1>1, <1>12
  <2> QED BY <2>2, <2>3, <1>12 DEF b
<1> QED BY <1>10, <1>11, <1>12

\* Where a size line that begins behind p may end: the limit on its length is kept.
LineEnds(w, p) ==
  {i \in (p + 2)..Len(w) : i <= p + MaxLine + 1 /\ SubSeq(w, i - 1, i) = <<CR, LF>>}

\* If it ends, then at the least of those places, and its text is a sequence of bytes.
LEMMA LineEndsType ==
  ASSUME NEW w \in Seq(Bytes), NEW p \in 0..Len(w), LineEnds(w, p) # {}
  PROVE  /\ Min(LineEnds(w, p)) \in LineEnds(w, p)
         /\ Min(LineEnds(w, p)) \in (p + 2)..Len(w)
         /\ \A y \in LineEnds(w, p) : Min(LineEnds(w, p)) <= y
         /\ SubSeq(w, p + 1, Min(LineEnds(w, p)) - 2) \in Seq(Bytes)
<1>1. Len(w) \in Nat /\ p \in Nat
  BY LenProperties
<1>2. LineEnds(w, p) \in SUBSET Nat
  BY <1>1 DEF LineEnds
<1>3. /\ Min(LineEnds(w, p)) \in LineEnds(w, p)
      /\ \A y \in LineEnds(w, p) : Min(LineEnds(w, p)) <= y
  BY <1>2, LeastOf
<1> DEFINE e == Min(LineEnds(w, p))
<1>4. e \in (p + 2)..Len(w)
  BY <1>3 DEF LineEnds
<1> DEFINE b == e - 2
<1> HIDE DEF e
<1>5. b \in Nat /\ p <= b /\ b <= Len(w)
  BY <1>1, <1>4
<1> HIDE DEF b
<1>6. Slice(w, p, b) \in Seq(Bytes)
  BY <1>1, <1>5, SliceLen
<1> QED BY <1>3, <1>4, <1>6 DEF e, b, Slice

\* The data of a chunk that is whole, and where the next chunk begins.
LEMMA DataNext ==
  ASSUME NEW w \in Seq(Bytes), NEW p \in Nat, NEW size \in Nat, DataAt(w, p, size).kind = "more"
  PROVE  /\ DataAt(w, p, size).next = p + size + 2
         /\ p + size + 2 <= Len(w)
         /\ DataAt(w, p, size).payload = Slice(w, p, p + size)
         /\ Slice(w, p, p + size) \in Seq(Bytes) /\ Len(Slice(w, p, p + size)) = size
<1> DEFINE b == p + size
<1>1. Len(w) \in Nat
  BY LenProperties
<1>2. /\ ~(Len(w) < b + 2)
      /\ DataAt(w, p, size) = Chunk("more", SubSeq(w, p + 1, b), b + 2)
  BY DEF DataAt, NoChunk, Chunk
<1>3. b \in Nat /\ p <= b /\ b - p = size
  OBVIOUS
<1> HIDE DEF b
<1>4. b + 2 <= Len(w) /\ b <= Len(w)
  BY <1>1, <1>2, <1>3
<1>5. Slice(w, p, b) \in Seq(Bytes) /\ Len(Slice(w, p, b)) = b - p
  BY <1>3, <1>4, SliceLen
<1> QED BY <1>2, <1>3, <1>4, <1>5 DEF b, Chunk, Slice

\* The next chunk begins further on, and the body stays within its limit: the recursion of ChunksOf
\* ends.
LEMMA ChunkNext ==
  ASSUME NEW w \in Seq(Bytes), NEW p \in 0..Len(w), NEW n \in 0..MaxBody,
         ChunkAt(w, p, n).kind = "more"
  PROVE  /\ ChunkAt(w, p, n).next \in 0..Len(w)
         /\ p < ChunkAt(w, p, n).next
         /\ ChunkAt(w, p, n).payload \in Seq(Bytes)
         /\ n + Len(ChunkAt(w, p, n).payload) \in 0..MaxBody
<1> DEFINE line == SubSeq(w, p + 1, Min(LineEnds(w, p)) - 2)
           size == ChunkSize(line)
           q == Min(LineEnds(w, p))
<1>1. /\ LineEnds(w, p) # {} /\ ValidSize(line) /\ size # 0
      /\ ~(size > MaxChunk \/ n + size > MaxBody)
      /\ ChunkAt(w, p, n) = DataAt(w, q, size)
  BY DEF ChunkAt, LineEnds, NoChunk, Chunk
<1>2. q \in (p + 2)..Len(w) /\ line \in Seq(Bytes)
  BY <1>1, LineEndsType
<1> HIDE DEF line, q
<1>3. size \in Nat
  BY <1>1, <1>2, ChunkSizeNat
<1> HIDE DEF size
<1>4. Len(w) \in Nat /\ MaxBody \in Nat /\ q \in Nat
  BY <1>2, HttpAssumption, LenProperties
<1>5. /\ DataAt(w, q, size).next = q + size + 2
      /\ q + size + 2 <= Len(w)
      /\ DataAt(w, q, size).payload \in Seq(Bytes)
      /\ Len(DataAt(w, q, size).payload) = size
  BY <1>1, <1>3, <1>4, DataNext
<1>6. n + size \in 0..MaxBody
  BY <1>1, <1>3, <1>4
<1> QED BY <1>1, <1>2, <1>3, <1>4, <1>5, <1>6

(***************************************************************************)
(* The meaning of the chunks, unfolded                                     *)
(***************************************************************************)
\* The two parts of a meaning.
LEMMA MeantParts ==
  ASSUME NEW k, NEW p
  PROVE  /\ Meant(k, p).kind = k /\ Meant(k, p).payload = p
         /\ Bare(k).kind = k /\ Bare(k).payload = <<>>
BY DEF Meant, Bare

\* What a chunk and all those behind it mean, n bytes of the body being known before it.
Onward(w, c, n) ==
  IF c.kind = "more"
  THEN LET others == ChunksOf(w)[<<c.next, n + Len(c.payload)>>]
       IN Meant(others.kind, c.payload \o others.payload)
  ELSE Bare(c.kind)

\* Where ChunksOf goes on behind the chunk c.
Following(c, n) == <<c.next, n + Len(c.payload)>>

\* Behind a chunk that is whole: the parts of the meaning, one by one.
LEMMA OnwardMore ==
  ASSUME NEW w, NEW c, NEW n, c.kind = "more"
  PROVE  /\ Onward(w, c, n).kind = ChunksOf(w)[Following(c, n)].kind
         /\ Onward(w, c, n).payload = c.payload \o ChunksOf(w)[Following(c, n)].payload
<1> DEFINE o == ChunksOf(w)[Following(c, n)]
<1> HIDE DEF o
<1>1. Onward(w, c, n) = Meant(o.kind, c.payload \o o.payload)
  BY DEF Onward, o, Following
<1> DEFINE a == o.kind
           b == c.payload \o o.payload
           m == Onward(w, c, n)
<1>2. m = Meant(a, b)
  BY <1>1
<1> HIDE DEF a, b, m
<1>3. m.kind = a /\ m.payload = b
  BY <1>2, MeantParts
<1> QED BY <1>3 DEF a, b, m, o

\* f satisfies the equation that defines ChunksOf(w).
Unfolds(w, f) ==
  f = [x \in (0..Len(w)) \X (0..MaxBody) |->
         LET c == ChunkAt(w, x[1], x[2])
             others == f[<<c.next, x[2] + Len(c.payload)>>]
         IN IF c.kind = "more" THEN Meant(others.kind, c.payload \o others.payload)
            ELSE Bare(c.kind)]

\* ChunksOf(w), which the model chooses by that equation, satisfies it: a function that does exists.
LEMMA ChunksUnfold ==
  ASSUME NEW w \in Seq(Bytes)
  PROVE  Unfolds(w, ChunksOf(w))
<1> DEFINE D == (0..Len(w)) \X (0..MaxBody)
           C(x) == ChunkAt(w, x[1], x[2])
           T == {x \in D : C(x).kind = "more"}
           next == [x \in D |-> <<C(x).next, x[2] + Len(C(x).payload)>>]
           part == [x \in D |-> C(x).payload]
           kind == [x \in D |-> C(x).kind]
           rank == [x \in D |-> Len(w) - x[1]]
<1>1. Len(w) \in Nat
  BY LenProperties
<1>2. \A x \in D : rank[x] \in 0..Len(w)
  BY <1>1
<1>3. \A x \in D : x \in T => next[x] \in D /\ rank[next[x]] < rank[x]
  <2> SUFFICES ASSUME NEW x \in D, x \in T PROVE next[x] \in D /\ rank[next[x]] < rank[x]
    OBVIOUS
  <2>1. /\ C(x).next \in 0..Len(w) /\ x[1] < C(x).next
        /\ x[2] + Len(C(x).payload) \in 0..MaxBody /\ x[1] \in 0..Len(w)
    <3>1. x[1] \in 0..Len(w) /\ x[2] \in 0..MaxBody /\ ChunkAt(w, x[1], x[2]).kind = "more"
      OBVIOUS
    <3> QED BY <3>1, ChunkNext
  <2> HIDE DEF C
  <2>2. next[x] \in D /\ next[x][1] = C(x).next
    BY <2>1
  <2> HIDE DEF next
  <2>3. rank[next[x]] = Len(w) - C(x).next /\ rank[x] = Len(w) - x[1]
    BY <2>2
  <2> HIDE DEF rank
  <2>4. rank[next[x]] < rank[x]
    BY <1>1, <2>1, <2>3
  <2> QED BY <2>2, <2>4
<1>4. PICK f : Unrolled(f, D, T, next, part, kind)
  <2> HIDE DEF D, T, next, part, kind, rank
  <2> QED BY <1>1, <1>2, <1>3, RecursionExists
<1> DEFINE A(x) == IF x \in T THEN Meant(f[next[x]].kind, part[x] \o f[next[x]].payload)
                              ELSE Bare(kind[x])
           B(x) == LET c == ChunkAt(w, x[1], x[2])
                       others == f[<<c.next, x[2] + Len(c.payload)>>]
                   IN IF c.kind = "more" THEN Meant(others.kind, c.payload \o others.payload)
                      ELSE Bare(c.kind)
<1>5. \A x \in D : A(x) = B(x)
  <2> SUFFICES ASSUME NEW x \in D PROVE A(x) = B(x)
    OBVIOUS
  <2>1. /\ next[x] = <<C(x).next, x[2] + Len(C(x).payload)>>
        /\ part[x] = C(x).payload /\ kind[x] = C(x).kind
        /\ x \in T <=> C(x).kind = "more"
    <3> HIDE DEF C
    <3> QED OBVIOUS
  <2> HIDE DEF D, T, next, part, kind
  <2> QED BY <2>1
<1>6. f = [x \in D |-> A(x)]
  <2> HIDE DEF D, T, next, part, kind
  <2> QED BY <1>4 DEF Unrolled
<1>7. f = [x \in D |-> B(x)]
  <2> HIDE DEF D, A, B
  <2> QED BY <1>5, <1>6
<1>8. Unfolds(w, f)
  BY <1>7 DEF Unfolds
<1>9. ChunksOf(w) = CHOOSE g : Unfolds(w, g)
  BY DEF ChunksOf, Unfolds
<1> HIDE DEF A, B, D, T, C, next, part, kind, rank
<1> QED BY <1>8, <1>9

\* So the meaning of the chunks from p on is that of the chunk at p and of those behind it.
LEMMA ChunksFrom ==
  ASSUME NEW w \in Seq(Bytes), NEW p \in 0..Len(w), NEW n \in 0..MaxBody
  PROVE  ChunksOf(w)[<<p, n>>] = Onward(w, ChunkAt(w, p, n), n)
<1> DEFINE x == <<p, n>>
<1>1. x \in (0..Len(w)) \X (0..MaxBody) /\ x[1] = p /\ x[2] = n
  OBVIOUS
<1>2. Unfolds(w, ChunksOf(w))
  BY ChunksUnfold
<1> HIDE DEF x
<1>3. ChunksOf(w)[x] =
         LET c == ChunkAt(w, x[1], x[2])
             others == ChunksOf(w)[<<c.next, x[2] + Len(c.payload)>>]
         IN IF c.kind = "more" THEN Meant(others.kind, c.payload \o others.payload)
            ELSE Bare(c.kind)
  BY <1>1, <1>2 DEF Unfolds
<1> QED BY <1>1, <1>3 DEF Onward, x

\* The payload of the chunks is a sequence of bytes, by the last position at which it would not be.
LEMMA ChunksType ==
  ASSUME NEW w \in Seq(Bytes), NEW p \in 0..Len(w), NEW n \in 0..MaxBody
  PROVE  ChunksOf(w)[<<p, n>>].payload \in Seq(Bytes)
<1> DEFINE m(q, k) == ChunksOf(w)[<<q, k>>].payload
           B == {l \in 0..Len(w) : \E q \in 0..Len(w), k \in 0..MaxBody :
                                     l = Len(w) - q /\ m(q, k) \notin Seq(Bytes)}
<1>0. Len(w) \in Nat
  BY LenProperties
<1>1. B \in SUBSET Nat
  OBVIOUS
<1>2. \A l \in B : \E q \in 0..Len(w), k \in 0..MaxBody :
         l = Len(w) - q /\ m(q, k) \notin Seq(Bytes)
  OBVIOUS
<1>3. \A q \in 0..Len(w), k \in 0..MaxBody : m(q, k) \notin Seq(Bytes) => Len(w) - q \in B
  <2> HIDE DEF m
  <2> QED BY <1>0
<1> HIDE DEF B
<1>4. B = {}
  <2> SUFFICES ASSUME B # {} PROVE FALSE
    OBVIOUS
  <2>1. PICK l \in B : \A j \in B : l <= j
    BY <1>1, LeastOf
  <2>2. PICK q \in 0..Len(w), k \in 0..MaxBody : l = Len(w) - q /\ m(q, k) \notin Seq(Bytes)
    BY <1>2
  <2> DEFINE c == ChunkAt(w, q, k)
             j == k + Len(c.payload)
  <2>3. ChunksOf(w)[<<q, k>>] = Onward(w, c, k)
    BY ChunksFrom
  <2>4. CASE c.kind # "more"
    <3>1. m(q, k) = <<>>
      BY <2>3, <2>4 DEF Onward, Bare, Meant
    <3> QED BY <3>1, <2>2, EmptySeq
  <2>5. CASE c.kind = "more"
    <3>1. c.next \in 0..Len(w) /\ q < c.next /\ c.payload \in Seq(Bytes) /\ j \in 0..MaxBody
      BY <2>5, ChunkNext
    <3>2. m(q, k) = c.payload \o m(c.next, j)
      <4> HIDE DEF c
      <4>1. Onward(w, c, k).payload = c.payload \o ChunksOf(w)[Following(c, k)].payload
        BY <2>5, OnwardMore
      <4> QED BY <2>3, <4>1 DEF Following
    <3> HIDE DEF m, c, j
    <3>3. m(c.next, j) \in Seq(Bytes)
      <4> SUFFICES ASSUME m(c.next, j) \notin Seq(Bytes) PROVE FALSE
        OBVIOUS
      <4>1. Len(w) - c.next \in B
        BY <3>1, <1>3
      <4>2. l <= Len(w) - c.next
        BY <2>1, <4>1
      <4> QED BY <4>2, <2>2, <3>1, <1>0
    <3> QED BY <3>1, <3>2, <3>3, <2>2, ConcatProperties
  <2> QED BY <2>4, <2>5
<1>5. \A q \in 0..Len(w), k \in 0..MaxBody : m(q, k) \in Seq(Bytes)
  <2> HIDE DEF m
  <2> QED BY <1>3, <1>4
<1> QED BY <1>5

(***************************************************************************)
(* Where the reader stands in the chunks, and what a read makes of it      *)
(***************************************************************************)
\* m is what the body bd, decoded so far, and the tail amount to.
Extends(m, bd, tail) ==
  m.kind = tail.kind /\ (m.kind = "whole" => m.payload = bd \o tail.payload)

\* The reader is in a size line that began at some s: all of it has come into b, it keeps within
\* the limit, it has not ended, and the reply means what bd and the chunks from s on mean.
InLine(w, m, p, b, bd) ==
  \E s \in 0..p : /\ b = Slice(w, s, p) /\ p - s <= MaxLine
                  /\ \A i \in (s + 2)..p : SubSeq(w, i - 1, i) # <<CR, LF>>
                  /\ Extends(m, bd, ChunksOf(w)[<<s, Len(bd)>>])

\* The reader is in the data of a chunk that began at some s: b has come, n bytes are missing.
InData(w, m, p, b, n, bd) ==
  \E s \in 0..p : /\ b = Slice(w, s, p) /\ n \in Nat \ {0} /\ Len(bd) + (p - s) + n <= MaxBody
                  /\ Extends(m, bd, Onward(w, DataAt(w, s, p - s + n), Len(bd)))

\* The reader is in the CRLF behind a chunk: b has come, n bytes are missing.
InCrlf(w, m, p, b, n, bd) ==
  \E s \in 0..p : /\ b = Slice(w, s, p) /\ n \in {1, 2} /\ p - s + n = 2
                  /\ Extends(m, bd, Onward(w, DataAt(w, s, 0), Len(bd)))

\* The reader is behind the last chunk, and the body is what the reply means.
InTrailer(m, n, bd) == n \in {1, 2} /\ m.kind = "whole" /\ m.payload = bd

\* A chunk that is not whole decides what the reply means.
LEMMA BareEnds ==
  ASSUME NEW w, NEW c, NEW n, NEW k, c.kind = k, k # "more", NEW m, NEW bd,
         Extends(m, bd, Onward(w, c, n))
  PROVE  m.kind = k
<1>1. Onward(w, c, n) = Bare(k)
  BY DEF Onward
<1>2. Onward(w, c, n).kind = k
  BY <1>1, MeantParts
<1> QED BY <1>2 DEF Extends

\* The kind of a chunk that is none.
LEMMA NoChunkKind == ASSUME NEW k PROVE NoChunk(k).kind = k
BY DEF NoChunk, Chunk

\* No size line ends in time: the reply is cut off there, or the line is too long.
LEMMA NoLineYet ==
  ASSUME NEW w \in Seq(Bytes), NEW m, NEW s \in 0..Len(w), NEW bd, Len(bd) \in 0..MaxBody,
         LineEnds(w, s) = {}, Extends(m, bd, ChunksOf(w)[<<s, Len(bd)>>])
  PROVE  m.kind = IF Len(w) - s > MaxLine THEN "large" ELSE "cut"
<1> DEFINE k == IF Len(w) - s > MaxLine THEN "large" ELSE "cut"
           c == ChunkAt(w, s, Len(bd))
<1>1. c = NoChunk(k)
  BY DEF ChunkAt, LineEnds
<1>2. c.kind = k /\ k # "more"
  BY <1>1, NoChunkKind
<1>3. ChunksOf(w)[<<s, Len(bd)>>] = Onward(w, c, Len(bd))
  BY ChunksFrom
<1> HIDE DEF c, k
<1>4. m.kind = k
  BY <1>2, <1>3, BareEnds
<1> QED BY <1>4 DEF k

\* The stream ends in a size line.
LEMMA LineCut ==
  ASSUME NEW w \in Seq(Bytes), NEW m, NEW b, NEW bd, Len(bd) \in 0..MaxBody,
         InLine(w, m, Len(w), b, bd)
  PROVE  m.kind = "cut"
<1>1. Len(w) \in Nat
  BY LenProperties
<1>2. PICK s \in 0..Len(w) : /\ Len(w) - s <= MaxLine
                             /\ \A i \in (s + 2)..Len(w) : SubSeq(w, i - 1, i) # <<CR, LF>>
                             /\ Extends(m, bd, ChunksOf(w)[<<s, Len(bd)>>])
  BY DEF InLine
<1>3. LineEnds(w, s) = {}
  BY <1>2 DEF LineEnds
<1>4. m.kind = IF Len(w) - s > MaxLine THEN "large" ELSE "cut"
  BY <1>2, <1>3, NoLineYet
<1> QED BY <1>1, <1>2, <1>4, HttpAssumption

\* The size line with one byte more, and what its last two bytes and the others are.
LEMMA LineGrows ==
  ASSUME NEW w \in Seq(Bytes), NEW s \in Nat, NEW p \in Nat, s <= p, p + 1 <= Len(w),
         NEW line, line = Slice(w, s, p) \o Slice(w, p, p + 1)
  PROVE  /\ line = Slice(w, s, p + 1) /\ line \in Seq(Bytes) /\ Len(line) = p + 1 - s
         /\ Len(line) > 1 => /\ SubSeq(line, Len(line) - 1, Len(line)) = SubSeq(w, p, p + 1)
                             /\ SubSeq(line, 1, Len(line) - 2) = SubSeq(w, s + 1, p - 1)
<1> DEFINE q == p + 1
           l == Len(line)
<1>1. Len(w) \in Nat /\ q \in Nat /\ p <= q /\ s <= q /\ q <= Len(w)
  BY LenProperties
<1> HIDE DEF q
<1>2. line = Slice(w, s, q)
  BY <1>1, SliceJoin DEF q
<1>3. line \in Seq(Bytes) /\ l = q - s
  BY <1>1, <1>2, SliceLen
<1> HIDE DEF l
<1>4. ASSUME l > 1
      PROVE  /\ SubSeq(line, l - 1, l) = SubSeq(w, q - 1, q)
             /\ SubSeq(line, 1, l - 2) = SubSeq(w, s + 1, q - 2)
  <2> DEFINE i == l - 2
             z == 0
  <2>1. i \in Nat /\ l \in Nat /\ i <= l /\ l <= q - s /\ z \in Nat /\ z <= i /\ i <= q - s
    BY <1>1, <1>3, <1>4
  <2>2. s + i = q - 2 /\ s + l = q /\ s + z = s /\ i + 1 = l - 1 /\ q - 2 + 1 = q - 1
    BY <1>1, <1>3, <1>4
  <2> HIDE DEF i, z
  <2>3. Slice(Slice(w, s, q), i, l) = Slice(w, s + i, s + l)
    BY <1>1, <2>1, SliceOfSlice
  <2>4. Slice(Slice(w, s, q), z, i) = Slice(w, s + z, s + i)
    BY <1>1, <2>1, SliceOfSlice
  <2>5. SubSeq(line, i + 1, l) = SubSeq(w, q - 2 + 1, q)
    BY <1>2, <2>2, <2>3 DEF Slice
  <2>6. SubSeq(line, z + 1, i) = SubSeq(w, s + 1, q - 2)
    BY <1>2, <2>2, <2>4 DEF Slice
  <2>7. z + 1 = 1
    BY DEF z
  <2> QED BY <2>2, <2>5, <2>6, <2>7 DEF i
<1>5. q - 1 = p /\ q - 2 = p - 1 /\ q = p + 1
  BY DEF q
<1>6. ASSUME l > 1 PROVE /\ SubSeq(line, l - 1, l) = SubSeq(w, p, q)
                         /\ SubSeq(line, 1, l - 2) = SubSeq(w, s + 1, p - 1)
  BY <1>4, <1>5, <1>6
<1>7. line = Slice(w, s, p + 1)
  BY <1>2, <1>5
<1>8. Len(line) = p + 1 - s
  BY <1>3, <1>5 DEF l
<1>9. Len(line) > 1 => /\ SubSeq(line, Len(line) - 1, Len(line)) = SubSeq(w, p, p + 1)
                       /\ SubSeq(line, 1, Len(line) - 2) = SubSeq(w, s + 1, p - 1)
  BY <1>5, <1>6 DEF l
<1> QED BY <1>3, <1>7, <1>8, <1>9

\* The condition on which ReadSizeLine takes a line for complete.
Ended(line) == Len(line) > 1 /\ SubSeq(line, Len(line) - 1, Len(line)) = <<CR, LF>>

\* A byte that does not end the line: the reader is in the line still, or it is too long.
LEMMA LineGoesOn ==
  ASSUME NEW w \in Seq(Bytes), NEW m, NEW p \in Nat, p + 1 <= Len(w), NEW b,
         NEW bd, Len(bd) \in 0..MaxBody, InLine(w, m, p, b, bd),
         NEW line, line = b \o Slice(w, p, p + 1), ~Ended(line)
  PROVE  /\ Len(line) <= MaxLine => InLine(w, m, p + 1, line, bd)
         /\ Len(line) > MaxLine => m.kind = "large"
<1>1. Len(w) \in Nat /\ MaxLine \in Nat
  BY LenProperties, HttpAssumption
<1>2. PICK s \in 0..p : /\ b = Slice(w, s, p) /\ p - s <= MaxLine
                        /\ \A i \in (s + 2)..p : SubSeq(w, i - 1, i) # <<CR, LF>>
                        /\ Extends(m, bd, ChunksOf(w)[<<s, Len(bd)>>])
  BY DEF InLine
<1>3. s \in Nat /\ s <= p
  OBVIOUS
<1>4. /\ line = Slice(w, s, p + 1) /\ Len(line) = p + 1 - s
      /\ Len(line) > 1 => SubSeq(line, Len(line) - 1, Len(line)) = SubSeq(w, p, p + 1)
  <2>1. line = Slice(w, s, p) \o Slice(w, p, p + 1)
    BY <1>2
  <2> QED BY <2>1, <1>3, LineGrows, ZenonT(40)
<1> DEFINE q == p + 1
<1>5. q - 1 = p /\ q \in Nat /\ \A i \in (s + 2)..q : i = q \/ i \in (s + 2)..p
  <2>1. q - 1 = p /\ q \in Nat
    OBVIOUS
  <2> HIDE DEF q
  <2> SUFFICES ASSUME NEW i \in (s + 2)..q, i # q PROVE i \in (s + 2)..p
    BY <2>1
  <2>2. i <= p
    BY <2>1, <1>3
  <2> QED BY <2>1, <2>2, <1>3
<1>6. q \in (s + 2)..q => SubSeq(w, q - 1, q) # <<CR, LF>>
  <2> SUFFICES ASSUME q >= s + 2 PROVE SubSeq(w, q - 1, q) # <<CR, LF>>
    BY <1>3
  <2>1. Len(line) > 1
    BY <1>3, <1>4
  <2>2. SubSeq(line, Len(line) - 1, Len(line)) # <<CR, LF>>
    BY <2>1 DEF Ended
  <2> QED BY <2>1, <2>2, <1>4, <1>5
<1>7. \A i \in (s + 2)..q : SubSeq(w, i - 1, i) # <<CR, LF>>
  <2> HIDE DEF q
  <2> QED BY <1>2, <1>5, <1>6
<1>8. ASSUME Len(line) <= MaxLine PROVE InLine(w, m, q, line, bd)
  <2>1. s \in 0..q /\ q - s <= MaxLine /\ line = Slice(w, s, q)
    BY <1>3, <1>4, <1>8
  <2> HIDE DEF q
  <2> QED BY <2>1, <1>2, <1>7 DEF InLine
<1>9. ASSUME Len(line) > MaxLine PROVE m.kind = "large"
  <2>1. q = s + MaxLine + 1 /\ Len(w) - s > MaxLine /\ s \in 0..Len(w)
    BY <1>1, <1>2, <1>3, <1>4, <1>9
  <2>2. LineEnds(w, s) = {}
    <3> HIDE DEF q
    <3>1. \A i \in (s + 2)..Len(w) : i <= s + MaxLine + 1 => i \in (s + 2)..q
      BY <1>1, <1>3, <2>1
    <3> QED BY <3>1, <1>7 DEF LineEnds
  <2>3. m.kind = IF Len(w) - s > MaxLine THEN "large" ELSE "cut"
    BY <2>1, <2>2, <1>2, NoLineYet
  <2> QED BY <2>1, <2>3
<1> QED BY <1>8, <1>9

\* line is the size line that began at s, and ends behind position p.
EndedAt(w, m, p, line, bd, s) ==
  /\ LineEnds(w, s) # {} /\ Min(LineEnds(w, s)) = p + 1
  /\ SubSeq(line, 1, Len(line) - 2) = SubSeq(w, s + 1, Min(LineEnds(w, s)) - 2)
  /\ Extends(m, bd, Onward(w, ChunkAt(w, s, Len(bd)), Len(bd)))

\* A byte that ends the line ends it where ChunkAt sees its first end.
LEMMA LineFound ==
  ASSUME NEW w \in Seq(Bytes), NEW m, NEW p \in Nat, p + 1 <= Len(w), NEW b,
         NEW bd, Len(bd) \in 0..MaxBody, InLine(w, m, p, b, bd),
         NEW line, line = b \o Slice(w, p, p + 1), Ended(line)
  PROVE  \E s \in 0..Len(w) : EndedAt(w, m, p, line, bd, s)
<1>1. Len(w) \in Nat /\ MaxLine \in Nat
  BY LenProperties, HttpAssumption
<1>2. PICK s \in 0..p : /\ b = Slice(w, s, p) /\ p - s <= MaxLine
                        /\ \A i \in (s + 2)..p : SubSeq(w, i - 1, i) # <<CR, LF>>
                        /\ Extends(m, bd, ChunksOf(w)[<<s, Len(bd)>>])
  BY DEF InLine
<1>3. s \in Nat /\ s <= p /\ s \in 0..Len(w)
  BY <1>1
<1>4. /\ Len(line) = p + 1 - s /\ Len(line) > 1
      /\ SubSeq(line, Len(line) - 1, Len(line)) = SubSeq(w, p, p + 1)
      /\ SubSeq(line, 1, Len(line) - 2) = SubSeq(w, s + 1, p - 1)
  <2>1. Len(line) > 1
    BY DEF Ended
  <2>2. line = Slice(w, s, p) \o Slice(w, p, p + 1)
    BY <1>2
  <2> QED BY <2>1, <2>2, <1>3, LineGrows, ZenonT(40)
<1> DEFINE q == p + 1
           S == LineEnds(w, s)
<1>5. q - 1 = p /\ q - 2 = p - 1 /\ q \in (s + 2)..Len(w) /\ q <= s + MaxLine + 1
  <2> DEFINE n == Len(w)
             l == Len(line)
  <2>1. n \in Nat /\ p + 1 <= n /\ p - s <= MaxLine /\ l = p + 1 - s /\ l > 1
    BY <1>1, <1>2, <1>4
  <2> HIDE DEF n, l
  <2>2. q - 1 = p /\ q - 2 = p - 1 /\ q \in (s + 2)..n /\ q <= s + MaxLine + 1
    BY <2>1, <1>1, <1>3
  <2> QED BY <2>2 DEF n
<1>6. q \in S
  <2> HIDE DEF q
  <2>1. SubSeq(w, q - 1, q) = <<CR, LF>>
    BY <1>4, <1>5 DEF Ended, q
  <2> QED BY <2>1, <1>5 DEF LineEnds
<1>7. \A i \in S : i \in Nat /\ i >= q
  <2> SUFFICES ASSUME NEW i \in S PROVE i \in Nat /\ i >= q
    OBVIOUS
  <2>1. i \in (s + 2)..Len(w) /\ SubSeq(w, i - 1, i) = <<CR, LF>>
    BY DEF LineEnds
  <2>2. i \notin (s + 2)..p
    BY <2>1, <1>2
  <2> QED BY <2>1, <2>2, <1>1, <1>3
<1>8. Min(S) = q
  <2> HIDE DEF S, q
  <2>1. S \in SUBSET Nat /\ S # {}
    BY <1>6, <1>7
  <2>2. Min(S) \in S /\ \A y \in S : Min(S) <= y
    BY <2>1, LeastOf
  <2>3. Min(S) <= q /\ Min(S) >= q /\ Min(S) \in Nat /\ q \in Nat
    BY <2>2, <1>6, <1>7
  <2> QED BY <2>3
<1>9. ChunksOf(w)[<<s, Len(bd)>>] = Onward(w, ChunkAt(w, s, Len(bd)), Len(bd))
  BY <1>3, ChunksFrom
<1>10. SubSeq(w, s + 1, Min(S) - 2) = SubSeq(w, s + 1, p - 1)
  <2> HIDE DEF S
  <2> QED BY <1>5, <1>8
<1>11. Extends(m, bd, Onward(w, ChunkAt(w, s, Len(bd)), Len(bd)))
  BY <1>2, <1>9
<1> HIDE DEF S
<1>12. S # {} /\ Min(S) = p + 1 /\ SubSeq(line, 1, Len(line) - 2) = SubSeq(w, s + 1, Min(S) - 2)
  BY <1>4, <1>6, <1>8, <1>10
<1>13. EndedAt(w, m, p, line, bd, s)
  BY <1>11, <1>12 DEF S, EndedAt
<1> QED BY <1>3, <1>13

\* What the reader then finds in the line is what ChunkAt finds: a malformed size, the last chunk,
\* one that is too large, or the beginning of its data.
LEMMA LineEndsThere ==
  ASSUME NEW w \in Seq(Bytes), NEW m, NEW p \in Nat, p + 1 <= Len(w), NEW b,
         NEW bd \in Seq(Bytes), Len(bd) \in 0..MaxBody, InLine(w, m, p, b, bd),
         NEW line, line = b \o Slice(w, p, p + 1), Ended(line),
         NEW text, text = SubSeq(line, 1, Len(line) - 2)
  PROVE  /\ ~ValidSize(text) => m.kind = "malformed"
         /\ ValidSize(text) =>
              /\ ChunkSize(text) \in Nat
              /\ ChunkSize(text) = 0 => InTrailer(m, 2, bd)
              /\ ChunkSize(text) # 0 =>
                   IF ChunkSize(text) > MaxChunk \/ Len(bd) + ChunkSize(text) > MaxBody
                   THEN m.kind = "large"
                   ELSE InData(w, m, p + 1, <<>>, ChunkSize(text), bd)
<1>1. Len(w) \in Nat /\ MaxBody \in Nat /\ MaxChunk \in Nat
  BY LenProperties, HttpAssumption
<1>0. PICK s \in 0..Len(w) : EndedAt(w, m, p, line, bd, s)
  BY LineFound
<1>2. /\ LineEnds(w, s) # {} /\ Min(LineEnds(w, s)) = p + 1
      /\ SubSeq(line, 1, Len(line) - 2) = SubSeq(w, s + 1, Min(LineEnds(w, s)) - 2)
      /\ Extends(m, bd, Onward(w, ChunkAt(w, s, Len(bd)), Len(bd)))
  BY <1>0 DEF EndedAt
<1> DEFINE q == Min(LineEnds(w, s))
           size == ChunkSize(text)
           n == Len(bd)
           c == ChunkAt(w, s, n)
<1>3. text = SubSeq(w, s + 1, q - 2)
  BY <1>2
<1>4. text \in Seq(Bytes)
  BY <1>2, <1>3, LineEndsType
<1>5. c = IF ~ValidSize(text) THEN NoChunk("malformed")
          ELSE IF size = 0 THEN NoChunk("whole")
          ELSE IF size > MaxChunk \/ n + size > MaxBody THEN NoChunk("large")
          ELSE DataAt(w, q, size)
  <2> HIDE DEF size
  <2>1. c = LET line1 == SubSeq(w, s + 1, q - 2)
                size1 == ChunkSize(line1)
            IN IF ~ValidSize(line1) THEN NoChunk("malformed")
               ELSE IF size1 = 0 THEN NoChunk("whole")
               ELSE IF size1 > MaxChunk \/ n + size1 > MaxBody THEN NoChunk("large")
               ELSE DataAt(w, q, size1)
    BY <1>2 DEF ChunkAt, LineEnds
  <2> HIDE DEF q, n, c
  <2> QED BY <2>1, <1>3 DEF size
<1> HIDE DEF c
<1>6. ASSUME ~ValidSize(text) PROVE m.kind = "malformed"
  <2>1. c.kind = "malformed"
    BY <1>5, <1>6, NoChunkKind
  <2> QED BY <2>1, <1>2, BareEnds DEF c
<1>7. ASSUME ValidSize(text) PROVE size \in Nat
  BY <1>4, <1>7, ChunkSizeNat
<1>8. ASSUME ValidSize(text), size = 0 PROVE InTrailer(m, 2, bd)
  <2>1. c.kind = "whole" /\ c.kind # "more"
    BY <1>5, <1>8, NoChunkKind
  <2>2. Onward(w, c, n) = Bare("whole")
    BY <2>1 DEF Onward
  <2>3. m.kind = "whole" /\ m.payload = bd \o <<>>
    <3>1. Extends(m, bd, Bare("whole"))
      BY <1>2, <2>2 DEF c
    <3>2. /\ m.kind = Bare("whole").kind
          /\ m.kind = "whole" => m.payload = bd \o Bare("whole").payload
      BY <3>1 DEF Extends
    <3> QED BY <3>2, MeantParts
  <2>4. bd \o <<>> = bd
    BY ConcatEmptySeq
  <2> QED BY <2>3, <2>4 DEF InTrailer
<1>9. ASSUME ValidSize(text), size # 0, size > MaxChunk \/ n + size > MaxBody
      PROVE  m.kind = "large"
  <2>1. c.kind = "large"
    BY <1>5, <1>9, NoChunkKind
  <2> QED BY <2>1, <1>2, BareEnds DEF c
<1>10. ASSUME ValidSize(text), size # 0, ~(size > MaxChunk \/ n + size > MaxBody)
       PROVE  InData(w, m, p + 1, <<>>, size, bd)
  <2> HIDE DEF size, n
  <2>1. c = DataAt(w, q, size) /\ q = p + 1
    BY <1>5, <1>10, <1>2
  <2> HIDE DEF q
  <2>2. /\ size \in Nat \ {0} /\ q \in 0..Len(w) /\ q \in 0..q /\ n + (q - q) + size <= MaxBody
        /\ q - q + size = size
    BY <1>1, <1>7, <1>10, <2>1 DEF n
  <2>3. <<>> = Slice(w, q, q)
    BY <2>2, SliceEmpty
  <2>4. Extends(m, bd, Onward(w, DataAt(w, q, q - q + size), n))
    BY <1>2, <2>1, <2>2 DEF c, n
  <2>5. InData(w, m, q, <<>>, size, bd)
    BY <2>2, <2>3, <2>4 DEF InData, n
  <2> QED BY <2>1, <2>5
<1> QED BY <1>6, <1>7, <1>8, <1>9, <1>10

\* What the bytes behind the size line make of a chunk.
LEMMA DataKind ==
  ASSUME NEW w \in Seq(Bytes), NEW p \in Nat, NEW size \in Nat
  PROVE  DataAt(w, p, size).kind =
           IF Len(w) < p + size + 2 THEN "cut"
           ELSE IF SubSeq(w, p + size + 1, p + size + 2) # <<CR, LF>> THEN "malformed"
           ELSE "more"
BY DEF DataAt, NoChunk, Chunk

\* The stream ends in the data of a chunk.
LEMMA DataCut ==
  ASSUME NEW w \in Seq(Bytes), NEW m, NEW b, NEW n, NEW bd, InData(w, m, Len(w), b, n, bd)
  PROVE  m.kind = "cut"
<1>1. PICK s \in 0..Len(w) : 
         /\ n \in Nat \ {0} /\ Extends(m, bd, Onward(w, DataAt(w, s, Len(w) - s + n), Len(bd)))
  BY DEF InData
<1> DEFINE size == Len(w) - s + n
           c == DataAt(w, s, size)
<1>2. size \in Nat /\ s \in Nat /\ Len(w) < s + size + 2
  BY <1>1, LenProperties
<1> HIDE DEF size
<1>3. c.kind = "cut" /\ "cut" # "more"
  BY <1>2, DataKind
<1> HIDE DEF c
<1> QED BY <1>1, <1>3, BareEnds DEF c, size

\* The stream ends in the CRLF behind a chunk.
LEMMA CrlfCut ==
  ASSUME NEW w \in Seq(Bytes), NEW m, NEW b, NEW n, NEW bd, InCrlf(w, m, Len(w), b, n, bd)
  PROVE  m.kind = "cut"
<1>1. PICK s \in 0..Len(w) : 
         /\ n \in {1, 2} /\ Len(w) - s + n = 2
         /\ Extends(m, bd, Onward(w, DataAt(w, s, 0), Len(bd)))
  BY DEF InCrlf
<1> DEFINE c == DataAt(w, s, 0)
<1>2. s \in Nat /\ Len(w) < s + 0 + 2 /\ 0 \in Nat
  BY <1>1, LenProperties
<1>3. c.kind = "cut" /\ "cut" # "more"
  BY <1>2, DataKind
<1> HIDE DEF c
<1> QED BY <1>1, <1>3, BareEnds DEF c

\* A read that does not complete the data leaves the reader in it.
LEMMA DataGoesOn ==
  ASSUME NEW w \in Seq(Bytes), NEW m, NEW p \in Nat, NEW b, NEW n, NEW bd,
         InData(w, m, p, b, n, bd), NEW k \in Nat, k < n, p + k <= Len(w),
         Len(bd) \in Nat,
         NEW chunk, chunk = b \o Slice(w, p, p + k)
  PROVE  InData(w, m, p + k, chunk, n - k, bd)
<1>1. PICK s \in 0..p :
         /\ b = Slice(w, s, p) /\ n \in Nat \ {0} /\ Len(bd) + (p - s) + n <= MaxBody
         /\ Extends(m, bd, Onward(w, DataAt(w, s, p - s + n), Len(bd)))
  BY DEF InData
<1> DEFINE q == p + k
           l == n - k
           d == Len(bd)
<1>2. /\ q \in Nat /\ p <= q /\ s \in Nat /\ s <= p /\ s \in 0..q /\ l \in Nat \ {0}
      /\ q - s + l = p - s + n /\ d + (q - s) + l <= MaxBody
  <2>1. d \in Nat /\ n \in Nat \ {0} /\ d + (p - s) + n <= MaxBody /\ MaxBody \in Nat
    BY <1>1, HttpAssumption
  <2> HIDE DEF d
  <2> QED BY <2>1
<1>6. chunk = b \o Slice(w, p, q) /\ q <= Len(w)
  OBVIOUS
<1> HIDE DEF q, l, d
<1>3. chunk = Slice(w, s, q)
  <2>1. s \in Nat /\ q \in Nat /\ s <= p /\ p <= q /\ q <= Len(w)
    BY <1>2, <1>6
  <2>2. Slice(w, s, p) \o Slice(w, p, q) = Slice(w, s, q)
    BY <2>1, SliceJoin, Zenon
  <2> QED BY <2>2, <1>1, <1>6
<1>4. Extends(m, bd, Onward(w, DataAt(w, s, q - s + l), d))
  BY <1>1, <1>2 DEF d
<1>5. InData(w, m, q, chunk, l, bd)
  BY <1>2, <1>3, <1>4 DEF InData, d
<1> QED BY <1>5 DEF q, l

\* A read that completes the data leaves the reader in front of the CRLF; whether that is one is
\* not known yet, and the reply means what it meant.
LEMMA DataEnds ==
  ASSUME NEW w \in Seq(Bytes), NEW m, NEW p \in Nat, NEW b, NEW n \in Nat, NEW bd \in Seq(Bytes),
         InData(w, m, p, b, n, bd), p + n <= Len(w),
         NEW chunk, chunk = b \o Slice(w, p, p + n)
  PROVE  /\ InCrlf(w, m, p + n, <<>>, 2, bd \o chunk)
         /\ chunk \in Seq(Bytes) /\ Len(bd \o chunk) \in 0..MaxBody
<1>1. PICK s \in 0..p :
         /\ b = Slice(w, s, p) /\ Len(bd) + (p - s) + n <= MaxBody
         /\ Extends(m, bd, Onward(w, DataAt(w, s, p - s + n), Len(bd)))
  BY DEF InData
<1> DEFINE q == p + n
           size == p - s + n
           d == Len(bd)
           e == bd \o chunk
<1>2. /\ q \in Nat /\ p <= q /\ s \in Nat /\ s <= p /\ s <= q /\ q \in 0..q /\ q <= Len(w)
      /\ size \in Nat /\ s + size = q /\ size = q - s /\ d \in Nat /\ MaxBody \in Nat
      /\ d + size <= MaxBody /\ q + 0 = q /\ q \in 0..Len(w) /\ Len(w) \in Nat
  BY <1>1, HttpAssumption, LenProperties
<1>3. bd \in Seq(Bytes) /\ chunk = b \o Slice(w, p, q)
  OBVIOUS
<1> HIDE DEF q, size, d, e
<1>4. chunk = Slice(w, s, q) /\ chunk \in Seq(Bytes) /\ Len(chunk) = size
  <2>0. Slice(w, s, p) \o Slice(w, p, q) = Slice(w, s, q)
    BY <1>2, SliceJoin
  <2>1. chunk = Slice(w, s, q)
    BY <1>1, <1>3, <2>0
  <2>2. Slice(w, s, q) \in Seq(Bytes) /\ Len(Slice(w, s, q)) = q - s
    BY <1>2, SliceLen
  <2> QED BY <2>1, <2>2, <1>2
<1>5. Len(e) = d + size /\ e \in Seq(Bytes)
  BY <1>3, <1>4, ConcatProperties DEF e, d
<1> DEFINE c == DataAt(w, s, size)
           g == DataAt(w, q, 0)
<1>6. /\ c.kind = IF Len(w) < q + 2 THEN "cut"
                  ELSE IF SubSeq(w, q + 1, q + 2) # <<CR, LF>> THEN "malformed" ELSE "more"
      /\ g.kind = IF Len(w) < q + 2 THEN "cut"
                  ELSE IF SubSeq(w, q + 1, q + 2) # <<CR, LF>> THEN "malformed" ELSE "more"
  <2>1. 0 \in Nat
    OBVIOUS
  <2>2. g.kind = IF Len(w) < q + 0 + 2 THEN "cut"
                 ELSE IF SubSeq(w, q + 0 + 1, q + 0 + 2) # <<CR, LF>> THEN "malformed" ELSE "more"
    BY <1>2, <2>1, DataKind
  <2>3. c.kind = IF Len(w) < s + size + 2 THEN "cut"
                 ELSE IF SubSeq(w, s + size + 1, s + size + 2) # <<CR, LF>> THEN "malformed"
                 ELSE "more"
    BY <1>2, DataKind
  <2> HIDE DEF c, g
  <2> QED BY <1>2, <2>2, <2>3
<1>7. c.kind = g.kind
  BY <1>6
<1>8. Extends(m, bd, Onward(w, c, d))
  BY <1>1 DEF size, d
<1>9. ASSUME c.kind # "more" PROVE Extends(m, e, Onward(w, g, d + size))
  <2>1. m.kind = c.kind /\ c.kind # "whole"
    <3>1. m.kind = c.kind
      <4> HIDE DEF c, g
      <4> QED BY <1>8, <1>9, BareEnds
    <3> HIDE DEF c, g
    <3> QED BY <3>1, <1>6
  <2>2. Onward(w, g, d + size).kind = g.kind
    <3>1. Onward(w, g, d + size) = Bare(g.kind)
      <4> HIDE DEF c, g
      <4> QED BY <1>7, <1>9 DEF Onward
    <3> QED BY <3>1, MeantParts
  <2> HIDE DEF c, g
  <2> QED BY <2>1, <2>2, <1>7 DEF Extends
<1>10. ASSUME c.kind = "more" PROVE Extends(m, e, Onward(w, g, d + size))
  <2>1. /\ c.next = q + 2 /\ q + 2 <= Len(w) /\ c.payload = Slice(w, s, q)
    <3>1. /\ c.next = s + size + 2 /\ s + size + 2 <= Len(w) /\ c.payload = Slice(w, s, s + size)
      BY <1>2, <1>10, DataNext
    <3> HIDE DEF c
    <3> QED BY <3>1, <1>2
  <2>2. g.next = q + 2 /\ g.payload = <<>>
    <3>1. 0 \in Nat /\ g.kind = "more"
      BY <1>7, <1>10
    <3>2. g.next = q + 0 + 2 /\ g.payload = Slice(w, q, q + 0)
      BY <1>2, <3>1, DataNext
    <3>3. Slice(w, q, q) = <<>>
      BY <1>2, SliceEmpty
    <3> HIDE DEF g
    <3> QED BY <3>2, <3>3, <1>2
  <2> DEFINE o == ChunksOf(w)[<<q + 2, d + size>>]
  <2>3. o.payload \in Seq(Bytes)
    <3>1. q + 2 \in 0..Len(w) /\ d + size \in 0..MaxBody
      BY <1>2, <2>1
    <3> QED BY <3>1, ChunksType
  <2> HIDE DEF c, g
  <2>4. Following(c, d) = <<q + 2, d + size>>
    BY <2>1, <1>4 DEF Following
  <2>5. Following(g, d + size) = <<q + 2, d + size>>
    <3>1. Len(<<>>) = 0 /\ d + size + 0 = d + size
      BY <1>2
    <3> QED BY <2>2, <3>1 DEF Following
  <2>6. Onward(w, c, d).kind = o.kind /\ Onward(w, c, d).payload = chunk \o o.payload
    <3>1. /\ Onward(w, c, d).kind = ChunksOf(w)[Following(c, d)].kind
          /\ Onward(w, c, d).payload = c.payload \o ChunksOf(w)[Following(c, d)].payload
      BY <1>10, OnwardMore
    <3>2. c.payload = chunk
      BY <2>1, <1>4
    <3> QED BY <3>1, <3>2, <2>4
  <2>7. Onward(w, g, d + size).kind = o.kind /\ Onward(w, g, d + size).payload = <<>> \o o.payload
    <3>1. g.kind = "more"
      BY <1>7, <1>10
    <3>2. /\ Onward(w, g, d + size).kind = ChunksOf(w)[Following(g, d + size)].kind
          /\ Onward(w, g, d + size).payload
               = g.payload \o ChunksOf(w)[Following(g, d + size)].payload
      BY <3>1, OnwardMore
    <3> QED BY <3>2, <2>2, <2>5
  <2> DEFINE t == o.payload
  <2>t. t \in Seq(Bytes)
    BY <2>3
  <2> HIDE DEF o, t
  <2>8. bd \o (chunk \o o.payload) = e \o (<<>> \o o.payload)
    <3>1. <<>> \o t = t
      BY <2>t, ConcatEmptySeq
    <3>2. (bd \o chunk) \o t = bd \o (chunk \o t)
      BY <1>3, <1>4, <2>t, JoinThree
    <3> QED BY <3>1, <3>2 DEF e, t
  <2>9. m.kind = o.kind /\ (m.kind = "whole" => m.payload = bd \o (chunk \o o.payload))
    BY <1>8, <2>6 DEF Extends
  <2> QED BY <2>7, <2>8, <2>9 DEF Extends
<1> HIDE DEF c
<1>11. Extends(m, e, Onward(w, g, Len(e)))
  BY <1>5, <1>9, <1>10
<1>12. <<>> = Slice(w, q, q) /\ q - q + 2 = 2
  BY <1>2, SliceEmpty
<1>13. InCrlf(w, m, q, <<>>, 2, e)
  BY <1>2, <1>11, <1>12 DEF InCrlf
<1>14. Len(e) \in 0..MaxBody
  BY <1>2, <1>5
<1> QED BY <1>4, <1>13, <1>14 DEF q, e

\* A read that does not complete the CRLF leaves the reader in it.
LEMMA CrlfGoesOn ==
  ASSUME NEW w \in Seq(Bytes), NEW m, NEW p \in Nat, NEW b, NEW n, NEW bd,
         InCrlf(w, m, p, b, n, bd), NEW k \in Nat, k < n, p + k <= Len(w),
         NEW crlf, crlf = b \o Slice(w, p, p + k)
  PROVE  InCrlf(w, m, p + k, crlf, n - k, bd)
<1>1. PICK s \in 0..p :
         /\ b = Slice(w, s, p) /\ n \in {1, 2} /\ p - s + n = 2
         /\ Extends(m, bd, Onward(w, DataAt(w, s, 0), Len(bd)))
  BY DEF InCrlf
<1> DEFINE q == p + k
           l == n - k
<1>2. /\ q \in Nat /\ p <= q /\ s \in Nat /\ s <= p /\ s \in 0..q /\ l \in {1, 2}
      /\ q - s + l = 2
  BY <1>1
<1>5. crlf = b \o Slice(w, p, q) /\ q <= Len(w)
  OBVIOUS
<1> HIDE DEF q, l
<1>3. crlf = Slice(w, s, q)
  BY <1>1, <1>2, <1>5, SliceJoin
<1>4. InCrlf(w, m, q, crlf, l, bd)
  BY <1>1, <1>2, <1>3 DEF InCrlf
<1> QED BY <1>4 DEF q, l

\* The two bytes behind a chunk are the right ones.
IsCrlf(b) == b = <<CR, LF>>

\* The reader has the CRLF: the reply is malformed, or a new size line begins.
LEMMA CrlfEnds ==
  ASSUME NEW w \in Seq(Bytes), NEW m, NEW p \in Nat, NEW b, NEW n \in Nat, NEW bd \in Seq(Bytes),
         Len(bd) \in 0..MaxBody,
         InCrlf(w, m, p, b, n, bd), p + n <= Len(w),
         NEW crlf, crlf = b \o Slice(w, p, p + n)
  PROVE  /\ ~IsCrlf(crlf) => m.kind = "malformed"
         /\ IsCrlf(crlf) => InLine(w, m, p + n, <<>>, bd)
<1>1. PICK s \in 0..p :
         /\ b = Slice(w, s, p) /\ p - s + n = 2
         /\ Extends(m, bd, Onward(w, DataAt(w, s, 0), Len(bd)))
  BY DEF InCrlf
<1> DEFINE q == p + n
           c == DataAt(w, s, 0)
           d == Len(bd)
<1>2. /\ q \in Nat /\ p <= q /\ s \in Nat /\ s <= p /\ q = s + 2 /\ q <= Len(w) /\ Len(w) \in Nat
      /\ q \in 0..Len(w) /\ q \in 0..q /\ s \in 0..Len(w) /\ MaxLine \in Nat
  BY <1>1, LenProperties, HttpAssumption
<1>8. crlf = b \o Slice(w, p, q)
  OBVIOUS
<1> HIDE DEF q, d
<1>3. crlf = Slice(w, s, q)
  <2>0. s \in Nat /\ q \in Nat /\ s <= p /\ p <= q /\ q <= Len(w)
    BY <1>2
  <2>1. Slice(w, s, p) \o Slice(w, p, q) = Slice(w, s, q)
    BY <2>0, SliceJoin
  <2> QED BY <1>1, <1>8, <2>1
<1>4. c.kind = IF crlf # <<CR, LF>> THEN "malformed" ELSE "more"
  <2>1. 0 \in Nat /\ s + 0 + 2 = q /\ s + 0 + 1 = s + 1 /\ ~(Len(w) < q)
    BY <1>2
  <2>2. c.kind = IF Len(w) < s + 0 + 2 THEN "cut"
                 ELSE IF SubSeq(w, s + 0 + 1, s + 0 + 2) # <<CR, LF>> THEN "malformed" ELSE "more"
    BY <1>2, <2>1, DataKind
  <2> HIDE DEF c
  <2> QED BY <2>1, <2>2, <1>3 DEF Slice
<1>5. Extends(m, bd, Onward(w, c, d))
  BY <1>1 DEF d
<1>6. ASSUME crlf # <<CR, LF>> PROVE m.kind = "malformed"
  <2>1. c.kind = "malformed" /\ "malformed" # "more"
    BY <1>4, <1>6
  <2> HIDE DEF c
  <2> QED BY <2>1, <1>5, BareEnds
<1>7. ASSUME crlf = <<CR, LF>> PROVE InLine(w, m, q, <<>>, bd)
  <2>1. c.kind = "more"
    BY <1>4, <1>7
  <2>2. c.next = q /\ c.payload = <<>>
    <3>1. 0 \in Nat
      OBVIOUS
    <3>2. c.next = s + 0 + 2 /\ c.payload = Slice(w, s, s + 0)
      BY <1>2, <2>1, <3>1, DataNext
    <3>3. Slice(w, s, s) = <<>>
      BY <1>2, SliceEmpty
    <3> HIDE DEF c
    <3> QED BY <3>2, <3>3, <1>2
  <2> HIDE DEF c
  <2> DEFINE o == ChunksOf(w)[<<q, d>>]
  <2>3. d \in Nat /\ d \in 0..MaxBody /\ d + 0 = d /\ Len(<<>>) = 0
    BY HttpAssumption DEF d
  <2>4. Following(c, d) = <<q, d>>
    BY <2>2, <2>3 DEF Following
  <2>5. Onward(w, c, d).kind = o.kind /\ Onward(w, c, d).payload = <<>> \o o.payload
    <3>1. /\ Onward(w, c, d).kind = ChunksOf(w)[Following(c, d)].kind
          /\ Onward(w, c, d).payload = c.payload \o ChunksOf(w)[Following(c, d)].payload
      BY <2>1, OnwardMore
    <3> QED BY <3>1, <2>2, <2>4
  <2>6. <<>> \o o.payload = o.payload
    <3>1. o.payload \in Seq(Bytes)
      BY <1>2, <2>3, ChunksType
    <3> HIDE DEF o
    <3> QED BY <3>1, ConcatEmptySeq
  <2> HIDE DEF o
  <2>7. Extends(m, bd, o)
    BY <1>5, <2>5, <2>6 DEF Extends
  <2>8. <<>> = Slice(w, q, q)
    BY <1>2, SliceEmpty
  <2>9. q - q <= MaxLine /\ \A i \in (q + 2)..q : FALSE
    BY <1>2
  <2> QED BY <1>2, <2>7, <2>8, <2>9 DEF InLine, o, d
<1> QED BY <1>6, <1>7 DEF q, IsCrlf

(***************************************************************************)
(* Where it stands in the head and in the other bodies                     *)
(***************************************************************************)
\* The reader is in the head: all of it that has come is in b, and its end is not.
InHead(w, p, b) == b = Slice(w, 0, p) /\ p <= MaxHead /\ memchr_crlf_crlf(b) = 0

\* The reader is in a body of announced length that began at some f: n bytes are missing.
InLength(w, m, p, bd, n) ==
  \E f \in 0..p : /\ bd = Slice(w, f, p) /\ n \in Nat \ {0} /\ p - f + n <= MaxBody
                  /\ m = LengthMeaning(w, f, p - f + n)

\* The reader is in a body up to the end of the stream that began at some f.
InEof(w, m, p, bd) ==
  \E f \in 0..p : bd = Slice(w, f, p) /\ p - f <= MaxBody /\ m = EofMeaning(w, f)

\* The empty line, if there is one, lies ahead of a reader in the head.
LEMMA HeadAhead ==
  ASSUME NEW w \in Seq(Bytes), NEW p \in 0..Len(w), NEW b, InHead(w, p, b)
  PROVE  memchr_crlf_crlf(w) = 0 \/ memchr_crlf_crlf(w) > p
<1>1. /\ memchr_crlf_crlf(w) \in 0..Len(w)
      /\ memchr_crlf_crlf(b) =
           IF memchr_crlf_crlf(w) <= p THEN memchr_crlf_crlf(w) ELSE 0
  BY HeadFound DEF InHead
<1>2. memchr_crlf_crlf(b) = 0 /\ Len(w) \in Nat /\ p \in Nat
  BY LenProperties DEF InHead
<1> QED BY <1>1, <1>2

\* The stream ends in the head.
LEMMA HeadCut ==
  ASSUME NEW r \in Reply, NEW b, InHead(r.wire, Len(r.wire), b)
  PROVE  MeaningOf(r).kind = "cut"
<1> DEFINE w == r.wire
           f == memchr_crlf_crlf(w)
<1>1. w \in Seq(Bytes)
  BY DEF Reply, Bytes
<1>2. Len(w) \in Nat /\ Len(w) \in 0..Len(w) /\ Len(w) <= MaxHead /\ MaxHead \in Nat
  BY <1>1, LenProperties, HttpAssumption DEF InHead
<1>3. InHead(w, Len(w), b)
  OBVIOUS
<1> HIDE DEF w
<1>4. f \in 0..Len(w) /\ (f = 0 \/ f > Len(w))
  BY <1>1, <1>2, <1>3, HeadAhead, HeadFound
<1>5. f = 0 /\ ~(Len(w) > MaxHead)
  BY <1>2, <1>4
<1>6. MeaningOf(r) = Bare("cut")
  <2> HIDE DEF f
  <2> QED BY <1>5 DEF MeaningOf, w, f
<1> QED BY <1>6, MeantParts

\* What a reader of the head that has got up to q finds in it.
HeadRead(r, w, q, hb) ==
  /\ Len(hb) = q /\ hb = Slice(w, 0, q)
  /\ Len(hb) > MaxHead => MeaningOf(r).kind = "large" \/ HeadEdge(r)
  /\ Len(hb) <= MaxHead /\ memchr_crlf_crlf(hb) = 0 => InHead(w, q, hb)
  /\ Len(hb) <= MaxHead /\ memchr_crlf_crlf(hb) # 0 =>
       /\ memchr_crlf_crlf(hb) = memchr_crlf_crlf(w)
       /\ memchr_crlf_crlf(w) \in 1..q /\ memchr_crlf_crlf(w) <= MaxHead
       /\ q - memchr_crlf_crlf(w) < MaxBody
       /\ SubSeq(hb, memchr_crlf_crlf(w) + 1, Len(hb)) = Slice(w, memchr_crlf_crlf(w), q)

\* One read of the head: what it finds is what the whole reply shows, but that the limit on heads is
\* held against all the bytes of the read (HeadEdge); what came behind the head is no longer than a
\* read, and shorter than a body may be.
LEMMA HeadStep ==
  ASSUME NEW r \in Reply, NEW w, w = r.wire, NEW p \in 0..Len(w), NEW b, InHead(w, p, b),
         NEW k \in 1..ReadSize, p + k <= Len(w),
         NEW hb, hb = b \o Slice(w, p, p + k)
  PROVE  HeadRead(r, w, p + k, hb)
<1>1. w \in Seq(Bytes)
  BY DEF Reply, Bytes
<1> DEFINE q == p + k
           f == memchr_crlf_crlf(w)
           z == 0
<1>2. /\ q \in Nat /\ q <= Len(w) /\ p \in Nat /\ p <= q /\ q \in 0..Len(w) /\ z \in Nat /\ z <= p
      /\ z <= q /\ q - z = q /\ q < p + ReadSize + 1 /\ k \in Nat \ {0}
      /\ Len(w) \in Nat /\ MaxHead \in Nat /\ MaxBody \in Nat /\ ReadSize \in Nat
      /\ ReadSize <= MaxBody
  BY <1>1, LenProperties, HttpAssumption
<1>3. b = Slice(w, z, p) /\ p <= MaxHead /\ hb = b \o Slice(w, p, q)
  BY DEF InHead
<1>4. f \in 0..Len(w) /\ (f = 0 \/ f > p)
  BY <1>1, HeadAhead, HeadFound
<1> HIDE DEF q, f, z
<1>5. hb = Slice(w, z, q)
  <2>0. z \in Nat /\ p \in Nat /\ q \in Nat /\ z <= p /\ p <= q /\ q <= Len(w)
    BY <1>2
  <2>1. Slice(w, z, p) \o Slice(w, p, q) = Slice(w, z, q)
    BY <1>1, <2>0, SliceJoin
  <2> QED BY <1>3, <2>1
<1>6. Len(hb) = q
  <2>1. Len(Slice(w, z, q)) = q - z
    BY <1>1, <1>2, SliceLen
  <2> QED BY <2>1, <1>2, <1>5
<1>7. memchr_crlf_crlf(hb) = IF f <= q THEN f ELSE 0
  <2>1. memchr_crlf_crlf(Slice(w, 0, q)) =
          IF memchr_crlf_crlf(w) <= q THEN memchr_crlf_crlf(w) ELSE 0
    BY <1>1, <1>2, HeadFound
  <2> QED BY <2>1, <1>5 DEF f, z
<1>8. ASSUME q > MaxHead PROVE MeaningOf(r).kind = "large" \/ HeadEdge(r)
  <2>1. Len(w) > MaxHead
    BY <1>2, <1>8
  <2>2. CASE f = 0
    <3>1. MeaningOf(r) = Bare("large")
      BY <2>1, <2>2 DEF MeaningOf, f
    <3> QED BY <3>1, MeantParts
  <2>3. CASE f > MaxHead
    <3>1. f # 0
      BY <2>3, <1>2, <1>4
    <3>2. MeaningOf(r) = Bare("large")
      BY <2>3, <3>1 DEF MeaningOf, f
    <3> QED BY <3>2, MeantParts
  <2>4. CASE f # 0 /\ f <= MaxHead
    <3>1. MaxHead < Len(w) /\ MaxHead < f + ReadSize - 1
      BY <2>1, <2>4, <1>2, <1>4, <1>8
    <3>2. HeadEdge(r)
      BY <2>4, <3>1 DEF HeadEdge, f
    <3> QED BY <3>2
  <2> QED BY <2>2, <2>3, <2>4, <1>2, <1>4
<1>9. ASSUME q <= MaxHead, memchr_crlf_crlf(hb) = 0 PROVE InHead(w, q, hb)
  BY <1>5, <1>9 DEF InHead, z
<1>10. ASSUME q <= MaxHead, memchr_crlf_crlf(hb) # 0
       PROVE  /\ memchr_crlf_crlf(hb) = f /\ f \in 1..q /\ f <= MaxHead /\ q - f < MaxBody
              /\ SubSeq(hb, f + 1, Len(hb)) = Slice(w, f, q)
  <2>1. memchr_crlf_crlf(hb) = f /\ f # 0 /\ f <= q
    BY <1>7, <1>10
  <2>2. /\ f \in 1..q /\ f <= MaxHead /\ q - f < MaxBody /\ f \in Nat /\ f <= q - z
        /\ z + f = f /\ z + q = q /\ q <= q - z
    BY <2>1, <1>2, <1>4, <1>10 DEF z
  <2>3. Slice(Slice(w, z, q), f, q) = Slice(w, z + f, z + q)
    BY <1>1, <1>2, <2>1, <2>2, SliceOfSlice
  <2>4. Slice(hb, f, q) = Slice(w, f, q)
    BY <2>2, <2>3, <1>5
  <2> QED BY <2>1, <2>2, <2>4, <1>6 DEF Slice
<1>11. Len(hb) = p + k /\ hb = Slice(w, 0, p + k)
  BY <1>5, <1>6 DEF q, z
<1>12. Len(hb) > MaxHead => MeaningOf(r).kind = "large" \/ HeadEdge(r)
  BY <1>6, <1>8
<1>13. Len(hb) <= MaxHead /\ memchr_crlf_crlf(hb) = 0 => InHead(w, p + k, hb)
  BY <1>6, <1>9 DEF q
<1>14. ASSUME Len(hb) <= MaxHead, memchr_crlf_crlf(hb) # 0
       PROVE  /\ memchr_crlf_crlf(hb) = f /\ f \in 1..(p + k) /\ f <= MaxHead
              /\ p + k - f < MaxBody
              /\ SubSeq(hb, f + 1, Len(hb)) = Slice(w, f, p + k)
  <2>1. q <= MaxHead
    BY <1>6, <1>14
  <2>2. /\ memchr_crlf_crlf(hb) = f /\ f \in 1..q /\ f <= MaxHead /\ q - f < MaxBody
        /\ SubSeq(hb, f + 1, Len(hb)) = Slice(w, f, q)
    BY <2>1, <1>10, <1>14
  <2> QED BY <2>2 DEF q
<1> HIDE DEF HeadRead
<1>15. Len(hb) <= MaxHead /\ memchr_crlf_crlf(hb) # 0 =>
         /\ memchr_crlf_crlf(hb) = memchr_crlf_crlf(w)
         /\ memchr_crlf_crlf(w) \in 1..(p + k) /\ memchr_crlf_crlf(w) <= MaxHead
         /\ p + k - memchr_crlf_crlf(w) < MaxBody
         /\ SubSeq(hb, memchr_crlf_crlf(w) + 1, Len(hb)) = Slice(w, memchr_crlf_crlf(w), p + k)
  BY <1>14 DEF f
<1> QED BY <1>11, <1>12, <1>13, <1>15, SMTT(30) DEF HeadRead

\* The stream ends in a body of announced length.
LEMMA LengthCut ==
  ASSUME NEW w \in Seq(Bytes), NEW m, NEW bd, NEW n, InLength(w, m, Len(w), bd, n)
  PROVE  m.kind = "cut"
<1>1. Len(w) \in Nat
  BY LenProperties
<1>2. PICK f \in 0..Len(w) : n \in Nat \ {0} /\ Len(w) - f + n <= MaxBody
                             /\ m = LengthMeaning(w, f, Len(w) - f + n)
  BY DEF InLength
<1> DEFINE l == Len(w) - f + n
<1>3. ~(l < 0) /\ ~(l > MaxBody) /\ Len(w) - f < l
  BY <1>1, <1>2, HttpAssumption
<1> HIDE DEF l
<1>4. m = Bare("cut")
  BY <1>2, <1>3 DEF LengthMeaning, l
<1> QED BY <1>4, MeantParts

\* A read of a body of announced length.
LEMMA LengthStep ==
  ASSUME NEW w \in Seq(Bytes), NEW m, NEW p \in Nat, NEW bd, NEW n,
         InLength(w, m, p, bd, n), NEW k \in Nat, k <= n, p + k <= Len(w),
         NEW b, b = bd \o Slice(w, p, p + k)
  PROVE  /\ b \in Seq(Bytes) /\ Len(b) \in 0..MaxBody
         /\ k < n => InLength(w, m, p + k, b, n - k)
         /\ k = n => m.kind = "whole" /\ m.payload = b
<1>1. PICK f \in 0..p : /\ bd = Slice(w, f, p) /\ n \in Nat \ {0} /\ p - f + n <= MaxBody
                        /\ m = LengthMeaning(w, f, p - f + n)
  BY DEF InLength
<1> DEFINE q == p + k
           l == n - k
           t == p - f + n
<1>2. /\ Len(w) \in Nat /\ MaxBody \in Nat /\ f \in Nat /\ f <= p /\ p <= q /\ q \in Nat /\ f <= q
      /\ f \in 0..q /\ q <= Len(w) /\ t \in Nat /\ q - f + l = t /\ t <= MaxBody
      /\ q - f \in 0..MaxBody
  BY <1>1, LenProperties, HttpAssumption
<1>3. b = bd \o Slice(w, p, q)
  OBVIOUS
<1>4. (k < n => l \in Nat \ {0}) /\ (k = n => t = q - f)
  BY <1>1
<1> HIDE DEF q, l, t
<1>5. b = Slice(w, f, q)
  <2>0. f \in Nat /\ q \in Nat /\ f <= p /\ p <= q /\ q <= Len(w)
    BY <1>2
  <2>1. Slice(w, f, p) \o Slice(w, p, q) = Slice(w, f, q)
    BY <2>0, SliceJoin
  <2> QED BY <1>1, <1>3, <2>1
<1>6. b \in Seq(Bytes) /\ Len(b) = q - f
  <2>1. Slice(w, f, q) \in Seq(Bytes) /\ Len(Slice(w, f, q)) = q - f
    BY <1>2, SliceLen
  <2> QED BY <2>1, <1>5
<1>7. ASSUME k < n PROVE InLength(w, m, q, b, l)
  <2>1. m = LengthMeaning(w, f, q - f + l)
    BY <1>1, <1>2 DEF t
  <2> QED BY <2>1, <1>2, <1>4, <1>5, <1>7 DEF InLength
<1>8. ASSUME k = n PROVE m.kind = "whole" /\ m.payload = b
  <2>1. ~(t < 0) /\ ~(t > MaxBody) /\ ~(Len(w) - f < t) /\ f + t = q
    BY <1>2, <1>4, <1>8
  <2>2. m = Meant("whole", SubSeq(w, f + 1, f + t))
    BY <1>1, <2>1 DEF LengthMeaning, t
  <2>3. m = Meant("whole", b)
    BY <2>1, <2>2, <1>5 DEF Slice
  <2> QED BY <2>3, MeantParts
<1> QED BY <1>2, <1>6, <1>7, <1>8 DEF q, l

\* The end of the stream ends a body that had none of its own.
LEMMA EofEnds ==
  ASSUME NEW w \in Seq(Bytes), NEW m, NEW bd, InEof(w, m, Len(w), bd)
  PROVE  m.kind = "whole" /\ m.payload = bd
<1>1. PICK f \in 0..Len(w) : bd = Slice(w, f, Len(w)) /\ Len(w) - f <= MaxBody
                             /\ m = EofMeaning(w, f)
  BY DEF InEof
<1>2. ~(Len(w) - f > MaxBody)
  BY <1>1, LenProperties, HttpAssumption
<1>3. m = Meant("whole", bd)
  BY <1>1, <1>2 DEF EofMeaning, Slice
<1> QED BY <1>3, MeantParts

\* A read of a body up to the end of the stream.
LEMMA EofStep ==
  ASSUME NEW w \in Seq(Bytes), NEW m, NEW p \in Nat, NEW bd, InEof(w, m, p, bd),
         NEW k \in Nat, p + k <= Len(w),
         NEW b, b = bd \o Slice(w, p, p + k)
  PROVE  /\ b \in Seq(Bytes) /\ Len(b) \in Nat
         /\ Len(b) > MaxBody => m.kind = "large"
         /\ Len(b) <= MaxBody => InEof(w, m, p + k, b)
<1>1. PICK f \in 0..p : bd = Slice(w, f, p) /\ p - f <= MaxBody /\ m = EofMeaning(w, f)
  BY DEF InEof
<1> DEFINE q == p + k
<1>2. /\ Len(w) \in Nat /\ MaxBody \in Nat /\ f \in Nat /\ f <= p /\ p <= q /\ q \in Nat /\ f <= q
      /\ f \in 0..q /\ q <= Len(w)
  BY LenProperties, HttpAssumption
<1>3. b = bd \o Slice(w, p, q)
  OBVIOUS
<1> HIDE DEF q
<1>5. b = Slice(w, f, q)
  <2>0. f \in Nat /\ q \in Nat /\ f <= p /\ p <= q /\ q <= Len(w)
    BY <1>2
  <2>1. Slice(w, f, p) \o Slice(w, p, q) = Slice(w, f, q)
    BY <2>0, SliceJoin
  <2> QED BY <1>1, <1>3, <2>1
<1>6. b \in Seq(Bytes) /\ Len(b) = q - f
  <2>1. Slice(w, f, q) \in Seq(Bytes) /\ Len(Slice(w, f, q)) = q - f
    BY <1>2, SliceLen
  <2> QED BY <2>1, <1>5
<1>7. ASSUME Len(b) > MaxBody PROVE m.kind = "large"
  <2>1. Len(w) - f > MaxBody
    BY <1>2, <1>6, <1>7
  <2>2. m = Bare("large")
    BY <1>1, <2>1 DEF EofMeaning
  <2> QED BY <2>2, MeantParts
<1>8. ASSUME Len(b) <= MaxBody PROVE InEof(w, m, q, b)
  <2>1. q - f <= MaxBody
    BY <1>6, <1>8
  <2> QED BY <2>1, <1>1, <1>2, <1>5 DEF InEof
<1> QED BY <1>2, <1>6, <1>7, <1>8 DEF q

\* A reply of which p bytes have been read may be accepted with the body bd, see Decoded.
Accepted(r, p, bd) ==
  /\ MeaningOf(r).kind = "whole"
  /\ \/ bd = MeaningOf(r).payload
     \/ /\ HasHeader(r.headers, "content-length") /\ IsPrefix(MeaningOf(r).payload, bd)
        /\ bd = SubSeq(r.wire, memchr_crlf_crlf(r.wire) + 1, p)

\* A slice begins with the shorter one from the same place.
LEMMA PrefixOfSlice ==
  ASSUME NEW w \in Seq(Bytes), NEW a \in Nat, NEW b \in Nat, NEW c \in Nat,
         a <= b, b <= c, c <= Len(w)
  PROVE  IsPrefix(Slice(w, a, b), Slice(w, a, c))
<1> DEFINE s == Slice(w, a, b)
           t == Slice(w, a, c)
           k == b - a
           l == c - a
           z == 0
<1>1. k \in Nat /\ l \in Nat /\ k <= l /\ z \in Nat /\ z <= k /\ k <= k /\ a <= c /\ b <= Len(w)
      /\ k - z = k /\ a + z = a /\ a + k = b
  BY LenProperties
<1>2. Len(s) = k /\ Len(t) = l
  BY <1>1, SliceLen
<1>3. k = b - a /\ l = c - a
  OBVIOUS
<1> HIDE DEF k, l, z
<1>4. Slice(Slice(w, a, b), z, k) = Slice(w, a + z, a + k)
  BY <1>1, <1>3, SliceOfSlice
<1>5. Slice(Slice(w, a, c), z, k) = Slice(w, a + z, a + k)
  BY <1>1, <1>3, SliceOfSlice
<1>6. Slice(s, z, k) = Slice(t, z, k)
  BY <1>4, <1>5
<1> HIDE DEF s, t
<1>7. SubSeq(s, 1, k) = SubSeq(t, 1, k)
  <2>1. z + 1 = 1
    BY DEF z
  <2>2. SubSeq(s, z + 1, k) = SubSeq(t, z + 1, k)
    BY <1>6 DEF Slice
  <2> QED BY <2>1, <2>2
<1>8. IsPrefix(s, t)
  BY <1>1, <1>2, <1>7 DEF IsPrefix
<1> QED BY <1>8 DEF s, t

\* header_lookup finds a value in a list that has the header.
LEMMA LookupInt ==
  ASSUME NEW hs \in Headers, NEW n, HasHeader(hs, n)
  PROVE  header_lookup(hs, n) \in Int
<1> DEFINE S == {i \in 1..Len(hs) : hs[i].name = n}
<1>1. S # {} /\ S \in SUBSET Nat /\ S \subseteq 1..Len(hs)
  BY DEF HasHeader
<1>2. Min(S) \in 1..Len(hs)
  <2> HIDE DEF S
  <2> QED BY <1>1, LeastOf
<1>3. header_lookup(hs, n) = hs[Min(S)].value
  BY DEF header_lookup
<1> HIDE DEF S
<1>4. hs[Min(S)] \in [name : HeaderNames, value : Int]
  BY <1>2, ElementOfSeq DEF Headers
<1> QED BY <1>3, <1>4

\* read_http_body with a Content-Length, x having come with the head.
LEMMA LengthStarts ==
  ASSUME NEW r \in Reply, NEW w, w = r.wire, NEW m, m = MeaningOf(r),
         NEW f, f = memchr_crlf_crlf(w), f # 0, f <= MaxHead,
         parse_status_line(r.status), HasHeader(r.headers, "content-length"),
         NEW len, len = header_lookup(r.headers, "content-length"),
         NEW q \in 0..Len(w), f \in 0..q, NEW x, x = Slice(w, f, q)
  PROVE  /\ len < 0 => m.kind = "malformed"
         /\ len > MaxBody => m.kind = "large"
         /\ len \in 0..MaxBody /\ len <= Len(x) => Accepted(r, q, x)
         /\ len \in 0..MaxBody /\ len > Len(x) =>
              InLength(w, m, q, x, len - Len(x)) /\ len - Len(x) \in Nat
<1>1. w \in Seq(Bytes)
  BY DEF Reply, Bytes
<1>2. m = LengthMeaning(w, f, len)
  BY HttpAssumption DEF MeaningOf
<1>3. /\ Len(w) \in Nat /\ f \in Nat /\ q \in Nat /\ f <= q /\ q <= Len(w) /\ MaxBody \in Nat
  BY <1>1, LenProperties, HttpAssumption
<1>4. Len(x) = q - f
  BY <1>1, <1>3, SliceLen
<1>5. ASSUME len < 0 PROVE m.kind = "malformed"
  <2>1. m = Bare("malformed")
    BY <1>2, <1>5 DEF LengthMeaning
  <2> QED BY <2>1, MeantParts
<1>7. ASSUME len \in 0..MaxBody, len <= Len(x) PROVE Accepted(r, q, x)
  <2> DEFINE e == f + len
  <2>1. ~(len < 0) /\ ~(len > MaxBody) /\ ~(Len(w) - f < len) /\ e \in Nat /\ f <= e /\ e <= q
    BY <1>3, <1>4, <1>7
  <2>2. m = Meant("whole", Slice(w, f, e))
    BY <1>2, <2>1 DEF LengthMeaning, Slice
  <2> HIDE DEF e
  <2>3. m.kind = "whole" /\ m.payload = Slice(w, f, e)
    BY <2>2, MeantParts
  <2>4. IsPrefix(Slice(w, f, e), Slice(w, f, q))
    BY <1>1, <1>3, <2>1, PrefixOfSlice
  <2>5. x = SubSeq(w, f + 1, q)
    BY DEF Slice
  <2> QED BY <2>3, <2>4, <2>5 DEF Accepted
<1>8. ASSUME len \in 0..MaxBody, len > Len(x)
      PROVE  InLength(w, m, q, x, len - Len(x)) /\ len - Len(x) \in Nat
  <2> DEFINE n == len - Len(x)
  <2>0. len \in Nat /\ len <= MaxBody /\ len > q - f /\ n = len - (q - f)
    BY <1>3, <1>4, <1>8
  <2>1. n \in Nat \ {0} /\ q - f + n = len /\ q - f + n <= MaxBody
    <3> HIDE DEF n
    <3> DEFINE d == q - f
    <3>1. d \in Nat
      BY <1>3
    <3>2. len \in Nat /\ len <= MaxBody /\ len > d /\ n = len - d /\ MaxBody \in Nat
      BY <1>3, <2>0
    <3> HIDE DEF d
    <3>3. n \in Nat \ {0} /\ d + n = len
      BY <3>1, <3>2
    <3> QED BY <3>2, <3>3 DEF d
  <2> HIDE DEF n
  <2>2. InLength(w, m, q, x, n)
    BY <2>1, <1>2 DEF InLength
  <2> QED BY <2>1, <2>2 DEF n
<1>9. ASSUME len > MaxBody PROVE m.kind = "large"
  <2>1. len \in Int
    BY LookupInt DEF Reply
  <2>2. ~(len < 0)
    BY <1>3, <1>9, <2>1
  <2>3. m = Bare("large")
    BY <1>2, <1>9, <2>2 DEF LengthMeaning
  <2> QED BY <2>3, MeantParts
<1> QED BY <1>5, <1>7, <1>8, <1>9

\* read_http_body without one, with chunks: the first size line begins behind the head.
LEMMA ChunksStart ==
  ASSUME NEW r \in Reply, NEW w, w = r.wire, NEW m, m = MeaningOf(r),
         NEW f, f = memchr_crlf_crlf(w), f # 0, f <= MaxHead,
         parse_status_line(r.status), ~HasHeader(r.headers, "content-length"),
         Chunked(r.headers), f \in 0..Len(w)
  PROVE  InLine(w, m, f, <<>>, <<>>)
<1>1. w \in Seq(Bytes)
  BY DEF Reply, Bytes
<1>2. m = ChunksOf(w)[<<f, 0>>]
  BY HttpAssumption DEF MeaningOf
<1>3. Len(w) \in Nat /\ f \in Nat /\ MaxBody \in Nat /\ 0 \in 0..MaxBody /\ f \in 0..f
      /\ MaxLine \in Nat /\ f - f <= MaxLine
  BY <1>1, LenProperties, HttpAssumption
<1>4. m.payload \in Seq(Bytes)
  BY <1>1, <1>2, <1>3, ChunksType
<1> DEFINE t == m.payload
<1> HIDE DEF t
<1>5. <<>> \o t = t
  BY <1>4, ConcatEmptySeq DEF t
<1>6. Extends(m, <<>>, m)
  BY <1>5 DEF Extends, t
<1>7. Len(<<>>) = 0
  OBVIOUS
<1>8. Extends(m, <<>>, ChunksOf(w)[<<f, Len(<<>>)>>])
  BY <1>2, <1>6, <1>7
<1>9. <<>> = Slice(w, f, f)
  BY <1>1, SliceEmpty
<1>10. \A i \in (f + 2)..f : FALSE
  BY <1>3
<1> QED BY <1>3, <1>8, <1>9, <1>10 DEF InLine

\* read_http_body with neither, x having come with the head.
LEMMA EofStarts ==
  ASSUME NEW r \in Reply, NEW w, w = r.wire, NEW m, m = MeaningOf(r),
         NEW f, f = memchr_crlf_crlf(w), f # 0, f <= MaxHead,
         parse_status_line(r.status), ~HasHeader(r.headers, "content-length"),
         ~Chunked(r.headers),
         NEW q \in Nat, f \in 0..q, q - f <= MaxBody, NEW x, x = Slice(w, f, q)
  PROVE  InEof(w, m, q, x)
<1>1. m = EofMeaning(w, f)
  BY HttpAssumption DEF MeaningOf
<1> QED BY <1>1 DEF InEof

\* A reply whose status line cannot be parsed is malformed.
LEMMA StatusBad ==
  ASSUME NEW r \in Reply, NEW m, m = MeaningOf(r),
         NEW f, f = memchr_crlf_crlf(r.wire), f # 0, f <= MaxHead, f \in Nat,
         ~parse_status_line(r.status)
  PROVE  m.kind = "malformed"
<1>1. m = Bare("malformed")
  BY HttpAssumption DEF MeaningOf
<1> QED BY <1>1, MeantParts

(***************************************************************************)
(* A read                                                                  *)
(***************************************************************************)
\* Up to a bytes have been read from the transport, and those behind p wait in x.
Buffered(w, p, a, x) == a \in 0..Len(w) /\ p \in 0..a /\ x = Slice(w, p, a)

\* The bytes of a read from the transport are the next ones, and only at the end does it end.
LEMMA Transported ==
  ASSUME NEW cap \in Nat \ {0}, NEW r \in TransportReads(cap) \cup UdsReads(cap)
  PROVE  /\ r.kind \in {"data", "eof", "reset", "timeout"}
         /\ r.kind = "data" =>
              \E n \in 1..cap : n <= Left /\ r.bytes = Slice(reply.wire, at, at + n)
         /\ r.kind # "data" => r.bytes = <<>>
         /\ r.kind = "eof" => Left = 0
<1>1. \/ \E wait : r \in Arrivals(cap, wait) \cup Ending \cup Silence(wait)
      \/ r = Outcome("timeout", <<>>, 0)
  BY DEF TransportReads, UdsReads, PipeReads
<1>2. CASE \E wait : r \in Arrivals(cap, wait)
  <2>1. \E n \in 1..cap, ticks \in 0..MaxDelay :
          n <= Left /\ r = Outcome("data", Slice(reply.wire, at, at + n), ticks)
    BY <1>2 DEF Arrivals, Slice
  <2>2. r.kind = "data" /\ \E n \in 1..cap : n <= Left /\ r.bytes = Slice(reply.wire, at, at + n)
    BY <2>1 DEF Outcome
  <2> QED BY <2>2
<1>3. CASE r \in Ending
  <2>1. Left = 0 /\ r.bytes = <<>> /\ r.kind \in {"eof", "reset"}
    BY <1>3 DEF Ending, Outcome
  <2> QED BY <2>1
<1>4. CASE (\E wait : r \in Silence(wait)) \/ r = Outcome("timeout", <<>>, 0)
  <2>1. r.kind = "timeout" /\ r.bytes = <<>>
    BY <1>4 DEF Silence, Outcome
  <2> QED BY <2>1
<1> QED BY <1>1, <1>2, <1>3, <1>4

\* A read takes the next bytes of the reply, at least one, whether they wait in rest or have to
\* come, and leaves the ones behind them; at the end of the stream everything has been taken.
LEMMA ReadTakes ==
  ASSUME reply.wire \in Seq(Bytes), NEW w, w = reply.wire, NEW p, Buffered(w, p, at, rest),
         NEW cap \in Nat \ {0}, NEW r \in Reads(cap), Take(r)
  PROVE  /\ r.kind \in {"data", "eof", "reset", "timeout"}
         /\ r.kind = "data" =>
              \E n \in 1..cap : /\ p + n <= Len(w) /\ r.bytes = Slice(w, p, p + n)
                                /\ Len(r.bytes) = n /\ Buffered(w, p + n, at', RestAfter(r))
                                /\ rest = <<>> => p + n = at'
         /\ r.kind # "data" =>
              p = at /\ at' = at /\ Buffered(w, p, at', RestAfter(r)) /\ r.bytes = <<>>
         /\ r.kind = "eof" => p = Len(w)
<1>1. /\ w \in Seq(Bytes) /\ Len(w) \in Nat /\ at \in Nat /\ p \in Nat /\ p <= at /\ at <= Len(w)
      /\ rest = Slice(w, p, at)
  BY LenProperties DEF Buffered
<1>2. rest \in Seq(Bytes) /\ Len(rest) = at - p /\ Len(rest) \in Nat
  <2>1. Slice(w, p, at) \in Seq(Bytes) /\ Len(Slice(w, p, at)) = at - p
    BY <1>1, SliceLen
  <2> QED BY <1>1, <2>1
<1>3. CASE rest # <<>>
  <2>1. Len(rest) # 0
    BY <1>2, <1>3, EmptySeq
  <2> DEFINE l == Len(rest)
             n == IF cap < l THEN cap ELSE l
             z == 0
             q == p + n
  <2>2. /\ l \in Nat \ {0} /\ n \in 1..cap /\ n \in Nat /\ n <= l /\ l <= at - p
        /\ z \in Nat /\ z <= n
        /\ n <= at - p /\ n - z = n /\ p + z = p /\ p + n = q /\ p + l = at /\ l - n \in Nat
        /\ q \in 0..at /\ q <= Len(w) /\ at \in 0..Len(w) /\ z + 1 = 1 /\ n <= at - p
    BY <1>1, <1>2, <2>1
  <2>3. r = Outcome("data", SubSeq(rest, 1, n), 0)
    BY <1>3 DEF Reads
  <2>4. r.kind = "data" /\ r.bytes = SubSeq(rest, 1, n)
    BY <2>3 DEF Outcome
  <2> HIDE DEF l, n, z, q
  <2>5. Slice(Slice(w, p, at), z, n) = Slice(w, p + z, p + n)
    BY <1>1, <2>2, SliceOfSlice
  <2>6. r.bytes = Slice(w, p, q)
    <3>1. SubSeq(rest, z + 1, n) = Slice(w, p + z, p + n)
      BY <1>1, <2>5 DEF Slice
    <3> QED BY <2>2, <2>4, <3>1
  <2>7. Len(r.bytes) = n
    <3>1. p <= q /\ q - p = n /\ q \in Nat
      BY <1>1, <2>2
    <3>2. Len(Slice(w, p, q)) = q - p
      BY <1>1, <2>2, <3>1, SliceLen
    <3> QED BY <2>6, <3>1, <3>2
  <2>8. RestAfter(r) = Slice(w, q, at)
    <3>1. Slice(Slice(w, p, at), n, l) = Slice(w, p + n, p + l)
      BY <1>1, <2>2, SliceOfSlice
    <3>2. SubSeq(rest, n + 1, l) = Slice(w, q, at)
      BY <1>1, <2>2, <3>1 DEF Slice
    <3> QED BY <1>3, <2>7, <3>2 DEF RestAfter, l
  <2>9. at' = at
    BY <1>3 DEF Take
  <2>10. Buffered(w, q, at', RestAfter(r))
    BY <2>2, <2>8, <2>9 DEF Buffered
  <2>11. p + n <= Len(w) /\ r.bytes = Slice(w, p, p + n) /\ Buffered(w, p + n, at', RestAfter(r))
    BY <2>2, <2>6, <2>10 DEF q
  <2> QED BY <1>3, <2>2, <2>4, <2>7, <2>11
<1>4. CASE rest = <<>>
  <2>1. p = at
    <3>1. Len(rest) = 0
      BY <1>4
    <3> QED BY <1>1, <1>2, <3>1
  <2>2. r \in TransportReads(cap) /\ RestAfter(r) = <<>> /\ at' = at + Len(r.bytes)
    BY <1>4 DEF Reads, RestAfter, Take
  <2>3. /\ r.kind \in {"data", "eof", "reset", "timeout"}
        /\ r.kind = "data" => \E n \in 1..cap : n <= Left /\ r.bytes = Slice(w, at, at + n)
        /\ r.kind # "data" => r.bytes = <<>>
        /\ r.kind = "eof" => Left = 0
    BY <2>2, Transported
  <2>4. ASSUME r.kind # "data" PROVE at' = at /\ Buffered(w, p, at', RestAfter(r)) /\ r.bytes = <<>>
    <3>1. r.bytes = <<>> /\ at' = at
      BY <1>1, <2>2, <2>3, <2>4
    <3>2. at \in 0..Len(w) /\ at \in 0..at
      BY <1>1
    <3>3. Slice(w, at, at) = <<>>
      BY <1>1, <3>2, SliceEmpty
    <3> QED BY <2>1, <2>2, <3>1, <3>2, <3>3 DEF Buffered
  <2>5. ASSUME r.kind = "data"
        PROVE  \E n \in 1..cap : /\ p + n <= Len(w) /\ r.bytes = Slice(w, p, p + n)
                                 /\ Len(r.bytes) = n /\ Buffered(w, p + n, at', RestAfter(r))
                                 /\ p + n = at'
    <3>1. PICK n \in 1..cap : n <= Left /\ r.bytes = Slice(w, at, at + n)
      BY <2>3, <2>5
    <3> DEFINE q == at + n
    <3>2. q \in Nat /\ q <= Len(w) /\ at <= q /\ q - at = n /\ q \in 0..Len(w) /\ q \in 0..q
      BY <1>1, <3>1 DEF Left
    <3> HIDE DEF q
    <3>3. Len(r.bytes) = n
      <4>1. Len(Slice(w, at, q)) = q - at
        BY <1>1, <3>2, SliceLen
      <4> QED BY <3>1, <3>2, <4>1 DEF q
    <3>4. at' = q
      BY <2>2, <3>3 DEF q
    <3>5. Slice(w, q, q) = <<>>
      BY <1>1, <3>2, SliceEmpty
    <3>6. Buffered(w, q, at', RestAfter(r))
      BY <2>2, <3>2, <3>4, <3>5 DEF Buffered
    <3> QED BY <2>1, <3>1, <3>2, <3>3, <3>4, <3>6 DEF q
  <2>6. r.kind = "eof" => p = Len(w)
    BY <1>1, <2>1, <2>3 DEF Left
  <2> QED BY <2>1, <2>3, <2>4, <2>5, <2>6
<1> QED BY <1>3, <1>4

(***************************************************************************)
(* The invariant of the decoder                                            *)
(***************************************************************************)
\* What a call may return.
Results == {"none", "ok", "malformed", "large", "timeout", "eof", "reset", "refused"}

\* The error is one that the reply deserves, see Blamed.
Deserved(kind, r) ==
  /\ kind = "eof" => MeaningOf(r).kind = "cut"
  /\ kind = "malformed" => MeaningOf(r).kind = "malformed"
  /\ kind = "large" => MeaningOf(r).kind = "large" \/ HeadEdge(r)

\* Where the reader stands in the reply: what has been taken up to p, and what is in the buffers, is
\* that of its phase.
Stands(ph, w, m, a, p, b, bd, n) ==
  \/ ph = "idle" /\ b = <<>> /\ n = 0 /\ p = a
  \/ ph \in {"open", "write"} /\ b = <<>> /\ bd = <<>> /\ n = 0 /\ p = a /\ a = 0
  \/ ph = "head" /\ bd = <<>> /\ n = 0 /\ p = a /\ InHead(w, p, b)
  \/ ph = "drain" /\ b = <<>> /\ bd = <<>> /\ n = 0 /\ p = a
  \/ ph = "length" /\ b = <<>> /\ p = a /\ InLength(w, m, p, bd, n)
  \/ ph = "eof" /\ b = <<>> /\ n = 0 /\ p = a /\ InEof(w, m, p, bd)
  \/ ph = "line" /\ n = 0 /\ InLine(w, m, p, b, bd)
  \/ ph = "data" /\ InData(w, m, p, b, n, bd)
  \/ ph = "crlf" /\ InCrlf(w, m, p, b, n, bd)
  \/ ph = "trailer" /\ b = <<>> /\ InTrailer(m, n, bd)

\* The state stands there.
Reached(p) ==
  /\ Buffered(reply.wire, p, at, rest)
  /\ Stands(phase, reply.wire, MeaningOf(reply), at, p, buf, body, need)

\* Types of what is decoded, and the bound on the body.
DataInv == /\ reply \in Replies
           /\ buf \in Seq(Bytes) /\ body \in Seq(Bytes) /\ Len(body) <= MaxBody
           /\ result \in Results

\* What has been returned is right, and nothing has been accepted before the end.
VerdictInv == /\ phase # "idle" => result # "ok"
              /\ Deserved(result, reply)
              /\ phase = "idle" /\ result = "ok" => Accepted(reply, at, body)

\* The inductive invariant of the decoder: some position p separates what has been consumed from
\* what has not, and the meaning of the whole reply is that of the former, continued by the latter.
DecodeInv == DataInv /\ VerdictInv /\ \E p \in Nat : Reached(p)

\* A reply is a sequence of bytes.
LEMMA WireType ==
  ASSUME DataInv
  PROVE  /\ reply \in Reply /\ reply.wire \in Seq(Bytes) /\ Len(reply.wire) \in Nat
<1>1. reply \in Reply
  BY MessageAssumption DEF DataInv
<1>2. reply.wire \in Seq(Bytes)
  BY <1>1 DEF Reply, Bytes
<1> QED BY <1>1, <1>2, LenProperties

\* Nothing waits in rest when all that was read has been taken.
LEMMA NothingBuffered ==
  ASSUME NEW w \in Seq(Bytes), NEW a \in 0..Len(w)
  PROVE  Buffered(w, a, a, <<>>) /\ a \in Nat
<1>1. Slice(w, a, a) = <<>>
  BY SliceEmpty
<1>2. a \in 0..a /\ a \in Nat
  BY LenProperties
<1> QED BY <1>1, <1>2 DEF Buffered

\* A call that ends, with a body that the reply means or with an error that it deserves.
LEMMA Returned ==
  ASSUME DataInv, NEW kind \in Results, NEW bd \in Seq(Bytes), Len(bd) <= MaxBody,
         Return(kind, bd), at' \in 0..Len(reply.wire), Deserved(kind, reply),
         kind = "ok" => Accepted(reply, at', bd)
  PROVE  DecodeInv'
<1>1. /\ phase' = "idle" /\ result' = kind /\ body' = bd /\ buf' = <<>> /\ rest' = <<>>
      /\ need' = 0 /\ reply' = reply
  BY DEF Return
<1>2. DataInv'
  BY <1>1, EmptySeq DEF DataInv
<1>3. VerdictInv'
  BY <1>1 DEF VerdictInv
<1>4. PICK a \in 0..Len(reply.wire) : a = at'
  OBVIOUS
<1>5. Buffered(reply.wire, a, a, <<>>) /\ a \in Nat
  BY <1>4, NothingBuffered, WireType
<1>6. Stands("idle", reply.wire, MeaningOf(reply), a, a, <<>>, bd, 0)
  BY DEF Stands
<1>7. Reached(a)'
  BY <1>1, <1>4, <1>5, <1>6 DEF Reached
<1> QED BY <1>2, <1>3, <1>5, <1>7 DEF DecodeInv

\* A call that goes on, and stands at p.
LEMMA WentOn ==
  ASSUME DataInv, VerdictInv, phase # "idle",
         NEW ph, ph # "idle", NEW b \in Seq(Bytes), NEW x, NEW bd \in Seq(Bytes),
         Len(bd) <= MaxBody, NEW n, GoOn(ph, b, x, bd, n), NEW p \in Nat,
         Buffered(reply.wire, p, at', x),
         Stands(ph, reply.wire, MeaningOf(reply), at', p, b, bd, n)
  PROVE  DecodeInv'
<1>1. /\ phase' = ph /\ result' = result /\ body' = bd /\ buf' = b /\ rest' = x
      /\ need' = n /\ reply' = reply
  BY DEF GoOn
<1>2. DataInv'
  BY <1>1 DEF DataInv
<1>3. VerdictInv'
  BY <1>1 DEF VerdictInv
<1>4. Reached(p)'
  BY <1>1 DEF Reached
<1> QED BY <1>2, <1>3, <1>4 DEF DecodeInv

\* A head that fails: the call ends or, over the socket, goes on to the drain with its error.
LEMMA HeadFailed ==
  ASSUME DataInv, phase = "head", rest = <<>>, body = <<>>, need = 0,
         NEW kind \in {"large", "eof", "reset", "timeout"}, HeadFails(kind),
         at' \in 0..Len(reply.wire), Deserved(kind, reply)
  PROVE  DecodeInv'
<1>1. CASE Return(kind, <<>>)
  <2>1. <<>> \in Seq(Bytes) /\ Len(<<>>) <= MaxBody /\ kind \in Results /\ kind # "ok"
    BY HttpAssumption, EmptySeq DEF Results
  <2> QED BY <2>1, <1>1, Returned
<1>2. CASE UdsHeadFails(kind)
  <2>1. /\ phase' = "drain" /\ result' = kind /\ buf' = <<>> /\ rest' = <<>> /\ body' = <<>>
        /\ need' = 0 /\ reply' = reply
    BY <1>2 DEF UdsHeadFails
  <2>2. DataInv'
    BY <2>1, EmptySeq DEF DataInv, Results
  <2>3. VerdictInv'
    BY <2>1 DEF VerdictInv
  <2>4. PICK a \in 0..Len(reply.wire) : a = at'
    OBVIOUS
  <2>5. Buffered(reply.wire, a, a, <<>>) /\ a \in Nat
    BY <2>4, NothingBuffered, WireType
  <2>6. Stands("drain", reply.wire, MeaningOf(reply), a, a, <<>>, <<>>, 0)
    BY DEF Stands
  <2>7. Reached(a)'
    BY <2>1, <2>4, <2>5, <2>6 DEF Reached
  <2> QED BY <2>2, <2>3, <2>5, <2>7 DEF DecodeInv
<1> QED BY <1>1, <1>2 DEF HeadFails

\* An error ends the call with nothing.
LEMMA ReturnedEmpty ==
  ASSUME DataInv, NEW kind \in Results \ {"ok"}, Return(kind, <<>>),
         at' \in 0..Len(reply.wire), Deserved(kind, reply)
  PROVE  DecodeInv'
<1>1. <<>> \in Seq(Bytes) /\ Len(<<>>) <= MaxBody
  BY HttpAssumption, EmptySeq
<1> QED BY <1>1, Returned

(***************************************************************************)
(* Each action keeps it                                                    *)
(***************************************************************************)
\* Connecting and writing decode nothing, and lead to the beginning of the head.
LEMMA RequestDecodes ==
  ASSUME DecodeInv,
         \/ UdsConnect \/ PipeExpired \/ PipeOpen \/ PipeBusy \/ PipeMissing
         \/ UdsWrite \/ PipeWrite
  PROVE  DecodeInv'
<1>1. PICK p \in Nat : Reached(p)
  BY DEF DecodeInv
<1>2. phase \in {"open", "write"}
  BY DEF UdsConnect, PipeExpired, PipeOpen, PipeBusy, PipeMissing, UdsWrite, PipeWrite
<1>3. buf = <<>> /\ body = <<>> /\ need = 0 /\ p = 0 /\ at = 0
  BY <1>1, <1>2 DEF Reached, Stands
<1>4. Buffered(reply.wire, p, at, rest)
  BY <1>1 DEF Reached
<1>5. at \in 0..Len(reply.wire) /\ at' = at
  BY <1>4 DEF Buffered, UdsConnect, PipeExpired, PipeOpen, PipeBusy, PipeMissing, UdsWrite,
              PipeWrite, Opened, Fail, FailAfter, Return, Wrote
<1>6. \/ \E kind \in {"timeout", "refused", "reset"} : Return(kind, <<>>)
      \/ /\ phase' \in {"open", "write", "head"}
         /\ UNCHANGED <<reply, at, buf, rest, body, need, result>>
  BY <1>2 DEF UdsConnect, PipeExpired, PipeOpen, PipeBusy, PipeMissing, UdsWrite, PipeWrite,
              Opened, Fail, FailAfter, Wrote
<1>7. CASE \E kind \in {"timeout", "refused", "reset"} : Return(kind, <<>>)
  <2>1. PICK kind \in {"timeout", "refused", "reset"} : Return(kind, <<>>)
    BY <1>7
  <2>2. kind \in Results \ {"ok"} /\ Deserved(kind, reply)
    BY DEF Results, Deserved
  <2> QED BY <1>5, <2>1, <2>2, ReturnedEmpty DEF DecodeInv
<1>8. CASE /\ phase' \in {"open", "write", "head"}
           /\ UNCHANGED <<reply, at, buf, rest, body, need, result>>
  <2>1. DataInv'
    BY <1>8 DEF DecodeInv, DataInv
  <2>2. VerdictInv'
    BY <1>2, <1>8 DEF DecodeInv, VerdictInv
  <2>3. InHead(reply.wire, p, buf)
    <3>1. reply.wire \in Seq(Bytes) /\ Len(reply.wire) \in Nat
      BY WireType DEF DecodeInv
    <3>2. 0 \in 0..Len(reply.wire) /\ 0 <= MaxHead
      BY <3>1, HttpAssumption
    <3>3. Slice(reply.wire, 0, 0) = <<>>
      BY <3>1, <3>2, SliceEmpty
    <3>4. /\ memchr_crlf_crlf(reply.wire) \in 0..Len(reply.wire)
          /\ memchr_crlf_crlf(Slice(reply.wire, 0, 0)) =
               IF memchr_crlf_crlf(reply.wire) <= 0 THEN memchr_crlf_crlf(reply.wire) ELSE 0
      BY <3>1, <3>2, HeadFound
    <3>5. memchr_crlf_crlf(<<>>) = 0
      BY <3>1, <3>3, <3>4
    <3> QED BY <1>3, <3>2, <3>3, <3>5 DEF InHead
  <2>4. Stands(phase', reply.wire, MeaningOf(reply), at, p, buf, body, need)
    BY <1>3, <1>8, <2>3 DEF Stands
  <2>5. Reached(p)'
    BY <1>4, <1>8, <2>4 DEF Reached
  <2> QED BY <2>1, <2>2, <2>5 DEF DecodeInv
<1> QED BY <1>6, <1>7, <1>8

\* A call begins with empty buffers.
LEMMA CallDecodes == ASSUME DecodeInv, Call PROVE DecodeInv'
<1>1. PICK p \in Nat : Reached(p)
  BY DEF DecodeInv
<1>2. /\ phase = "idle" /\ phase' = "open" /\ result' = "none" /\ body' = <<>> /\ at' = 0
      /\ UNCHANGED <<reply, buf, rest, need>>
  BY DEF Call
<1>3. buf = <<>> /\ need = 0 /\ p = at
  BY <1>1, <1>2 DEF Reached, Stands
<1>4. reply.wire \in Seq(Bytes) /\ Len(reply.wire) \in Nat
  BY WireType DEF DecodeInv
<1>5. at \in 0..Len(reply.wire) /\ rest = Slice(reply.wire, at, at)
  BY <1>1, <1>3 DEF Reached, Buffered
<1>6. rest = <<>>
  BY <1>4, <1>5, SliceEmpty
<1>7. Buffered(reply.wire, 0, 0, <<>>)
  BY <1>4, NothingBuffered
<1>8. Stands("open", reply.wire, MeaningOf(reply), 0, 0, <<>>, <<>>, 0)
  BY DEF Stands
<1>9. Reached(0)'
  BY <1>2, <1>3, <1>6, <1>7, <1>8 DEF Reached
<1>10. DataInv'
  BY <1>2, EmptySeq, HttpAssumption DEF DecodeInv, DataInv, Results
<1>11. VerdictInv'
  BY <1>2 DEF VerdictInv, Deserved
<1> QED BY <1>9, <1>10, <1>11 DEF DecodeInv

\* ReadLength stops exactly at the announced length.
LEMMA LengthDecodes == ASSUME DecodeInv, ReadLength PROVE DecodeInv'
<1> DEFINE w == reply.wire
           m == MeaningOf(reply)
<1>1. PICK p \in Nat : Reached(p)
  BY DEF DecodeInv
<1>2. phase = "length" /\ DataInv /\ VerdictInv
  BY DEF ReadLength, DecodeInv
<1>3. buf = <<>> /\ p = at /\ InLength(w, m, p, body, need)
  BY <1>1, <1>2 DEF Reached, Stands
<1>4. need \in Nat \ {0}
  BY <1>3 DEF InLength
<1>5. w \in Seq(Bytes) /\ Len(w) \in Nat
  BY <1>2, WireType
<1>6. Buffered(w, p, at, rest)
  BY <1>1 DEF Reached
<1>7. rest = <<>>
  BY <1>3, <1>5, <1>6, SliceEmpty DEF Buffered
<1>8. PICK r \in Reads(need) :
        /\ Take(r)
        /\ \/ r.kind # "data" /\ Return(r.kind, <<>>)
           \/ r.kind = "data" /\ Len(r.bytes) < need
              /\ GoOn("length", <<>>, <<>>, body \o r.bytes, need - Len(r.bytes))
           \/ r.kind = "data" /\ Len(r.bytes) = need /\ Return("ok", body \o r.bytes)
  BY DEF ReadLength
<1>9. /\ r.kind \in {"data", "eof", "reset", "timeout"}
      /\ r.kind = "data" =>
           \E n \in 1..need : /\ p + n <= Len(w) /\ r.bytes = Slice(w, p, p + n)
                              /\ Len(r.bytes) = n /\ Buffered(w, p + n, at', RestAfter(r))
                              /\ rest = <<>> => p + n = at'
      /\ r.kind # "data" =>
           p = at /\ at' = at /\ Buffered(w, p, at', RestAfter(r)) /\ r.bytes = <<>>
      /\ r.kind = "eof" => p = Len(w)
  BY <1>4, <1>5, <1>6, <1>8, ReadTakes
<1> HIDE DEF w, m
<1>10. CASE r.kind # "data"
  <2>1. Return(r.kind, <<>>) /\ r.kind \in Results \ {"ok"}
    BY <1>8, <1>9, <1>10 DEF Results
  <2>2. at' \in 0..Len(reply.wire)
    BY <1>6, <1>9, <1>10 DEF Buffered, w
  <2>3. r.kind = "eof" => m.kind = "cut"
    BY <1>3, <1>5, <1>9, LengthCut
  <2>4. Deserved(r.kind, reply)
    BY <1>9, <1>10, <2>3 DEF Deserved, m
  <2> QED BY <1>2, <2>1, <2>2, <2>4, ReturnedEmpty
<1>11. CASE r.kind = "data"
  <2>1. PICK n \in 1..need : /\ p + n <= Len(w) /\ r.bytes = Slice(w, p, p + n)
                             /\ Len(r.bytes) = n /\ p + n = at'
    BY <1>7, <1>9, <1>11
  <2> DEFINE b == body \o r.bytes
             q == p + n
             l == need - n
  <2>2. n \in Nat /\ n <= need
    BY <1>4
  <2>3. b = body \o Slice(w, p, p + n)
    BY <2>1
  <2>4. /\ b \in Seq(Bytes) /\ Len(b) \in 0..MaxBody
        /\ n < need => InLength(w, m, p + n, b, need - n)
        /\ n = need => m.kind = "whole" /\ m.payload = b
    <3>1. p + n <= Len(w) /\ InLength(w, m, p, body, need) /\ n <= need
      BY <1>3, <2>1, <2>2
    <3> HIDE DEF b, q, l
    <3> QED BY <1>5, <3>1, <2>2, <2>3, LengthStep, ZenonT(40)
  <2>5. q \in Nat /\ q \in 0..Len(w) /\ at' = q /\ Len(b) <= MaxBody
    <3>1. at' = q /\ q <= Len(w)
      BY <2>1
    <3>2. q \in Nat
      BY <1>2, <1>3, <2>2
    <3>3. Len(b) <= MaxBody
      <4> HIDE DEF b
      <4> QED BY <2>4, HttpAssumption
    <3> HIDE DEF b, q
    <3> QED BY <1>5, <3>1, <3>2, <3>3
  <2>6. CASE n < need
    <3>1. GoOn("length", <<>>, <<>>, b, l) /\ <<>> \in Seq(Bytes)
      BY <1>8, <1>11, <2>1, <2>6, EmptySeq
    <3>2. InLength(w, m, q, b, l)
      BY <2>4, <2>6
    <3> HIDE DEF b, q, l
    <3>3. Stands("length", w, m, at', q, <<>>, b, l)
      BY <2>5, <3>2 DEF Stands
    <3>4. Buffered(w, q, at', <<>>)
      BY <1>5, <2>5, NothingBuffered
    <3> QED BY <1>2, <2>4, <2>5, <3>1, <3>3, <3>4, WentOn DEF w, m
  <2>7. CASE n = need
    <3>1. Return("ok", b)
      BY <1>8, <1>11, <2>1, <2>7
    <3>2. m.kind = "whole" /\ m.payload = b
      BY <2>4, <2>7
    <3> HIDE DEF b, q, l
    <3>3. Accepted(reply, at', b)
      BY <3>2 DEF Accepted, m
    <3>4. Deserved("ok", reply) /\ "ok" \in Results
      BY DEF Deserved, Results
    <3> QED BY <1>2, <2>4, <2>5, <3>1, <3>3, <3>4, Returned DEF w
  <2> QED BY <2>2, <2>6, <2>7, <1>4
<1> QED BY <1>9, <1>10, <1>11

\* ReadEof.
LEMMA EofDecodes == ASSUME DecodeInv, ReadEof PROVE DecodeInv'
<1> DEFINE w == reply.wire
           m == MeaningOf(reply)
<1>1. PICK p \in Nat : Reached(p)
  BY DEF DecodeInv
<1>2. phase = "eof" /\ DataInv /\ VerdictInv
  BY DEF ReadEof, DecodeInv
<1>3. buf = <<>> /\ p = at /\ InEof(w, m, p, body)
  BY <1>1, <1>2 DEF Reached, Stands
<1>4. BlockSize \in Nat \ {0}
  BY HttpAssumption
<1>5. w \in Seq(Bytes) /\ Len(w) \in Nat
  BY <1>2, WireType
<1>6. Buffered(w, p, at, rest)
  BY <1>1 DEF Reached
<1>7. rest = <<>>
  BY <1>3, <1>5, <1>6, SliceEmpty DEF Buffered
<1>8. PICK r \in Reads(BlockSize) :
        /\ Take(r)
        /\ \/ r.kind = "eof" /\ Return("ok", body)
           \/ r.kind \notin {"data", "eof"} /\ Return(r.kind, <<>>)
           \/ r.kind = "data" /\ Len(body \o r.bytes) > MaxBody /\ Return("large", <<>>)
           \/ r.kind = "data" /\ Len(body \o r.bytes) <= MaxBody
              /\ GoOn("eof", <<>>, <<>>, body \o r.bytes, 0)
  BY DEF ReadEof
<1>9. /\ r.kind \in {"data", "eof", "reset", "timeout"}
      /\ r.kind = "data" =>
           \E n \in 1..BlockSize : /\ p + n <= Len(w) /\ r.bytes = Slice(w, p, p + n)
                                   /\ Len(r.bytes) = n /\ Buffered(w, p + n, at', RestAfter(r))
                                   /\ rest = <<>> => p + n = at'
      /\ r.kind # "data" =>
           p = at /\ at' = at /\ Buffered(w, p, at', RestAfter(r)) /\ r.bytes = <<>>
      /\ r.kind = "eof" => p = Len(w)
  BY <1>4, <1>5, <1>6, <1>8, ReadTakes
<1> HIDE DEF w, m
<1>10. CASE r.kind = "eof"
  <2>1. Return("ok", body) /\ "ok" \in Results /\ Deserved("ok", reply)
    BY <1>8, <1>10 DEF Deserved, Results
  <2>2. at' \in 0..Len(reply.wire)
    BY <1>6, <1>9, <1>10 DEF Buffered, w
  <2>3. m.kind = "whole" /\ m.payload = body
    BY <1>3, <1>5, <1>9, <1>10, EofEnds
  <2>4. Accepted(reply, at', body)
    BY <2>3 DEF Accepted, m
  <2>5. body \in Seq(Bytes) /\ Len(body) <= MaxBody
    BY <1>2 DEF DataInv
  <2> QED BY <1>2, <2>1, <2>2, <2>4, <2>5, Returned
<1>11. CASE r.kind \notin {"data", "eof"}
  <2>1. Return(r.kind, <<>>) /\ r.kind \in Results \ {"ok"} /\ Deserved(r.kind, reply)
    BY <1>8, <1>9, <1>11 DEF Results, Deserved
  <2>2. at' \in 0..Len(reply.wire)
    BY <1>6, <1>9, <1>11 DEF Buffered, w
  <2> QED BY <1>2, <2>1, <2>2, ReturnedEmpty
<1>12. CASE r.kind = "data"
  <2>1. PICK n \in 1..BlockSize : /\ p + n <= Len(w) /\ r.bytes = Slice(w, p, p + n)
                                  /\ Len(r.bytes) = n /\ p + n = at'
    BY <1>7, <1>9, <1>12
  <2> DEFINE b == body \o r.bytes
             q == p + n
  <2>2. n \in Nat
    BY <1>4
  <2>3. b = body \o Slice(w, p, p + n)
    BY <2>1
  <2>4. /\ b \in Seq(Bytes) /\ Len(b) \in Nat
        /\ Len(b) > MaxBody => m.kind = "large"
        /\ Len(b) <= MaxBody => InEof(w, m, p + n, b)
    <3>1. p + n <= Len(w) /\ InEof(w, m, p, body)
      BY <1>3, <2>1
    <3> HIDE DEF b, q
    <3> QED BY <1>5, <3>1, <2>2, <2>3, EofStep
  <2>5. q \in Nat /\ q \in 0..Len(w) /\ at' = q
    BY <1>5, <2>1, <2>2
  <2>6. CASE Len(b) <= MaxBody
    <3>1. GoOn("eof", <<>>, <<>>, b, 0) /\ <<>> \in Seq(Bytes)
      BY <1>8, <1>12, <2>4, <2>6, EmptySeq, HttpAssumption
    <3>2. InEof(w, m, q, b)
      BY <2>4, <2>6
    <3> HIDE DEF b, q
    <3>3. Stands("eof", w, m, at', q, <<>>, b, 0)
      BY <2>5, <3>2 DEF Stands
    <3>4. Buffered(w, q, at', <<>>)
      BY <1>5, <2>5, NothingBuffered
    <3> QED BY <1>2, <2>4, <2>5, <2>6, <3>1, <3>3, <3>4, WentOn DEF w, m
  <2>7. CASE Len(b) > MaxBody
    <3>1. Return("large", <<>>) /\ "large" \in Results \ {"ok"}
      BY <1>8, <1>12, <2>4, <2>7, HttpAssumption DEF Results
    <3>2. Deserved("large", reply)
      BY <2>4, <2>7 DEF Deserved, m
    <3> QED BY <1>2, <2>5, <3>1, <3>2, ReturnedEmpty DEF w
  <2> QED BY <2>4, <2>6, <2>7, HttpAssumption
<1> QED BY <1>9, <1>10, <1>11, <1>12

\* The same of a read of one byte.
LEMMA ByteTakes ==
  ASSUME reply.wire \in Seq(Bytes), NEW w, w = reply.wire, NEW p, Buffered(w, p, at, rest),
         NEW r \in Reads(1), Take(r)
  PROVE  /\ r.kind \in {"data", "eof", "reset", "timeout"}
         /\ r.kind = "data" => /\ p + 1 <= Len(w) /\ r.bytes = Slice(w, p, p + 1)
                               /\ Buffered(w, p + 1, at', RestAfter(r))
         /\ r.kind # "data" => p = at /\ at' = at /\ Buffered(w, p, at', RestAfter(r))
         /\ r.kind = "eof" => p = Len(w)
<1>1. PICK cap \in Nat \ {0} : cap = 1
  OBVIOUS
<1>2. r \in Reads(cap)
  BY <1>1
<1>3. /\ r.kind \in {"data", "eof", "reset", "timeout"}
      /\ r.kind = "data" =>
           \E n \in 1..cap : /\ p + n <= Len(w) /\ r.bytes = Slice(w, p, p + n)
                             /\ Len(r.bytes) = n /\ Buffered(w, p + n, at', RestAfter(r))
                             /\ rest = <<>> => p + n = at'
      /\ r.kind # "data" =>
           p = at /\ at' = at /\ Buffered(w, p, at', RestAfter(r)) /\ r.bytes = <<>>
      /\ r.kind = "eof" => p = Len(w)
  BY <1>2, ReadTakes
<1>4. \A n \in 1..cap : n = 1
  BY <1>1
<1> QED BY <1>3, <1>4

\* ReadTrailer: the body is complete whatever the reads behind the last chunk bring.
LEMMA TrailerDecodes == ASSUME DecodeInv, ReadTrailer PROVE DecodeInv'
<1> DEFINE w == reply.wire
           m == MeaningOf(reply)
<1>1. PICK p \in Nat : Reached(p)
  BY DEF DecodeInv
<1>2. phase = "trailer" /\ DataInv /\ VerdictInv /\ body \in Seq(Bytes) /\ Len(body) <= MaxBody
  BY DEF ReadTrailer, DecodeInv, DataInv
<1>3. need \in {1, 2} /\ m.kind = "whole" /\ m.payload = body
  BY <1>1, <1>2 DEF Reached, Stands, InTrailer
<1>4. w \in Seq(Bytes) /\ Len(w) \in Nat
  BY <1>2, WireType
<1>5. Buffered(w, p, at, rest)
  BY <1>1 DEF Reached
<1>6. PICK r \in Reads(1) :
        /\ Take(r)
        /\ \/ need = 2 /\ GoOn("trailer", <<>>, RestAfter(r), body, 1)
           \/ need = 1 /\ Return("ok", body)
  BY DEF ReadTrailer
<1>7. \E q \in Nat : Buffered(w, q, at', RestAfter(r))
  <2>1. /\ r.kind = "data" => Buffered(w, p + 1, at', RestAfter(r))
        /\ r.kind # "data" => Buffered(w, p, at', RestAfter(r))
    BY <1>4, <1>5, <1>6, ByteTakes
  <2>2. p + 1 \in Nat
    OBVIOUS
  <2> QED BY <2>1, <2>2
<1>8. PICK q \in Nat : Buffered(w, q, at', RestAfter(r))
  BY <1>7
<1>9. at' \in 0..Len(w)
  BY <1>8 DEF Buffered
<1> HIDE DEF w, m
<1>10. CASE need = 2
  <2>1. GoOn("trailer", <<>>, RestAfter(r), body, 1) /\ <<>> \in Seq(Bytes)
    BY <1>6, <1>10, EmptySeq
  <2>2. Stands("trailer", w, m, at', q, <<>>, body, 1)
    BY <1>3 DEF Stands, InTrailer
  <2> QED BY <1>2, <1>8, <2>1, <2>2, WentOn DEF w, m
<1>11. CASE need = 1
  <2>1. Return("ok", body) /\ "ok" \in Results /\ Deserved("ok", reply)
    BY <1>6, <1>11 DEF Deserved, Results
  <2>2. Accepted(reply, at', body)
    BY <1>3 DEF Accepted, m
  <2> QED BY <1>2, <1>9, <2>1, <2>2, Returned DEF w
<1> QED BY <1>3, <1>10, <1>11

\* UdsDrain: the error of the head is kept.
LEMMA DrainDecodes == ASSUME DecodeInv, UdsDrain PROVE DecodeInv'
<1> DEFINE w == reply.wire
<1>1. PICK p \in Nat : Reached(p)
  BY DEF DecodeInv
<1>2. phase = "drain" /\ DataInv /\ VerdictInv
  BY DEF UdsDrain, DecodeInv
<1>3. p = at
  BY <1>1, <1>2 DEF Reached, Stands
<1>4. w \in Seq(Bytes) /\ Len(w) \in Nat
  BY <1>2, WireType
<1>5. Buffered(w, p, at, rest)
  BY <1>1 DEF Reached
<1>6. rest = <<>> /\ at \in 0..Len(w)
  BY <1>3, <1>4, <1>5, SliceEmpty DEF Buffered
<1>7. PICK r \in UdsReads(BlockSize) :
        /\ Take(r)
        /\ \/ r.kind = "data" /\ GoOn("drain", <<>>, <<>>, <<>>, 0)
           \/ r.kind # "data" /\ Return(result, <<>>)
  BY DEF UdsDrain
<1>8. at' = at + Len(r.bytes)
  BY <1>6, <1>7 DEF Take
<1>9. /\ r.kind = "data" => \E n \in 1..BlockSize : n <= Left /\ r.bytes = Slice(w, at, at + n)
      /\ r.kind # "data" => r.bytes = <<>>
  BY HttpAssumption, Transported
<1>10. at' \in 0..Len(w)
  <2>1. CASE r.kind # "data"
    BY <1>6, <1>8, <1>9, <2>1
  <2>2. CASE r.kind = "data"
    <3>1. PICK n \in 1..BlockSize : n <= Left /\ r.bytes = Slice(w, at, at + n)
      BY <1>9, <2>2
    <3> DEFINE q == at + n
    <3>2. at \in Nat /\ q \in Nat /\ at <= q /\ q <= Len(w) /\ q - at = n
      BY <1>4, <1>6, <3>1, HttpAssumption DEF Left
    <3> HIDE DEF q
    <3>3. Len(Slice(w, at, q)) = q - at
      BY <1>4, <3>2, SliceLen
    <3>4. at' = at + n
      BY <1>8, <3>1, <3>2, <3>3 DEF q
    <3> QED BY <1>4, <3>2, <3>4 DEF q
  <2> QED BY <2>1, <2>2
<1>11. <<>> \in Seq(Bytes) /\ Len(<<>>) <= MaxBody
  BY HttpAssumption, EmptySeq
<1>12. CASE r.kind = "data"
  <2>1. GoOn("drain", <<>>, <<>>, <<>>, 0)
    BY <1>7, <1>12
  <2>2. PICK q \in 0..Len(w) : q = at'
    BY <1>10
  <2>3. q \in Nat /\ Buffered(w, q, at', <<>>)
    BY <1>4, <2>2, NothingBuffered
  <2> DEFINE m == MeaningOf(reply)
  <2> HIDE DEF w, m
  <2>4. Stands("drain", w, m, at', q, <<>>, <<>>, 0)
    BY <2>2 DEF Stands
  <2> QED BY <1>2, <1>11, <2>1, <2>3, <2>4, WentOn DEF w, m
<1>13. CASE r.kind # "data"
  <2>1. Return(result, <<>>) /\ result \in Results \ {"ok"} /\ Deserved(result, reply)
    BY <1>2, <1>7, <1>13 DEF DataInv, VerdictInv
  <2> QED BY <1>2, <1>10, <2>1, ReturnedEmpty
<1> QED BY <1>12, <1>13

\* ReadSizeLine.
LEMMA LineDecodes == ASSUME DecodeInv, ReadSizeLine PROVE DecodeInv'
<1> DEFINE w == reply.wire
           m == MeaningOf(reply)
<1>1. PICK p \in Nat : Reached(p)
  BY DEF DecodeInv
<1>2. /\ phase = "line" /\ DataInv /\ VerdictInv /\ body \in Seq(Bytes) /\ Len(body) \in 0..MaxBody
      /\ Len(body) <= MaxBody
  BY LenProperties DEF ReadSizeLine, DecodeInv, DataInv
<1>3. InLine(w, m, p, buf, body)
  BY <1>1, <1>2 DEF Reached, Stands
<1>4. w \in Seq(Bytes) /\ Len(w) \in Nat
  BY <1>2, WireType
<1>5. Buffered(w, p, at, rest)
  BY <1>1 DEF Reached
<1>6. PICK r \in Reads(1) :
        LET line == buf \o r.bytes
            ended == Len(line) > 1 /\ SubSeq(line, Len(line) - 1, Len(line)) = <<CR, LF>>
        IN /\ Take(r)
           /\ \/ r.kind # "data" /\ Return(r.kind, <<>>)
              \/ r.kind = "data" /\ ended /\ Sized(SubSeq(line, 1, Len(line) - 2), RestAfter(r))
              \/ r.kind = "data" /\ ~ended /\ Len(line) > MaxLine /\ Return("large", <<>>)
              \/ r.kind = "data" /\ ~ended /\ Len(line) <= MaxLine
                 /\ GoOn("line", line, RestAfter(r), body, 0)
  BY DEF ReadSizeLine
<1> DEFINE line == buf \o r.bytes
           text == SubSeq(line, 1, Len(line) - 2)
<1>7. /\ Take(r)
      /\ \/ r.kind # "data" /\ Return(r.kind, <<>>)
         \/ r.kind = "data" /\ Ended(line) /\ Sized(text, RestAfter(r))
         \/ r.kind = "data" /\ ~Ended(line) /\ Len(line) > MaxLine /\ Return("large", <<>>)
         \/ r.kind = "data" /\ ~Ended(line) /\ Len(line) <= MaxLine
            /\ GoOn("line", line, RestAfter(r), body, 0)
  BY <1>6 DEF Ended
<1>8. /\ r.kind \in {"data", "eof", "reset", "timeout"}
      /\ r.kind = "data" => /\ p + 1 <= Len(w) /\ r.bytes = Slice(w, p, p + 1)
                            /\ Buffered(w, p + 1, at', RestAfter(r))
      /\ r.kind # "data" => p = at /\ at' = at /\ Buffered(w, p, at', RestAfter(r))
      /\ r.kind = "eof" => p = Len(w)
  BY <1>4, <1>5, <1>7, ByteTakes
<1>9. at' \in 0..Len(w)
  BY <1>8 DEF Buffered
<1> HIDE DEF w, m, line, text
<1>10. CASE r.kind # "data"
  <2>1. Return(r.kind, <<>>) /\ r.kind \in Results \ {"ok"}
    BY <1>7, <1>8, <1>10 DEF Results
  <2>2. r.kind = "eof" => m.kind = "cut"
    BY <1>2, <1>3, <1>4, <1>8, LineCut
  <2>3. Deserved(r.kind, reply)
    BY <1>8, <1>10, <2>2 DEF Deserved, m
  <2> QED BY <1>2, <1>9, <2>1, <2>3, ReturnedEmpty DEF w
<1>11. ASSUME r.kind = "data"
       PROVE  /\ p + 1 <= Len(w) /\ line = buf \o Slice(w, p, p + 1) /\ line \in Seq(Bytes)
              /\ Buffered(w, p + 1, at', RestAfter(r)) /\ p + 1 \in Nat
  <2>1. p + 1 <= Len(w) /\ line = buf \o Slice(w, p, p + 1) /\ p + 1 \in Nat
        /\ Buffered(w, p + 1, at', RestAfter(r))
    BY <1>8, <1>11 DEF line
  <2> DEFINE q == p + 1
  <2>2. p <= q /\ q <= Len(w) /\ q \in Nat
    BY <2>1
  <2> HIDE DEF q
  <2>3. Slice(w, p, q) \in Seq(Bytes)
    BY <1>4, <2>2, SliceLen
  <2>4. buf \in Seq(Bytes)
    BY <1>2 DEF DataInv
  <2>5. buf \o Slice(w, p, q) \in Seq(Bytes)
    BY <2>3, <2>4, ConcatProperties
  <2> QED BY <2>1, <2>5 DEF q
<1>12. CASE r.kind = "data" /\ ~Ended(line)
  <2>1. /\ Len(line) <= MaxLine => InLine(w, m, p + 1, line, body)
        /\ Len(line) > MaxLine => m.kind = "large"
    BY <1>2, <1>3, <1>4, <1>11, <1>12, LineGoesOn
  <2>2. CASE Len(line) <= MaxLine /\ GoOn("line", line, RestAfter(r), body, 0)
    <3>1. Stands("line", w, m, at', p + 1, line, body, 0)
      BY <2>1, <2>2 DEF Stands
    <3> QED BY <1>2, <1>11, <1>12, <2>2, <3>1, WentOn DEF w, m
  <2>3. CASE Len(line) > MaxLine /\ Return("large", <<>>)
    <3>1. Deserved("large", reply) /\ "large" \in Results \ {"ok"}
      BY <2>1, <2>3 DEF Deserved, m, Results
    <3> QED BY <1>2, <1>9, <2>3, <3>1, ReturnedEmpty DEF w
  <2> QED BY <1>7, <1>12, <2>2, <2>3
<1>13. CASE r.kind = "data" /\ Ended(line)
  <2>1. Sized(text, RestAfter(r))
    BY <1>7, <1>13
  <2> DEFINE size == ChunkSize(text)
  <2>2. /\ ~ValidSize(text) => m.kind = "malformed"
        /\ ValidSize(text) =>
              /\ size \in Nat
              /\ size = 0 => InTrailer(m, 2, body)
              /\ size # 0 =>
                   IF size > MaxChunk \/ Len(body) + size > MaxBody
                   THEN m.kind = "large"
                   ELSE InData(w, m, p + 1, <<>>, size, body)
    <3> text = SubSeq(line, 1, Len(line) - 2)
      BY DEF text
    <3> QED BY <1>2, <1>3, <1>4, <1>11, <1>13, LineEndsThere
  <2>3. /\ \/ ~ValidSize(text) /\ Return("malformed", <<>>)
           \/ ValidSize(text) /\ size = 0 /\ GoOn("trailer", <<>>, RestAfter(r), body, 2)
           \/ ValidSize(text) /\ size # 0 /\ ~ChunkFits(size) /\ Return("large", <<>>)
           \/ ValidSize(text) /\ size # 0 /\ ChunkFits(size)
              /\ GoOn("data", <<>>, RestAfter(r), body, size)
    BY <2>1 DEF Sized
  <2> HIDE DEF size
  <2>4. /\ <<>> \in Seq(Bytes) /\ Len(body) \in Nat /\ MaxBody \in Nat /\ MaxChunk \in Nat
        /\ Buffered(w, p + 1, at', RestAfter(r)) /\ p + 1 \in Nat
    BY <1>2, <1>11, <1>13, EmptySeq, HttpAssumption
  <2>5. CASE ~ValidSize(text) /\ Return("malformed", <<>>)
    <3>1. Deserved("malformed", reply) /\ "malformed" \in Results \ {"ok"}
      BY <2>2, <2>5 DEF Deserved, m, Results
    <3> QED BY <1>2, <1>9, <2>5, <3>1, ReturnedEmpty DEF w
  <2>6. CASE ValidSize(text) /\ size = 0 /\ GoOn("trailer", <<>>, RestAfter(r), body, 2)
    <3>1. Stands("trailer", w, m, at', p + 1, <<>>, body, 2)
      BY <2>2, <2>6 DEF Stands
    <3> QED BY <1>2, <2>4, <2>6, <3>1, WentOn DEF w, m
  <2>7. CASE ValidSize(text) /\ size # 0 /\ ~ChunkFits(size) /\ Return("large", <<>>)
    <3>1. size > MaxChunk \/ Len(body) + size > MaxBody
      BY <2>2, <2>4, <2>7 DEF ChunkFits
    <3>2. Deserved("large", reply) /\ "large" \in Results \ {"ok"}
      BY <2>2, <2>7, <3>1 DEF Deserved, m, Results
    <3> QED BY <1>2, <1>9, <2>7, <3>2, ReturnedEmpty DEF w
  <2>8. CASE ValidSize(text) /\ size # 0 /\ ChunkFits(size)
             /\ GoOn("data", <<>>, RestAfter(r), body, size)
    <3>1. ~(size > MaxChunk \/ Len(body) + size > MaxBody)
      BY <2>2, <2>4, <2>8 DEF ChunkFits
    <3>2. InData(w, m, p + 1, <<>>, size, body)
      BY <2>2, <2>8, <3>1
    <3>3. Stands("data", w, m, at', p + 1, <<>>, body, size)
      BY <3>2 DEF Stands
    <3> QED BY <1>2, <2>4, <2>8, <3>3, WentOn DEF w, m
  <2> QED BY <2>3, <2>5, <2>6, <2>7, <2>8
<1> QED BY <1>10, <1>12, <1>13

\* ReadChunk.
LEMMA ChunkDecodes == ASSUME DecodeInv, ReadChunk PROVE DecodeInv'
<1> DEFINE w == reply.wire
           m == MeaningOf(reply)
<1>1. PICK p \in Nat : Reached(p)
  BY DEF DecodeInv
<1>2. /\ phase = "data" /\ DataInv /\ VerdictInv /\ body \in Seq(Bytes) /\ Len(body) \in 0..MaxBody
      /\ Len(body) <= MaxBody /\ buf \in Seq(Bytes)
  BY LenProperties DEF ReadChunk, DecodeInv, DataInv
<1>3. InData(w, m, p, buf, need, body)
  BY <1>1, <1>2 DEF Reached, Stands
<1>4. w \in Seq(Bytes) /\ Len(w) \in Nat
  BY <1>2, WireType
<1>5. Buffered(w, p, at, rest)
  BY <1>1 DEF Reached
<1>6. need \in Nat \ {0}
  BY <1>3 DEF InData
<1>7. PICK r \in Reads(need) :
        /\ Take(r)
        /\ \/ r.kind # "data" /\ Return(r.kind, <<>>)
           \/ r.kind = "data" /\ need - Len(r.bytes) # 0
              /\ GoOn("data", buf \o r.bytes, RestAfter(r), body, need - Len(r.bytes))
           \/ r.kind = "data" /\ need - Len(r.bytes) = 0
              /\ GoOn("crlf", <<>>, RestAfter(r), body \o (buf \o r.bytes), 2)
  BY DEF ReadChunk
<1>8. /\ r.kind \in {"data", "eof", "reset", "timeout"}
      /\ r.kind = "data" =>
           \E n \in 1..need : /\ p + n <= Len(w) /\ r.bytes = Slice(w, p, p + n)
                              /\ Len(r.bytes) = n /\ Buffered(w, p + n, at', RestAfter(r))
                              /\ rest = <<>> => p + n = at'
      /\ r.kind # "data" =>
           p = at /\ at' = at /\ Buffered(w, p, at', RestAfter(r)) /\ r.bytes = <<>>
      /\ r.kind = "eof" => p = Len(w)
  BY <1>4, <1>5, <1>6, <1>7, ReadTakes
<1>9. at' \in 0..Len(w)
  BY <1>8 DEF Buffered
<1> HIDE DEF w, m
<1>10. CASE r.kind # "data"
  <2>1. Return(r.kind, <<>>) /\ r.kind \in Results \ {"ok"}
    BY <1>7, <1>8, <1>10 DEF Results
  <2>2. r.kind = "eof" => m.kind = "cut"
    BY <1>3, <1>4, <1>8, DataCut
  <2>3. Deserved(r.kind, reply)
    BY <1>8, <1>10, <2>2 DEF Deserved, m
  <2> QED BY <1>2, <1>9, <2>1, <2>3, ReturnedEmpty DEF w
<1>11. CASE r.kind = "data"
  <2>1. PICK n \in 1..need : /\ p + n <= Len(w) /\ r.bytes = Slice(w, p, p + n)
                             /\ Len(r.bytes) = n /\ Buffered(w, p + n, at', RestAfter(r))
    BY <1>8, <1>11
  <2> DEFINE chunk == buf \o r.bytes
             q == p + n
             l == need - n
  <2>2. n \in Nat /\ n <= need /\ q \in Nat /\ (l # 0 => n < need) /\ (l = 0 => n = need)
    BY <1>6
  <2>3. chunk = buf \o Slice(w, p, p + n) /\ p + n <= Len(w)
    BY <2>1
  <2>4. Buffered(w, q, at', RestAfter(r))
    BY <2>1
  <2>5. chunk \in Seq(Bytes)
    <3>0. p <= q /\ q <= Len(w)
      BY <2>1, <2>2
    <3> HIDE DEF q
    <3>1. Slice(w, p, q) \in Seq(Bytes)
      BY <1>4, <2>2, <3>0, SliceLen
    <3>2. r.bytes \in Seq(Bytes)
      BY <2>1, <3>1 DEF q
    <3> QED BY <1>2, <3>2, ConcatProperties
  <2>6. CASE l # 0
    <3>1. GoOn("data", chunk, RestAfter(r), body, l)
      BY <1>7, <1>11, <2>1, <2>6
    <3>2. InData(w, m, p + n, chunk, need - n, body)
      <4>1. n < need /\ Len(body) \in Nat
        BY <1>2, <2>2, <2>6
      <4> HIDE DEF chunk, q, l
      <4> QED BY <1>3, <1>4, <2>2, <2>3, <4>1, DataGoesOn
    <3>3. InData(w, m, q, chunk, l, body)
      BY <3>2
    <3> HIDE DEF chunk, q, l
    <3>4. Stands("data", w, m, at', q, chunk, body, l)
      BY <3>3 DEF Stands
    <3> QED BY <1>2, <2>2, <2>4, <2>5, <3>1, <3>4, WentOn DEF w, m
  <2>7. CASE l = 0
    <3>1. GoOn("crlf", <<>>, RestAfter(r), body \o chunk, 2) /\ <<>> \in Seq(Bytes)
      BY <1>7, <1>11, <2>1, <2>7, EmptySeq
    <3>2. InCrlf(w, m, p + n, <<>>, 2, body \o chunk) /\ Len(body \o chunk) \in 0..MaxBody
      <4>1. InData(w, m, p, buf, n, body)
        BY <1>3, <2>2, <2>7
      <4> HIDE DEF chunk, q, l
      <4> QED BY <1>2, <1>4, <2>2, <2>3, <4>1, DataEnds
    <3> DEFINE e == body \o chunk
    <3>3. e \in Seq(Bytes) /\ Len(e) <= MaxBody
      <4>1. e \in Seq(Bytes)
        BY <1>2, <2>5, ConcatProperties
      <4> HIDE DEF chunk
      <4> QED BY <3>2, <4>1, HttpAssumption
    <3>4. InCrlf(w, m, q, <<>>, 2, e)
      BY <3>2
    <3> HIDE DEF e, q, l, chunk
    <3>5. Stands("crlf", w, m, at', q, <<>>, e, 2)
      BY <3>4 DEF Stands
    <3>6. GoOn("crlf", <<>>, RestAfter(r), e, 2)
      BY <3>1 DEF e
    <3> QED BY <1>2, <2>2, <2>4, <3>1, <3>3, <3>5, <3>6, WentOn DEF w, m
  <2> QED BY <2>6, <2>7
<1> QED BY <1>10, <1>11

\* ReadCrlf.
LEMMA CrlfDecodes == ASSUME DecodeInv, ReadCrlf PROVE DecodeInv'
<1> DEFINE w == reply.wire
           m == MeaningOf(reply)
<1>1. PICK p \in Nat : Reached(p)
  BY DEF DecodeInv
<1>2. /\ phase = "crlf" /\ DataInv /\ VerdictInv /\ body \in Seq(Bytes) /\ Len(body) \in 0..MaxBody
      /\ Len(body) <= MaxBody /\ buf \in Seq(Bytes)
  BY LenProperties DEF ReadCrlf, DecodeInv, DataInv
<1>3. InCrlf(w, m, p, buf, need, body)
  BY <1>1, <1>2 DEF Reached, Stands
<1>4. w \in Seq(Bytes) /\ Len(w) \in Nat
  BY <1>2, WireType
<1>5. Buffered(w, p, at, rest)
  BY <1>1 DEF Reached
<1>6. need \in Nat \ {0}
  BY <1>3 DEF InCrlf
<1>7. PICK r \in Reads(need) :
        /\ Take(r)
        /\ \/ r.kind # "data" /\ Return(r.kind, <<>>)
           \/ r.kind = "data" /\ need - Len(r.bytes) # 0
              /\ GoOn("crlf", buf \o r.bytes, RestAfter(r), body, need - Len(r.bytes))
           \/ r.kind = "data" /\ need - Len(r.bytes) = 0 /\ (buf \o r.bytes) # <<CR, LF>>
              /\ Return("malformed", <<>>)
           \/ r.kind = "data" /\ need - Len(r.bytes) = 0 /\ (buf \o r.bytes) = <<CR, LF>>
              /\ GoOn("line", <<>>, RestAfter(r), body, 0)
  BY DEF ReadCrlf
<1>8. /\ r.kind \in {"data", "eof", "reset", "timeout"}
      /\ r.kind = "data" =>
           \E n \in 1..need : /\ p + n <= Len(w) /\ r.bytes = Slice(w, p, p + n)
                              /\ Len(r.bytes) = n /\ Buffered(w, p + n, at', RestAfter(r))
                              /\ rest = <<>> => p + n = at'
      /\ r.kind # "data" =>
           p = at /\ at' = at /\ Buffered(w, p, at', RestAfter(r)) /\ r.bytes = <<>>
      /\ r.kind = "eof" => p = Len(w)
  BY <1>4, <1>5, <1>6, <1>7, ReadTakes
<1>9. at' \in 0..Len(w)
  BY <1>8 DEF Buffered
<1> HIDE DEF w, m
<1>10. CASE r.kind # "data"
  <2>1. Return(r.kind, <<>>) /\ r.kind \in Results \ {"ok"}
    BY <1>7, <1>8, <1>10 DEF Results
  <2>2. r.kind = "eof" => m.kind = "cut"
    BY <1>3, <1>4, <1>8, CrlfCut
  <2>3. Deserved(r.kind, reply)
    BY <1>8, <1>10, <2>2 DEF Deserved, m
  <2> QED BY <1>2, <1>9, <2>1, <2>3, ReturnedEmpty DEF w
<1>11. CASE r.kind = "data"
  <2>1. PICK n \in 1..need : /\ p + n <= Len(w) /\ r.bytes = Slice(w, p, p + n)
                             /\ Len(r.bytes) = n /\ Buffered(w, p + n, at', RestAfter(r))
    BY <1>8, <1>11
  <2> DEFINE crlf == buf \o r.bytes
             q == p + n
             l == need - n
  <2>2. n \in Nat /\ n <= need /\ q \in Nat /\ (l # 0 => n < need) /\ (l = 0 => n = need)
    BY <1>6
  <2>3. crlf = buf \o Slice(w, p, p + n) /\ p + n <= Len(w)
    BY <2>1
  <2>4. Buffered(w, q, at', RestAfter(r))
    BY <2>1
  <2>5. crlf \in Seq(Bytes)
    <3>0. p <= q /\ q <= Len(w)
      BY <2>1, <2>2
    <3> HIDE DEF q
    <3>1. Slice(w, p, q) \in Seq(Bytes)
      BY <1>4, <2>2, <3>0, SliceLen
    <3>2. r.bytes \in Seq(Bytes)
      BY <2>1, <3>1 DEF q
    <3> QED BY <1>2, <3>2, ConcatProperties
  <2>6. CASE l # 0
    <3>1. GoOn("crlf", crlf, RestAfter(r), body, l)
      BY <1>7, <1>11, <2>1, <2>6
    <3>2. InCrlf(w, m, p + n, crlf, need - n, body)
      <4>1. n < need
        BY <2>2, <2>6
      <4> HIDE DEF crlf, q, l
      <4> QED BY <1>3, <1>4, <2>2, <2>3, <4>1, CrlfGoesOn
    <3>3. InCrlf(w, m, q, crlf, l, body)
      BY <3>2
    <3> HIDE DEF crlf, q, l
    <3>4. Stands("crlf", w, m, at', q, crlf, body, l)
      BY <3>3 DEF Stands
    <3> QED BY <1>2, <2>2, <2>4, <2>5, <3>1, <3>4, WentOn DEF w, m
  <2>7. CASE l = 0
    <3>0. /\ ~IsCrlf(crlf) => m.kind = "malformed"
          /\ IsCrlf(crlf) => InLine(w, m, p + n, <<>>, body)
      <4>1. InCrlf(w, m, p, buf, n, body)
        BY <1>3, <2>2, <2>7
      <4>2. body \in Seq(Bytes) /\ Len(body) \in 0..MaxBody /\ n \in Nat
        BY <1>2, <2>2
      <4> HIDE DEF crlf, q, l
      <4> QED BY <1>4, <2>3, <4>1, <4>2, CrlfEnds
    <3>1. /\ crlf # <<CR, LF>> => m.kind = "malformed"
          /\ crlf = <<CR, LF>> => InLine(w, m, p + n, <<>>, body)
      BY <3>0 DEF IsCrlf
    <3>2. CASE crlf # <<CR, LF>>
      <4>1. Return("malformed", <<>>) /\ "malformed" \in Results \ {"ok"}
        BY <1>7, <1>11, <2>1, <2>7, <3>2 DEF Results
      <4>2. Deserved("malformed", reply)
        BY <3>1, <3>2 DEF Deserved, m
      <4> QED BY <1>2, <1>9, <4>1, <4>2, ReturnedEmpty DEF w
    <3>3. CASE crlf = <<CR, LF>>
      <4>1. GoOn("line", <<>>, RestAfter(r), body, 0) /\ <<>> \in Seq(Bytes)
        BY <1>7, <1>11, <2>1, <2>7, <3>3, EmptySeq
      <4>2. InLine(w, m, q, <<>>, body)
        BY <3>1, <3>3
      <4> HIDE DEF crlf, q, l
      <4>3. Stands("line", w, m, at', q, <<>>, body, 0)
        BY <4>2 DEF Stands
      <4> QED BY <1>2, <2>2, <2>4, <4>1, <4>3, WentOn DEF w, m
    <3> QED BY <3>2, <3>3
  <2> QED BY <2>6, <2>7
<1> QED BY <1>10, <1>11

\* HeadEnds: each kind of body begins with what came behind the head.
LEMMA HeadCompletes ==
  ASSUME DataInv, VerdictInv, phase = "head", rest = <<>>, body = <<>>, need = 0,
         NEW w, w = reply.wire, NEW m, m = MeaningOf(reply),
         NEW f, f = memchr_crlf_crlf(w), NEW q \in 0..Len(w), f \in 1..q, f <= MaxHead,
         q - f < MaxBody, at' = q,
         NEW x, x = Slice(w, f, q),
         \/ ~parse_status_line(reply.status) /\ Return("malformed", <<>>)
         \/ parse_status_line(reply.status) /\ StartBody(reply.headers, x)
  PROVE  DecodeInv'
<1>1. w \in Seq(Bytes) /\ Len(w) \in Nat /\ reply \in Reply
  BY WireType
<1>2. /\ f \in Nat /\ f # 0 /\ q \in Nat /\ f <= q /\ q <= Len(w) /\ f \in 0..q /\ f \in 0..Len(w)
      /\ q - f \in 0..MaxBody /\ q - f <= MaxBody /\ MaxBody \in Nat
  BY <1>1, HttpAssumption
<1>3. x \in Seq(Bytes) /\ Len(x) <= MaxBody /\ Len(x) \in Nat
  <2>1. Slice(w, f, q) \in Seq(Bytes) /\ Len(Slice(w, f, q)) = q - f
    BY <1>1, <1>2, SliceLen
  <2> QED BY <2>1, <1>2
<1>4. Buffered(w, f, at', x) /\ Buffered(w, q, at', <<>>)
  <2>1. Buffered(w, q, q, <<>>)
    BY <1>1, NothingBuffered
  <2> QED BY <2>1, <1>2 DEF Buffered
<1>5. <<>> \in Seq(Bytes) /\ Len(<<>>) <= MaxBody
  BY <1>2, EmptySeq
<1> DEFINE hs == reply.headers
           len == header_lookup(hs, "content-length")
<1>6. CASE ~parse_status_line(reply.status) /\ Return("malformed", <<>>)
  <2>1. m.kind = "malformed"
    BY <1>1, <1>2, <1>6, StatusBad
  <2>2. Deserved("malformed", reply) /\ "malformed" \in Results \ {"ok"}
    BY <2>1 DEF Deserved, Results
  <2> QED BY <1>6, <2>2, ReturnedEmpty
<1>7. CASE parse_status_line(reply.status) /\ HasHeader(hs, "content-length")
           /\ LengthBody(len, x)
  <2>1. /\ len < 0 => m.kind = "malformed"
        /\ len > MaxBody => m.kind = "large"
        /\ len \in 0..MaxBody /\ len <= Len(x) => Accepted(reply, q, x)
        /\ len \in 0..MaxBody /\ len > Len(x) =>
              InLength(w, m, q, x, len - Len(x)) /\ len - Len(x) \in Nat
    BY <1>1, <1>2, <1>7, LengthStarts
  <2>2. \/ len < 0 /\ Return("malformed", <<>>)
        \/ len > MaxBody /\ Return("large", <<>>)
        \/ len \in 0..MaxBody /\ len <= Len(x) /\ Return("ok", x)
        \/ len \in 0..MaxBody /\ len > Len(x) /\ GoOn("length", <<>>, <<>>, x, len - Len(x))
    BY <1>7 DEF LengthBody
  <2> DEFINE n == len - Len(x)
  <2> HIDE DEF len
  <2>3. CASE len < 0 /\ Return("malformed", <<>>)
    <3>1. Deserved("malformed", reply) /\ "malformed" \in Results \ {"ok"}
      BY <2>1, <2>3 DEF Deserved, Results
    <3> QED BY <2>3, <3>1, ReturnedEmpty
  <2>4. CASE len > MaxBody /\ Return("large", <<>>)
    <3>1. Deserved("large", reply) /\ "large" \in Results \ {"ok"}
      BY <2>1, <2>4 DEF Deserved, Results
    <3> QED BY <2>4, <3>1, ReturnedEmpty
  <2>5. CASE len \in 0..MaxBody /\ len <= Len(x) /\ Return("ok", x)
    <3>1. Accepted(reply, at', x) /\ Deserved("ok", reply) /\ "ok" \in Results
      BY <2>1, <2>5 DEF Deserved, Results
    <3> QED BY <1>3, <2>5, <3>1, Returned
  <2>6. CASE len \in 0..MaxBody /\ len > Len(x) /\ GoOn("length", <<>>, <<>>, x, n)
    <3>1. InLength(w, m, q, x, n)
      BY <2>1, <2>6
    <3> HIDE DEF n
    <3>2. Stands("length", w, m, at', q, <<>>, x, n)
      BY <3>1 DEF Stands
    <3> QED BY <1>2, <1>3, <1>4, <1>5, <2>6, <3>2, WentOn
  <2> QED BY <2>2, <2>3, <2>4, <2>5, <2>6
<1>8. CASE parse_status_line(reply.status) /\ ~HasHeader(hs, "content-length")
           /\ Chunked(hs) /\ GoOn("line", <<>>, x, <<>>, 0)
  <2>1. InLine(w, m, f, <<>>, <<>>)
    BY <1>1, <1>2, <1>8, ChunksStart
  <2>2. Stands("line", w, m, at', f, <<>>, <<>>, 0)
    BY <2>1 DEF Stands
  <2> QED BY <1>2, <1>4, <1>5, <1>8, <2>2, WentOn
<1>9. CASE parse_status_line(reply.status) /\ ~HasHeader(hs, "content-length")
           /\ ~Chunked(hs) /\ GoOn("eof", <<>>, <<>>, x, 0)
  <2>1. InEof(w, m, q, x)
    BY <1>1, <1>2, <1>9, EofStarts
  <2>2. Stands("eof", w, m, at', q, <<>>, x, 0)
    BY <2>1 DEF Stands
  <2> QED BY <1>2, <1>3, <1>4, <1>5, <1>9, <2>2, WentOn
<1> QED BY <1>6, <1>7, <1>8, <1>9 DEF StartBody

\* ReadHead.
LEMMA HeadDecodes == ASSUME DecodeInv, ReadHead PROVE DecodeInv'
<1> DEFINE w == reply.wire
           m == MeaningOf(reply)
<1>1. PICK p \in Nat : Reached(p)
  BY DEF DecodeInv
<1>2. phase = "head" /\ DataInv /\ VerdictInv /\ buf \in Seq(Bytes)
  BY DEF ReadHead, DecodeInv, DataInv
<1>3. body = <<>> /\ need = 0 /\ p = at /\ InHead(w, p, buf)
  BY <1>1, <1>2 DEF Reached, Stands
<1>4. w \in Seq(Bytes) /\ Len(w) \in Nat /\ reply \in Reply
  BY <1>2, WireType
<1>5. Buffered(w, p, at, rest)
  BY <1>1 DEF Reached
<1>6. rest = <<>>
  BY <1>3, <1>4, <1>5, SliceEmpty DEF Buffered
<1>7. ReadSize \in Nat \ {0}
  BY HttpAssumption
<1>8. PICK r \in Reads(ReadSize) :
        LET b == buf \o r.bytes
            e == memchr_crlf_crlf(b)
        IN /\ Take(r)
           /\ \/ r.kind # "data" /\ HeadFails(r.kind)
              \/ r.kind = "data" /\ Len(b) > MaxHead /\ HeadFails("large")
              \/ r.kind = "data" /\ Len(b) <= MaxHead /\ e = 0 /\ GoOn("head", b, <<>>, <<>>, 0)
              \/ r.kind = "data" /\ Len(b) <= MaxHead /\ e # 0 /\ HeadEnds(b, e)
  BY DEF ReadHead
<1> DEFINE b == buf \o r.bytes
           e == memchr_crlf_crlf(b)
<1>9. /\ Take(r)
      /\ \/ r.kind # "data" /\ HeadFails(r.kind)
         \/ r.kind = "data" /\ Len(b) > MaxHead /\ HeadFails("large")
         \/ r.kind = "data" /\ Len(b) <= MaxHead /\ e = 0 /\ GoOn("head", b, <<>>, <<>>, 0)
         \/ r.kind = "data" /\ Len(b) <= MaxHead /\ e # 0 /\ HeadEnds(b, e)
  BY <1>8
<1>10. /\ r.kind \in {"data", "eof", "reset", "timeout"}
       /\ r.kind = "data" =>
            \E n \in 1..ReadSize : /\ p + n <= Len(w) /\ r.bytes = Slice(w, p, p + n)
                                   /\ Len(r.bytes) = n /\ Buffered(w, p + n, at', RestAfter(r))
                                   /\ rest = <<>> => p + n = at'
       /\ r.kind # "data" =>
            p = at /\ at' = at /\ Buffered(w, p, at', RestAfter(r)) /\ r.bytes = <<>>
       /\ r.kind = "eof" => p = Len(w)
  BY <1>4, <1>5, <1>7, <1>9, ReadTakes
<1>11. at' \in 0..Len(w) /\ at \in 0..Len(w)
  BY <1>5, <1>10 DEF Buffered
<1> HIDE DEF b, e
<1>12. CASE r.kind # "data"
  <2>1. HeadFails(r.kind) /\ r.kind \in {"large", "eof", "reset", "timeout"}
    BY <1>9, <1>10, <1>12
  <2>2. r.kind = "eof" => m.kind = "cut"
    BY <1>3, <1>4, <1>10, HeadCut
  <2>3. Deserved(r.kind, reply)
    BY <1>10, <1>12, <2>2 DEF Deserved
  <2> QED BY <1>2, <1>3, <1>6, <1>11, <2>1, <2>3, HeadFailed
<1> HIDE DEF w, m
<1>13. CASE r.kind = "data"
  <2>1. PICK n \in 1..ReadSize : /\ p + n <= Len(w) /\ r.bytes = Slice(w, p, p + n)
                                 /\ Len(r.bytes) = n /\ p + n = at'
    BY <1>6, <1>10, <1>13
  <2> DEFINE q == p + n
             f == memchr_crlf_crlf(w)
  <2>2. b = buf \o Slice(w, p, p + n) /\ p \in 0..Len(w)
    BY <1>3, <1>11, <2>1 DEF b
  <2>3. /\ Len(b) = p + n /\ b = Slice(w, 0, p + n)
        /\ Len(b) > MaxHead => MeaningOf(reply).kind = "large" \/ HeadEdge(reply)
        /\ Len(b) <= MaxHead /\ memchr_crlf_crlf(b) = 0 => InHead(w, p + n, b)
        /\ Len(b) <= MaxHead /\ memchr_crlf_crlf(b) # 0 =>
             /\ memchr_crlf_crlf(b) = f /\ f \in 1..(p + n) /\ f <= MaxHead
             /\ p + n - f < MaxBody
             /\ SubSeq(b, f + 1, Len(b)) = Slice(w, f, p + n)
    <3>1. w = reply.wire /\ InHead(w, p, buf) /\ p + n <= Len(w) /\ reply \in Reply
      BY <1>3, <1>4, <2>1 DEF w
    <3>2. HeadRead(reply, w, p + n, b)
      BY <3>1, <2>2, HeadStep
    <3> QED BY <3>2 DEF HeadRead
  <2>4. q \in Nat /\ at' = q /\ q \in 0..Len(w)
    BY <1>4, <1>7, <2>1
  <2>5. CASE Len(b) > MaxHead /\ HeadFails("large")
    <3>1. Deserved("large", reply)
      BY <2>3, <2>5 DEF Deserved
    <3> QED BY <1>2, <1>3, <1>6, <1>11, <2>5, <3>1, HeadFailed DEF w
  <2>6. CASE Len(b) <= MaxHead /\ e = 0 /\ GoOn("head", b, <<>>, <<>>, 0)
    <3>1. InHead(w, q, b)
      BY <2>3, <2>6 DEF e
    <3>2. b \in Seq(Bytes) /\ <<>> \in Seq(Bytes) /\ Len(<<>>) <= MaxBody
      <4>1. p <= q /\ q <= Len(w)
        BY <2>1
      <4> HIDE DEF q
      <4>2. Slice(w, p, q) \in Seq(Bytes)
        BY <1>4, <2>4, <4>1, SliceLen
      <4>3. r.bytes \in Seq(Bytes)
        BY <2>1, <4>2 DEF q
      <4> QED BY <1>2, <4>3, ConcatProperties, EmptySeq, HttpAssumption DEF b
    <3>3. Stands("head", w, m, at', q, b, <<>>, 0)
      BY <2>4, <3>1 DEF Stands
    <3>4. Buffered(w, q, at', <<>>)
      BY <1>4, <2>4, NothingBuffered
    <3> HIDE DEF q
    <3> QED BY <1>2, <2>4, <2>6, <3>2, <3>3, <3>4, WentOn DEF w, m
  <2>7. CASE Len(b) <= MaxHead /\ e # 0 /\ HeadEnds(b, e)
    <3>1. /\ e = f /\ f \in 1..q /\ f <= MaxHead /\ q - f < MaxBody
          /\ SubSeq(b, e + 1, Len(b)) = Slice(w, f, q)
      BY <2>3, <2>7 DEF e
    <3> DEFINE x == Slice(w, f, q)
    <3>2. \/ ~parse_status_line(reply.status) /\ Return("malformed", <<>>)
          \/ parse_status_line(reply.status) /\ StartBody(reply.headers, x)
      BY <2>7, <3>1 DEF HeadEnds
    <3> HIDE DEF q, x
    <3> QED BY <1>2, <1>3, <1>6, <2>4, <3>1, <3>2, HeadCompletes DEF w, m, x
  <2> QED BY <1>9, <1>13, <2>5, <2>6, <2>7
<1> QED BY <1>12, <1>13

(***************************************************************************)
(* The headers of a request                                                *)
(***************************************************************************)
\* The headers that add_default_headers adds.
Defaults == {"content-length", "host", "connection"}

\* Where the request req, made from hs, has got a header of that name.
Added(hs, req, n) == {i \in (Len(hs) + 1)..Len(req) : req[i].name = n}

\* req is hs and, behind it, one header of each name in done that hs did not have; the host that
\* was added is that one.
Framing(hs, req, done, own) ==
  /\ req \in Headers /\ Len(hs) <= Len(req)
  /\ \A i \in 1..Len(hs) : req[i] = hs[i]
  /\ \A n \in Defaults : IF HasHeader(hs, n) \/ n \notin done THEN Added(hs, req, n) = {}
                         ELSE \E i \in Added(hs, req, n) :
                                /\ Added(hs, req, n) = {i}
                                /\ n = "host" => req[i].value = own

\* The caller's list before anything is added.
LEMMA FramingStarts == ASSUME NEW hs \in Headers, NEW own PROVE Framing(hs, hs, {}, own)
<1>1. Len(hs) \in Nat
  BY LenProperties DEF Headers
<1>2. \A n : Added(hs, hs, n) = {}
  BY <1>1 DEF Added
<1> QED BY <1>1, <1>2 DEF Framing

\* One default: a layer that finds the header of another layer adds none.
LEMMA FramingStep ==
  ASSUME NEW hs \in Headers, NEW req, NEW done \in SUBSET Defaults, NEW own,
         Framing(hs, req, done, own),
         NEW n \in Defaults, NEW v \in Int, n = "host" => v = own \/ n \in done
  PROVE  Framing(hs, WithDefault(req, n, v), done \cup {n}, own)
<1> DEFINE H == [name : HeaderNames, value : Int]
           new == Append(req, Header(n, v))
           l == Len(req)
<1>1. /\ hs \in Seq(H) /\ req \in Seq(H) /\ Len(hs) \in Nat /\ l \in Nat /\ Len(hs) <= l
      /\ \A i \in 1..Len(hs) : req[i] = hs[i]
  BY LenProperties DEF Framing, Headers
<1>2. HasHeader(req, n) <=> HasHeader(hs, n) \/ Added(hs, req, n) # {}
  <2>1. \A i \in 1..l : i \in 1..Len(hs) \/ i \in (Len(hs) + 1)..l
    BY <1>1
  <2>2. 1..Len(hs) \subseteq 1..l /\ (Len(hs) + 1)..l \subseteq 1..l
    BY <1>1
  <2> HIDE DEF H
  <2> QED BY <1>1, <2>1, <2>2 DEF HasHeader, Added
<1>3. \A k \in Defaults : IF HasHeader(hs, k) \/ k \notin done THEN Added(hs, req, k) = {}
                          ELSE \E i \in Added(hs, req, k) :
                                 Added(hs, req, k) = {i} /\ (k = "host" => req[i].value = own)
  BY DEF Framing
<1>4. CASE HasHeader(req, n)
  <2>1. WithDefault(req, n, v) = req
    BY <1>4 DEF WithDefault
  <2>2. HasHeader(hs, n) \/ n \in done
    BY <1>2, <1>3, <1>4
  <2>3. \A k \in Defaults : IF HasHeader(hs, k) \/ k \notin done \cup {n}
                            THEN Added(hs, req, k) = {}
                            ELSE \E i \in Added(hs, req, k) :
                                   Added(hs, req, k) = {i} /\ (k = "host" => req[i].value = own)
    BY <1>3, <2>2
  <2> QED BY <2>1, <2>3 DEF Framing
<1>5. CASE ~HasHeader(req, n)
  <2>1. WithDefault(req, n, v) = new
    BY <1>5 DEF WithDefault
  <2>2. Header(n, v) \in H /\ Header(n, v).name = n /\ Header(n, v).value = v
    <3>1. n \in HeaderNames
      BY DEF Defaults, HeaderNames
    <3> QED BY <3>1 DEF Header
  <2>3. /\ new \in Seq(H) /\ Len(new) = l + 1 /\ new[l + 1] = Header(n, v)
        /\ \A i \in 1..l : new[i] = req[i]
    <3> HIDE DEF H
    <3> QED BY <1>1, <2>2, AppendProperties
  <2> HIDE DEF new, l
  <2>4. \A i \in 1..Len(hs) : new[i] = hs[i]
    BY <1>1, <2>3
  <2>5. \A i \in (Len(hs) + 1)..Len(new) :
          \/ i = l + 1 /\ new[i].name = n
          \/ i \in (Len(hs) + 1)..l /\ new[i].name = req[i].name
    BY <1>1, <2>2, <2>3
  <2>6. /\ l + 1 \in (Len(hs) + 1)..Len(new) /\ l + 1 \notin (Len(hs) + 1)..l
        /\ (Len(hs) + 1)..l \subseteq (Len(hs) + 1)..Len(new)
        /\ \A i \in (Len(hs) + 1)..l : i \in 1..l
    BY <1>1, <2>3
  <2>7. \A k : Added(hs, new, k) = IF k = n THEN Added(hs, req, k) \cup {l + 1}
                                          ELSE Added(hs, req, k)
    <3> SUFFICES ASSUME NEW k
                 PROVE  \A i : i \in Added(hs, new, k) <=>
                                 i \in Added(hs, req, k) \/ (k = n /\ i = l + 1)
      OBVIOUS
    <3>1. \A i : i \in Added(hs, new, k) <=> i \in (Len(hs) + 1)..Len(new) /\ new[i].name = k
      BY DEF Added
    <3>2. \A i : i \in Added(hs, req, k) <=> i \in (Len(hs) + 1)..l /\ req[i].name = k
      BY DEF Added, l
    <3>3. new[l + 1].name = n /\ \A i \in (Len(hs) + 1)..l : new[i].name = req[i].name
      BY <2>2, <2>3, <2>6
    <3> QED BY <3>1, <3>2, <3>3, <2>5, <2>6
  <2>8. Added(hs, req, n) = {} /\ ~HasHeader(hs, n)
    BY <1>2, <1>5
  <2>9. ASSUME NEW k \in Defaults
        PROVE  IF HasHeader(hs, k) \/ k \notin done \cup {n}
               THEN Added(hs, new, k) = {}
               ELSE \E i \in Added(hs, new, k) :
                      Added(hs, new, k) = {i} /\ (k = "host" => new[i].value = own)
    <3>1. CASE k = n
      <4>1. n \notin done
        BY <1>3, <2>8
      <4>2. Added(hs, new, n) = {l + 1} /\ (n = "host" => new[l + 1].value = own)
        BY <2>2, <2>3, <2>7, <2>8, <4>1
      <4> QED BY <2>8, <3>1, <4>2
    <3>2. CASE k # n
      <4>1. Added(hs, new, k) = Added(hs, req, k)
        BY <2>7, <3>2
      <4>2. \A i \in Added(hs, req, k) : new[i] = req[i]
        BY <2>3, <2>6 DEF Added, l
      <4> QED BY <1>3, <3>2, <4>1, <4>2
    <3> QED BY <3>1, <3>2
  <2>10. new \in Headers /\ Len(hs) <= Len(new)
    BY <1>1, <2>3 DEF Headers
  <2> QED BY <2>1, <2>4, <2>9, <2>10 DEF Framing
<1> QED BY <1>4, <1>5

\* add_default_headers, also on a list that it has been applied to before.
LEMMA DefaultsAdded ==
  ASSUME NEW hs \in Headers, NEW req, NEW done \in SUBSET Defaults, NEW own,
         Framing(hs, req, done, own),
         NEW size \in Int, NEW host \in Int, host = own \/ "host" \in done
  PROVE  Framing(hs, add_default_headers(req, size, host), Defaults, own)
<1> DEFINE a == WithDefault(req, "content-length", size)
           b == WithDefault(a, "host", host)
           c == WithDefault(b, "connection", 0)
           A == done \cup {"content-length"}
           B == A \cup {"host"}
           C == B \cup {"connection"}
<1>1. /\ "content-length" \in Defaults /\ "host" \in Defaults /\ "connection" \in Defaults
      /\ A \in SUBSET Defaults /\ B \in SUBSET Defaults /\ C = Defaults /\ 0 \in Int
  <2>1. "content-length" \in Defaults /\ "host" \in Defaults /\ "connection" \in Defaults
    BY DEF Defaults
  <2>2. A \in SUBSET Defaults /\ B \in SUBSET Defaults
    BY <2>1
  <2>3. \A x \in Defaults : x \in C
    BY DEF Defaults
  <2>4. C \subseteq Defaults
    BY <2>1
  <2>5. C = Defaults
    <3> HIDE DEF C
    <3> QED BY <2>3, <2>4
  <2> QED BY <2>1, <2>2, <2>5
<1>2. add_default_headers(req, size, host) = c
  BY DEF add_default_headers
<1>3. Framing(hs, a, A, own) /\ (host = own \/ "host" \in A)
  BY <1>1, FramingStep
<1> HIDE DEF a, A
<1>4. Framing(hs, b, B, own)
  BY <1>1, <1>3, FramingStep
<1> HIDE DEF b, B
<1>5. Framing(hs, c, C, own)
  BY <1>1, <1>4, FramingStep
<1> QED BY <1>1, <1>2, <1>5

\* Both ways of building a request: the first layer is the transport's, the second one finds all
\* of the defaults.
LEMMA RequestsFramed ==
  ASSUME NEW hs \in Headers
  PROVE  /\ Framing(hs, uds_build_request(hs, RequestSize), Defaults, UnixHost)
         /\ Framing(hs, pipe_build_request(hs, RequestSize), Defaults, PipeHost)
<1>1. RequestSize \in Int /\ LocalHost \in Int /\ UnixHost \in Int /\ PipeHost \in Int
  BY HttpAssumption DEF LocalHost, UnixHost, PipeHost
<1>2. {} \in SUBSET Defaults /\ Defaults \in SUBSET Defaults /\ "host" \in Defaults
  BY DEF Defaults
<1>3. ASSUME NEW own \in Int
      PROVE  Framing(hs, build_request(add_default_headers(hs, RequestSize, own), RequestSize),
                     Defaults, own)
  <2> DEFINE a == add_default_headers(hs, RequestSize, own)
  <2>1. Framing(hs, hs, {}, own)
    BY FramingStarts
  <2>2. Framing(hs, a, Defaults, own)
    BY <1>1, <1>2, <2>1, DefaultsAdded
  <2> HIDE DEF a
  <2>3. Framing(hs, add_default_headers(a, RequestSize, LocalHost), Defaults, own)
    BY <1>1, <1>2, <2>2, DefaultsAdded
  <2> QED BY <2>3 DEF a, build_request
<1> QED BY <1>1, <1>3 DEF uds_build_request, pipe_build_request

\* Such a request is one that RequestFramed describes.
LEMMA FramedMeans ==
  ASSUME NEW hs \in Headers, NEW req, NEW own, Framing(hs, req, Defaults, own)
  PROVE  /\ IsPrefix(hs, req)
         /\ \A n \in {"content-length", "host", "connection"} :
              LET added == {i \in (Len(hs) + 1)..Len(req) : req[i].name = n}
              IN IF HasHeader(hs, n) THEN added = {}
                 ELSE \E i \in added : added = {i} /\ (n = "host" => req[i].value = own)
<1> DEFINE H == [name : HeaderNames, value : Int]
           l == Len(hs)
<1>1. hs \in Seq(H) /\ req \in Seq(H) /\ l \in Nat /\ l <= Len(req) /\ Len(req) \in Nat
  BY LenProperties DEF Framing, Headers
<1>2. \A i \in 1..l : hs[i] \in H /\ req[i] \in H /\ req[i] = hs[i]
  <2>1. \A i \in 1..l : i \in 1..Len(req)
    BY <1>1
  <2> HIDE DEF H
  <2> QED BY <1>1, <2>1, ElementOfSeq DEF Framing
<1>3. SubSeq(hs, 1, l) = SubSeq(req, 1, l)
  <2> HIDE DEF H
  <2> DEFINE s == SubSeq(hs, 1, l)
             t == SubSeq(req, 1, l)
  <2>1. s \in Seq(H) /\ Len(s) = l /\ \A i \in 1..l : s[i] = hs[i]
    <3> HIDE DEF l
    <3>1. /\ s \in Seq(H) /\ Len(s) = IF 1 <= l THEN l - 1 + 1 ELSE 0
          /\ \A i \in 1..(l - 1 + 1) : s[i] = hs[1 + i - 1]
      BY <1>1, <1>2, SubSeqProperties
    <3> HIDE DEF s
    <3> QED BY <3>1, <1>1
  <2>2. t \in Seq(H) /\ Len(t) = l /\ \A i \in 1..l : t[i] = req[i]
    <3> HIDE DEF l
    <3>1. /\ t \in Seq(H) /\ Len(t) = IF 1 <= l THEN l - 1 + 1 ELSE 0
          /\ \A i \in 1..(l - 1 + 1) : t[i] = req[1 + i - 1]
      BY <1>1, <1>2, SubSeqProperties
    <3> HIDE DEF t
    <3> QED BY <3>1, <1>1
  <2> HIDE DEF s, t, l
  <2>3. \A i \in 1..l : s[i] = t[i]
    BY <1>2, <2>1, <2>2
  <2>4. s = t
    BY <2>1, <2>2, <2>3, SeqEqual
  <2> QED BY <2>4 DEF s, t
<1>4. IsPrefix(hs, req)
  BY <1>1, <1>3 DEF IsPrefix
<1>5. \A n \in {"content-length", "host", "connection"} :
        IF HasHeader(hs, n) THEN Added(hs, req, n) = {}
        ELSE \E i \in Added(hs, req, n) :
               Added(hs, req, n) = {i} /\ (n = "host" => req[i].value = own)
  BY DEF Framing, Defaults
<1> QED BY <1>4, <1>5 DEF Added

(***************************************************************************)
(* The invariants hold, and what follows                                   *)
(***************************************************************************)
\* The inductive invariant of the request.
RequestInv ==
  /\ transport \in Transports /\ unsent \in 0..RequestSize /\ request \in Headers
  /\ phase \in {"open", "write"} =>
       \E hs \in CallerHeaders : Framing(hs, request, Defaults, OwnHost(transport))

\* The reading of the reply, and the end of the call, need no request.
LEMMA RequestOver ==
  ASSUME RequestInv, transport' = transport,
         \/ phase' \notin {"open", "write"} /\ UNCHANGED <<request, unsent>>
         \/ phase' = "idle" /\ request' = <<>> /\ unsent' = 0
  PROVE  RequestInv'
<1>1. <<>> \in Headers
  BY EmptySeq DEF Headers
<1> QED BY <1>1, HttpAssumption DEF RequestInv

\* The steps of a call leave the request as it is until it has been written.
LEMMA RequestStep == ASSUME RequestInv, Step PROVE RequestInv'
<1>1. CASE UdsConnect \/ PipeExpired \/ PipeOpen \/ PipeBusy \/ PipeMissing
  <2>1. \/ /\ phase = "open" /\ phase' \in {"open", "write"}
           /\ UNCHANGED <<transport, request, unsent>>
        \/ phase' = "idle" /\ request' = <<>> /\ unsent' = 0 /\ transport' = transport
    BY <1>1 DEF UdsConnect, PipeExpired, PipeOpen, PipeBusy, PipeMissing, Opened, Fail, FailAfter,
                Return
  <2>2. CASE phase' = "idle" /\ request' = <<>> /\ unsent' = 0 /\ transport' = transport
    BY <2>2, RequestOver
  <2>3. CASE /\ phase = "open" /\ phase' \in {"open", "write"}
             /\ UNCHANGED <<transport, request, unsent>>
    BY <2>3 DEF RequestInv
  <2> QED BY <2>1, <2>2, <2>3
<1>2. CASE UdsWrite \/ PipeWrite
  <2>1. phase = "write"
    BY <1>2 DEF UdsWrite, PipeWrite
  <2>2. \/ \E n \in 1..unsent, ticks \in 0..MaxDelay : Wrote(n, ticks)
        \/ phase' = "idle" /\ request' = <<>> /\ unsent' = 0 /\ transport' = transport
    BY <1>2 DEF UdsWrite, PipeWrite, Fail, FailAfter, Return
  <2>3. CASE \E n \in 1..unsent, ticks \in 0..MaxDelay : Wrote(n, ticks)
    <3>1. PICK n \in 1..unsent, ticks \in 0..MaxDelay : Wrote(n, ticks)
      BY <2>3
    <3>2. unsent \in Nat /\ unsent <= RequestSize /\ RequestSize \in Nat
      BY HttpAssumption DEF RequestInv
    <3>3. unsent' \in 0..RequestSize /\ transport' = transport
      BY <3>1, <3>2 DEF Wrote
    <3>4. CASE unsent = n
      <4>1. phase' = "head" /\ request' = <<>>
        BY <3>1, <3>4 DEF Wrote
      <4>2. <<>> \in Headers
        BY EmptySeq DEF Headers
      <4> QED BY <3>3, <4>1, <4>2 DEF RequestInv
    <3>5. CASE unsent # n
      <4>1. phase' = "write" /\ request' = request
        BY <3>1, <3>5 DEF Wrote
      <4> QED BY <2>1, <3>3, <4>1 DEF RequestInv
    <3> QED BY <3>4, <3>5
  <2>4. CASE phase' = "idle" /\ request' = <<>> /\ unsent' = 0 /\ transport' = transport
    BY <2>4, RequestOver
  <2> QED BY <2>2, <2>3, <2>4
<1>3. CASE ReadHead
  <2>1. /\ transport' = transport
        /\ \/ phase' \notin {"open", "write"} /\ UNCHANGED <<request, unsent>>
           \/ phase' = "idle" /\ request' = <<>> /\ unsent' = 0
    BY <1>3 DEF ReadHead, HeadFails, UdsHeadFails, HeadEnds, StartBody, LengthBody, GoOn, Return
  <2> QED BY <2>1, RequestOver
<1>4. CASE UdsDrain \/ ReadLength \/ ReadEof
  <2>1. /\ transport' = transport
        /\ \/ phase' \notin {"open", "write"} /\ UNCHANGED <<request, unsent>>
           \/ phase' = "idle" /\ request' = <<>> /\ unsent' = 0
    BY <1>4 DEF UdsDrain, ReadLength, ReadEof, GoOn, Return
  <2> QED BY <2>1, RequestOver
<1>5. CASE ReadSizeLine \/ ReadChunk \/ ReadCrlf \/ ReadTrailer
  <2>1. /\ transport' = transport
        /\ \/ phase' \notin {"open", "write"} /\ UNCHANGED <<request, unsent>>
           \/ phase' = "idle" /\ request' = <<>> /\ unsent' = 0
    BY <1>5 DEF ReadSizeLine, Sized, ReadChunk, ReadCrlf, ReadTrailer, GoOn, Return
  <2> QED BY <2>1, RequestOver
<1> QED BY <1>1, <1>2, <1>3, <1>4, <1>5 DEF Step

\* The invariant of the request holds of every state.
LEMMA RequestInductive == Spec => []RequestInv
<1>1. Init => RequestInv
  <2>1. <<>> \in Headers
    BY EmptySeq DEF Headers
  <2> QED BY <2>1, HttpAssumption DEF Init, RequestInv
<1>2. RequestInv /\ [Next]_vars => RequestInv'
  <2> SUFFICES ASSUME RequestInv, [Next]_vars PROVE RequestInv'
    OBVIOUS
  <2>1. CASE Call
    <3>1. PICK hs \in CallerHeaders :
            request' = IF transport = "uds" THEN uds_build_request(hs, RequestSize)
                                            ELSE pipe_build_request(hs, RequestSize)
      BY <2>1 DEF Call
    <3>2. hs \in Headers
      BY MessageAssumption
    <3>3. Framing(hs, request', Defaults, OwnHost(transport))
      BY <3>1, <3>2, RequestsFramed DEF OwnHost
    <3>4. request' \in Headers
      BY <3>3 DEF Framing
    <3>5. transport' = transport /\ unsent' = RequestSize /\ RequestSize \in 0..RequestSize
      BY <2>1, HttpAssumption DEF Call
    <3> QED BY <3>3, <3>4, <3>5 DEF RequestInv
  <2>2. CASE UNCHANGED vars
    BY <2>2 DEF vars, RequestInv
  <2> QED BY <2>1, <2>2, RequestStep DEF Next
<1> QED BY <1>1, <1>2, PTL DEF Spec

\* The invariant of the decoder holds of every state.
LEMMA DecodeInductive == Spec => []DecodeInv
<1>1. Init => DecodeInv
  <2> SUFFICES ASSUME Init PROVE DecodeInv
    OBVIOUS
  <2>1. DataInv
    BY EmptySeq, HttpAssumption DEF Init, DataInv, Results
  <2>2. VerdictInv
    BY DEF Init, VerdictInv, Deserved
  <2>3. 0 \in 0..Len(reply.wire) /\ reply.wire \in Seq(Bytes)
    BY <2>1, WireType
  <2>4. Buffered(reply.wire, 0, 0, <<>>)
    BY <2>3, NothingBuffered
  <2>5. Stands(phase, reply.wire, MeaningOf(reply), at, 0, buf, body, need)
    BY DEF Init, Stands
  <2>6. Reached(0)
    BY <2>4, <2>5 DEF Init, Reached
  <2> QED BY <2>1, <2>2, <2>6 DEF DecodeInv
<1>2. DecodeInv /\ [Next]_vars => DecodeInv'
  <2> SUFFICES ASSUME DecodeInv, [Next]_vars PROVE DecodeInv'
    OBVIOUS
  <2>1. CASE \/ UdsConnect \/ PipeExpired \/ PipeOpen \/ PipeBusy \/ PipeMissing
             \/ UdsWrite \/ PipeWrite
    BY <2>1, RequestDecodes
  <2>2. CASE UNCHANGED vars
    BY <2>2 DEF vars, DecodeInv, DataInv, VerdictInv, Reached
  <2> QED BY <2>1, <2>2, CallDecodes, HeadDecodes, DrainDecodes, LengthDecodes, EofDecodes,
             LineDecodes, ChunkDecodes, CrlfDecodes, TrailerDecodes DEF Next, Step
<1> QED BY <1>1, <1>2, PTL DEF Spec

\* In each place where the reader may stand, what it waits for fits into a body.
LEMMA NeedBounded ==
  ASSUME NEW ph, NEW w, NEW m, NEW a, NEW p \in Nat, NEW b, NEW bd, NEW n, Len(bd) \in Nat,
         Stands(ph, w, m, a, p, b, bd, n)
  PROVE  n \in 0..(MaxBody + 2)
<1>1. MaxBody \in Nat
  BY HttpAssumption
<1>2. CASE n = 0 \/ n \in {1, 2}
  BY <1>1, <1>2
<1>3. CASE InLength(w, m, p, bd, n)
  <2>1. \E f \in 0..p : n \in Nat /\ p - f + n <= MaxBody
    BY <1>3 DEF InLength
  <2> QED BY <1>1, <2>1
<1>4. CASE InData(w, m, p, b, n, bd)
  <2>1. \E s \in 0..p : n \in Nat /\ Len(bd) + (p - s) + n <= MaxBody
    BY <1>4 DEF InData
  <2> QED BY <1>1, <2>1
<1> QED BY <1>2, <1>3, <1>4 DEF Stands, InCrlf, InTrailer

\* The type invariant of a request: the counters, indices and buffers of perform_request and of the
\* decoder stay within their ranges, for every reply and for every way to cut it into reads.
THEOREM HttpTypes == Spec => []TypeOK
<1>1. ASSUME IInv, RequestInv, DecodeInv PROVE TypeOK
  <2>1. PICK p \in Nat : Reached(p)
    BY <1>1 DEF DecodeInv
  <2>2. at \in 0..Len(reply.wire)
    BY <2>1 DEF Reached, Buffered
  <2>3. reply.wire \in Seq(Bytes) /\ Len(body) \in Nat
    BY <1>1, WireType, LenProperties DEF DecodeInv, DataInv
  <2>4. rest \in Seq(Bytes)
    <3>1. /\ p \in Nat /\ at \in Nat /\ p <= at /\ at <= Len(reply.wire)
          /\ rest = Slice(reply.wire, p, at)
      BY <2>1, <2>3, LenProperties DEF Reached, Buffered
    <3> QED BY <2>3, <3>1, SliceLen
  <2>5. need \in 0..(MaxBody + 2)
    BY <2>1, <2>3, NeedBounded DEF Reached
  <2>6. phase \in Phases /\ elapsed \in 0..Horizon /\ timeouts \in Nat
    BY <1>1 DEF IInv, ClockInv, CountInv
  <2>7. /\ reply \in Replies /\ buf \in Seq(Bytes) /\ body \in Seq(Bytes)
        /\ result \in {"none", "ok", "malformed", "large", "timeout", "eof", "reset", "refused"}
    BY <1>1 DEF DecodeInv, DataInv, Results
  <2>8. transport \in Transports /\ request \in Headers /\ unsent \in 0..RequestSize
    BY <1>1 DEF RequestInv
  <2>9. {buf, rest, body} \subseteq Seq(0..255)
    BY <2>4, <2>7 DEF Bytes
  <2> QED BY <2>2, <2>5, <2>6, <2>7, <2>8, <2>9 DEF TypeOK, Phases
<1>2. IInv /\ RequestInv /\ DecodeInv => TypeOK
  BY <1>1
<1> QED BY <1>2, Inductive, RequestInductive, DecodeInductive, PTL

\* read_http_response, read_http_body and read_chunked accept a reply only when it is whole and
\* decode it to what all of its bytes mean, however they were cut into reads; and they call it cut
\* off, malformed or too large only when it is (HeadEdge apart).
THEOREM VerdictAlways == Spec => []Verdict
<1>1. DecodeInv => Decoded
  BY DEF DecodeInv, VerdictInv, Accepted, Decoded
<1>2. DecodeInv => Blamed
  BY DEF DecodeInv, VerdictInv, Deserved, Blamed
<1>3. DecodeInv => Verdict
  BY <1>1, <1>2 DEF Verdict
<1> QED BY <1>3, DecodeInductive, PTL

\* No body that the decoder has built up is longer than MAX_BODY_SIZE, at any time.
THEOREM BodyBoundAlways == Spec => []BodyBound
<1>1. DecodeInv => BodyBound
  BY DEF DecodeInv, DataInv, BodyBound
<1> QED BY <1>1, DecodeInductive, PTL

\* The two layers of build_request, over either transport: the caller's headers are sent as they
\* are, each default that is missing once, and as host the transport's own.
THEOREM RequestFramedAlways == Spec => []RequestFramed
<1>1. ASSUME RequestInv PROVE RequestFramed
  <2> SUFFICES ASSUME phase \in {"open", "write"} PROVE RequestFramed
    BY DEF RequestFramed
  <2>1. PICK hs \in CallerHeaders : Framing(hs, request, Defaults, OwnHost(transport))
    BY <1>1 DEF RequestInv
  <2>2. hs \in Headers
    BY MessageAssumption
  <2> QED BY <2>1, <2>2, FramedMeans DEF RequestFramed
<1>2. RequestInv => RequestFramed
  BY <1>1
<1> QED BY <1>2, RequestInductive, PTL

=============================================================================
