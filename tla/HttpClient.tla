----------------------------- MODULE HttpClient -----------------------------
(***************************************************************************)
(* One HTTP/1.1 request of a proxy caller to the trace-agent: the codec of *)
(* src/src/http.rs over the Unix socket of src/src/uds.rs and over the     *)
(* named pipe of src/src/winpipe.rs (perform_request).                     *)
(*                                                                         *)
(* The peer's reply is a sequence of bytes that arrives cut into reads in  *)
(* every possible way, each read after a delay; behind the last byte the   *)
(* peer closes the connection, stays silent or resets it.  The text of the *)
(* status line and of the headers is abstracted to what is parsed out of   *)
(* it; the bytes that separate head, chunks and body are kept.  Time is    *)
(* counted in ticks.                                                       *)
(***************************************************************************)
EXTENDS Integers, Sequences, SequencesExt

CONSTANTS Transports,   \* {"uds"} on Unix, {"pipe"} on Windows
          Replies,      \* what the peer may send, see Reply
          CallerHeaders,\* the header lists that a caller may pass
          OtherNames,   \* header names that the code does not look for
          RequestSize,  \* pieces that the request is written in (a bound)
          Timeout,      \* PROXY_REQUEST_TIMEOUT in ticks, 50 seconds in the code
          MaxDelay,     \* longest time between two arrivals (a bound)
          Nap,          \* the sleep while the pipe does not exist, 10 ms in the code
          ReadSize,     \* buffer of a head read, 1024 in the code
          BlockSize,    \* buffer of a read up to the end of the stream, 16 KiB in the code
          MaxHead,      \* 1 MiB in the code
          MaxLine,      \* guard on a chunk-size line, 1024 in the code
          MaxChunk,     \* MAX_CHUNK_SIZE
          MaxBody       \* MAX_BODY_SIZE

ASSUME HttpAssumption ==
  /\ Transports \subseteq {"uds", "pipe"}
  /\ Timeout \in Nat \ {0} /\ Nap \in Nat \ {0}
  /\ MaxDelay \in Nat /\ MaxDelay < Timeout
  /\ RequestSize \in Nat \ {0} /\ ReadSize \in Nat \ {0} /\ BlockSize \in Nat \ {0}
  /\ MaxHead \in Nat /\ MaxLine \in Nat /\ MaxChunk \in Nat /\ MaxBody \in Nat
  /\ ReadSize <= MaxBody

\* The bytes that the codec tells apart; values are those of ASCII.
CR == 13
LF == 10
Semicolon == 59

\* A header, its name in lower case; its value is a number, or says whether it names "chunked".
Header(n, v) == [name |-> n, value |-> v]
HeaderNames == OtherNames \cup {"content-length", "transfer-encoding", "host", "connection"}
Headers == Seq([name : HeaderNames, value : Int])

\* A reply: the parsed status and headers, the bytes, and what the peer does behind them.
Reply == [status : Int, headers : Headers, wire : Seq(0..255), end : {"close", "silent", "reset"}]

ASSUME MessageAssumption == Replies \subseteq Reply /\ CallerHeaders \subseteq Headers

VARIABLES
  phase,     \* where the call is
  transport, \* of the platform
  reply,     \* what the peer sends to each request
  request,   \* the headers of the request that is being sent
  unsent,    \* pieces of the request not yet written
  at,        \* bytes of the reply that have been read from the transport
  buf,       \* what the present element (head, size line, chunk, CRLF) has got so far
  rest,      \* RestThen: bytes read with the head and not yet consumed
  body,      \* the decoded body
  need,      \* bytes still to be read for the present element
  elapsed,   \* ticks since the call began, counted up to Horizon
  timeouts,  \* waits of this call that ran into their timeout
  result     \* of the last call: ok, or the kind of its error

vars == <<phase, transport, reply, request, unsent, at, buf, rest, body, need, elapsed,
          timeouts, result>>

\* Past this nothing tells two times apart.
Horizon == Timeout + 2
After(ticks) == IF elapsed + ticks < Horizon THEN elapsed + ticks ELSE Horizon

Init ==
  /\ phase = "idle" /\ result = "none"
  /\ transport \in Transports /\ reply \in Replies
  /\ request = <<>> /\ unsent = 0 /\ at = 0
  /\ buf = <<>> /\ rest = <<>> /\ body = <<>> /\ need = 0
  /\ elapsed = 0 /\ timeouts = 0

\* The decoder goes on in phase p.
GoOn(p, b, r, bd, n) ==
  /\ phase' = p /\ buf' = b /\ rest' = r /\ body' = bd /\ need' = n
  /\ UNCHANGED <<transport, reply, request, unsent, result>>

\* The call ends.
Return(kind, bd) ==
  /\ phase' = "idle" /\ result' = kind /\ body' = bd
  /\ buf' = <<>> /\ rest' = <<>> /\ need' = 0 /\ unsent' = 0 /\ request' = <<>>
  /\ UNCHANGED <<transport, reply>>

(***************************************************************************)
(* The request                                                             *)
(***************************************************************************)
HasHeader(hs, n) == \E i \in 1..Len(hs) : hs[i].name = n

\* add_default_headers: each default unless the list has a header of that name.
WithDefault(hs, n, v) == IF HasHeader(hs, n) THEN hs ELSE Append(hs, Header(n, v))
add_default_headers_Always(hs, size, host) ==
  WithDefault(Append(WithDefault(hs, "content-length", size), Header("host", host)),
              "connection", 0)
add_default_headers(hs, size, host) ==
  WithDefault(WithDefault(WithDefault(hs, "content-length", size), "host", host),
              "connection", 0)

\* The hosts that the callers of add_default_headers name: localhost, unix and pipe.
LocalHost == 1
UnixHost == 2
PipeHost == 3

\* build_request of http.rs, and those of uds.rs and winpipe.rs, which name their own host first.
build_request(hs, size) == add_default_headers(hs, size, LocalHost)
uds_build_request(hs, size) == build_request(add_default_headers(hs, size, UnixHost), size)
pipe_build_request(hs, size) == build_request(add_default_headers(hs, size, PipeHost), size)

\* A proxy call begins.
Call ==
  /\ phase = "idle"
  /\ \E hs \in CallerHeaders :
       request' = IF transport = "uds" THEN uds_build_request(hs, RequestSize)
                                       ELSE pipe_build_request(hs, RequestSize)
  /\ phase' = "open" /\ unsent' = RequestSize /\ result' = "none" /\ body' = <<>>
  /\ at' = 0 /\ elapsed' = 0 /\ timeouts' = 0
  /\ UNCHANGED <<transport, reply, buf, rest, need>>

\* The connection stands.
Opened == /\ phase' = "write"
          /\ UNCHANGED <<transport, reply, request, unsent, at, buf, rest, body, need,
                         elapsed, timeouts, result>>

\* The call fails without a further wait.
Fail(kind) == Return(kind, <<>>) /\ UNCHANGED <<at, elapsed, timeouts>>

\* The call fails after a wait that was in vain.
FailAfter(ticks) ==
  /\ Return("timeout", <<>>)
  /\ elapsed' = After(ticks) /\ timeouts' = timeouts + 1
  /\ UNCHANGED at

\* UnixStream::connect.
UdsConnect == /\ phase = "open" /\ transport = "uds"
              /\ Opened \/ Fail("refused")

(***************************************************************************)
(* open_pipe_handle: the deadline is checked before every attempt.         *)
(***************************************************************************)
Remaining == Timeout - elapsed
Expired == Remaining < 0

\* duration_to_millis: no wait is given as 0 ticks, which would mean the default or none at all.
duration_to_millis(ticks) == IF ticks = 0 THEN 1 ELSE ticks

PipeExpired == /\ phase = "open" /\ transport = "pipe" /\ Expired
               /\ Fail("timeout")

\* CreateFileW succeeds, and SetNamedPipeHandleState may not; or it fails for good.
PipeOpen == /\ phase = "open" /\ transport = "pipe" /\ ~Expired
            /\ Opened \/ Fail("refused")

\* ERROR_PIPE_BUSY: WaitNamedPipeW sees an instance in time, which somebody else may get; or it
\* fails, because the pipe is gone or because the time is over.
PipeBusy ==
  /\ phase = "open" /\ transport = "pipe" /\ ~Expired
  /\ \/ \E ticks \in 1..duration_to_millis(Remaining) :
          elapsed' = After(ticks)
          /\ UNCHANGED <<phase, transport, reply, request, unsent, at, buf, rest, body, need,
                         timeouts, result>>
     \/ Fail("refused")
     \/ FailAfter(duration_to_millis(Remaining))

\* ERROR_FILE_NOT_FOUND: the trace-agent has not created the pipe yet.
PipeMissing ==
  /\ phase = "open" /\ transport = "pipe" /\ ~Expired
  /\ \/ Remaining <= Nap /\ Fail("refused")
     \/ /\ Remaining > Nap /\ elapsed' = After(Nap)
        /\ UNCHANGED <<phase, transport, reply, request, unsent, at, buf, rest, body, need,
                       timeouts, result>>

(***************************************************************************)
(* Writing                                                                 *)
(***************************************************************************)
\* n pieces are taken by the transport; with the last one the wait for the head begins.
Wrote(n, ticks) ==
  /\ unsent' = unsent - n
  /\ phase' = IF unsent = n THEN "head" ELSE "write"
  /\ request' = IF unsent = n THEN <<>> ELSE request
  /\ elapsed' = After(ticks)
  /\ UNCHANGED <<transport, reply, at, buf, rest, body, need, timeouts, result>>

\* write_all of the socket: each write has the whole timeout; the peer may be gone.
UdsWrite ==
  /\ phase = "write" /\ transport = "uds"
  /\ \/ \E n \in 1..unsent, ticks \in 0..MaxDelay : Wrote(n, ticks)
     \/ Fail("reset")
     \/ FailAfter(Timeout)

\* PipeConnection::write_all and write_some: each write has what is left of the deadline.
PipeWrite ==
  /\ phase = "write" /\ transport = "pipe"
  /\ \/ Expired /\ Fail("timeout")
     \/ /\ ~Expired
        /\ \/ \E n \in 1..unsent, ticks \in 0..MaxDelay :
                ticks < duration_to_millis(Remaining) /\ Wrote(n, ticks)
           \/ Fail("reset")
           \/ FailAfter(duration_to_millis(Remaining))

(***************************************************************************)
(* Reading: the outcomes of one read of at most cap bytes                  *)
(***************************************************************************)
Left == Len(reply.wire) - at
Outcome(kind, bytes, ticks) == [kind |-> kind, bytes |-> bytes, ticks |-> ticks]

\* Some of the bytes that are left, after a delay shorter than wait.
Arrivals(cap, wait) ==
  {Outcome("data", SubSeq(reply.wire, at + 1, at + n), ticks) :
     n \in {i \in 1..cap : i <= Left}, ticks \in {d \in 0..MaxDelay : d < wait}}

\* Behind the last byte.
Ending ==
  {Outcome(kind, <<>>, 0) : kind \in {k \in {"eof", "reset"} :
     Left = 0 /\ reply.end = (IF k = "eof" THEN "close" ELSE "reset")}}

\* Nothing comes while the reader waits.
Silence(wait) ==
  {Outcome("timeout", <<>>, ticks) : ticks \in {d \in {wait} :
     d <= MaxDelay \/ (Left = 0 /\ reply.end = "silent")}}

\* SO_RCVTIMEO holds for each read of its own.
UdsReads(cap) == Arrivals(cap, Timeout) \cup Ending \cup Silence(Timeout)

\* read_some and wait_overlapped: a read waits for what is left of the deadline.
PipeReads_Fresh(cap) == Arrivals(cap, Timeout) \cup Ending \cup Silence(Timeout)
PipeReads(cap) ==
  IF Expired THEN {Outcome("timeout", <<>>, 0)}
  ELSE LET wait == duration_to_millis(Remaining)
       IN Arrivals(cap, wait) \cup Ending \cup Silence(wait)

TransportReads(cap) == IF transport = "uds" THEN UdsReads(cap) ELSE PipeReads(cap)

\* RestThen::read: first what came with the head.  (Empty in front of the body and without chunks.)
Reads(cap) ==
  IF rest # <<>>
  THEN {Outcome("data", SubSeq(rest, 1, IF cap < Len(rest) THEN cap ELSE Len(rest)), 0)}
  ELSE TransportReads(cap)

RestAfter(r) == IF rest = <<>> THEN <<>> ELSE SubSeq(rest, Len(r.bytes) + 1, Len(rest))

\* What a read leaves in the transport and on the clock.
Take(r) ==
  /\ at' = IF rest = <<>> THEN at + Len(r.bytes) ELSE at
  /\ elapsed' = After(r.ticks)
  /\ timeouts' = IF r.kind = "timeout" THEN timeouts + 1 ELSE timeouts

(***************************************************************************)
(* The head                                                                *)
(***************************************************************************)
\* memchr_crlf_crlf: the position behind the first empty line, or 0.
memchr_crlf_crlf(b) ==
  LET ends == {i \in 4..Len(b) : SubSeq(b, i - 3, i) = <<CR, LF, CR, LF>>}
  IN IF ends = {} THEN 0 ELSE Min(ends)

\* parse_status_line fails on what is no HTTP status line or no 16-bit code.
parse_status_line(status) == status \in 0..65535

\* header_lookup: the value of the first header of that name, in a list that has one.
header_lookup(hs, n) == hs[Min({i \in 1..Len(hs) : hs[i].name = n})].value

\* The Transfer-Encoding names "chunked".
Chunked(hs) ==
  HasHeader(hs, "transfer-encoding") /\ header_lookup(hs, "transfer-encoding") = 1

\* read_http_body with a Content-Length: rest is copied whole, also where it is longer.
LengthBody_Unsigned(len, r) ==
  \/ len < 0 /\ Return("malformed", <<>>)
  \/ len > MaxBody /\ Return("large", <<>>)
  \/ len \in 0..MaxBody /\ len = Len(r) /\ Return("ok", r)
  \/ len \in 0..MaxBody /\ len # Len(r) /\ GoOn("length", <<>>, <<>>, r, len - Len(r))
LengthBody(len, r) ==
  \/ len < 0 /\ Return("malformed", <<>>)
  \/ len > MaxBody /\ Return("large", <<>>)
  \/ len \in 0..MaxBody /\ len <= Len(r) /\ Return("ok", r)
  \/ len \in 0..MaxBody /\ len > Len(r) /\ GoOn("length", <<>>, <<>>, r, len - Len(r))

\* read_http_body: Content-Length before Transfer-Encoding before the end of the stream.
StartBody(hs, r) ==
  LET length == HasHeader(hs, "content-length")
  IN \/ length /\ LengthBody(header_lookup(hs, "content-length"), r)
     \/ ~length /\ Chunked(hs) /\ GoOn("line", <<>>, r, <<>>, 0)
     \/ ~length /\ ~Chunked(hs) /\ GoOn("eof", <<>>, <<>>, r, 0)

\* The head is complete in b, up to e; the rest of b is already part of the body.
HeadEnds(b, e) ==
  \/ ~parse_status_line(reply.status) /\ Return("malformed", <<>>)
  \/ parse_status_line(reply.status)
     /\ StartBody(reply.headers, SubSeq(b, e + 1, Len(b)))

\* A read error on the socket is returned after whatever still comes has been read, for the log.
UdsHeadFails(kind) ==
  /\ phase' = "drain" /\ result' = kind
  /\ buf' = <<>>
  /\ UNCHANGED <<transport, reply, request, unsent, rest, body, need>>
HeadFails(kind) == IF transport = "uds" THEN UdsHeadFails(kind) ELSE Return(kind, <<>>)

\* read_until_double_crlf: one read, the guard on its size, and the look for the empty line.
ReadHead ==
  /\ phase = "head"
  /\ \E r \in Reads(ReadSize) :
       LET b == buf \o r.bytes
           e == memchr_crlf_crlf(b)
       IN /\ Take(r)
          /\ \/ r.kind # "data" /\ HeadFails(r.kind)
             \/ r.kind = "data" /\ Len(b) > MaxHead /\ HeadFails("large")
             \/ r.kind = "data" /\ Len(b) <= MaxHead /\ e = 0 /\ GoOn("head", b, <<>>, <<>>, 0)
             \/ r.kind = "data" /\ Len(b) <= MaxHead /\ e # 0 /\ HeadEnds(b, e)

\* stream.read_to_end behind a failed head: up to the end of the stream or the next error.
UdsDrain_Retries ==
  /\ phase = "drain"
  /\ \E r \in UdsReads(BlockSize) :
       /\ Take(r)
       /\ \/ r.kind \in {"data", "timeout"} /\ timeouts < 3
             /\ GoOn("drain", <<>>, <<>>, <<>>, 0)
          \/ (r.kind \in {"eof", "reset"} \/ timeouts = 3) /\ Return(result, <<>>)
UdsDrain ==
  /\ phase = "drain"
  /\ \E r \in UdsReads(BlockSize) :
       /\ Take(r)
       /\ \/ r.kind = "data" /\ GoOn("drain", <<>>, <<>>, <<>>, 0)
          \/ r.kind # "data" /\ Return(result, <<>>)

(***************************************************************************)
(* The body                                                                *)
(***************************************************************************)
\* read_exact_len behind a Content-Length.
ReadLength_Lenient ==
  /\ phase = "length"
  /\ \E r \in Reads(need) :
       LET n == Len(r.bytes)
       IN /\ Take(r)
          /\ \/ r.kind \notin {"data", "eof"} /\ Return(r.kind, <<>>)
             \/ r.kind = "data" /\ n < need
                /\ GoOn("length", <<>>, <<>>, body \o r.bytes, need - n)
             \/ (r.kind = "eof" \/ n = need) /\ Return("ok", body \o r.bytes)
ReadLength ==
  /\ phase = "length"
  /\ \E r \in Reads(need) :
       LET n == Len(r.bytes)
       IN /\ Take(r)
          /\ \/ r.kind # "data" /\ Return(r.kind, <<>>)
             \/ r.kind = "data" /\ n < need
                /\ GoOn("length", <<>>, <<>>, body \o r.bytes, need - n)
             \/ r.kind = "data" /\ n = need /\ Return("ok", body \o r.bytes)

\* The reads up to the end of the stream.
ReadEof ==
  /\ phase = "eof"
  /\ \E r \in Reads(BlockSize) :
       LET b == body \o r.bytes
       IN /\ Take(r)
          /\ \/ r.kind = "eof" /\ Return("ok", body)
             \/ r.kind \notin {"data", "eof"} /\ Return(r.kind, <<>>)
             \/ r.kind = "data" /\ Len(b) > MaxBody /\ Return("large", <<>>)
             \/ r.kind = "data" /\ Len(b) <= MaxBody /\ GoOn("eof", <<>>, <<>>, b, 0)

(***************************************************************************)
(* The chunks: read_chunked                                                *)
(***************************************************************************)
\* The value of a hexadecimal digit.
HexDigit(c) == CASE c \in 48..57 -> c - 48
                 [] c \in 65..70 -> c - 55
                 [] c \in 97..102 -> c - 87
                 [] OTHER -> -1

\* What stands before the extensions of a size line.
SizeText(line) ==
  LET cuts == {i \in 1..Len(line) : line[i] = Semicolon}
  IN IF cuts = {} THEN line
     ELSE SubSeq(line, 1, Min(cuts) - 1)

\* The length of the UTF-8 sequence that a byte begins, and what may follow it.
Utf8Length(lead) == CASE lead \in 0..127   -> 1
                      [] lead \in 194..223 -> 2
                      [] lead \in 224..239 -> 3
                      [] lead \in 240..244 -> 4
                      [] OTHER             -> 0
Continuation == 128..191
Second(lead) == CASE lead = 224 -> 160..191
                  [] lead = 237 -> 128..159
                  [] lead = 240 -> 144..191
                  [] lead = 244 -> 128..143
                  [] OTHER      -> Continuation

\* from_utf8: sequences of a lead and its continuation bytes, and no other continuation bytes.
from_utf8(line) ==
  \A i \in 1..Len(line) :
    IF line[i] \in Continuation
    THEN \E k \in 1..3 : /\ k < i /\ k < Utf8Length(line[i - k])
                         /\ \A j \in (i - k + 1)..i : line[j] \in Continuation
    ELSE /\ Utf8Length(line[i]) \in 1..(Len(line) - i + 1)
         /\ \A j \in 1..(Utf8Length(line[i]) - 1) :
              line[i + j] \in (IF j = 1 THEN Second(line[i]) ELSE Continuation)

\* from_utf8 and from_str_radix accept the line.  (Blanks around the number and a plus in front
\* of it are left out, and so are numbers beyond 64 bits, which count as malformed.)
ValidSize(line) ==
  /\ from_utf8(line)
  /\ SizeText(line) # <<>>
  /\ \A i \in 1..Len(SizeText(line)) : HexDigit(SizeText(line)[i]) >= 0

ChunkSize(line) ==
  LET text == SizeText(line)
      value[n \in 0..Len(text)] ==
        IF n = 0 THEN 0 ELSE 16 * value[n - 1] + HexDigit(text[n])
  IN value[Len(text)]

\* The limits on one chunk and on what the chunks add up to.
ChunkFits_Alone(size) == size <= MaxChunk /\ size <= MaxBody
ChunkFits(size) == size <= MaxChunk /\ Len(body) + size <= MaxBody

\* A size line is complete.
Sized(line, r) ==
  \/ ~ValidSize(line) /\ Return("malformed", <<>>)
  \/ ValidSize(line)
     /\ LET size == ChunkSize(line)
        IN \/ size = 0 /\ GoOn("trailer", <<>>, r, body, 2)
           \/ size # 0 /\ ~ChunkFits(size) /\ Return("large", <<>>)
           \/ size # 0 /\ ChunkFits(size) /\ GoOn("data", <<>>, r, body, size)

\* One byte of a size line; the guard looks at a line that has not ended.
ReadSizeLine ==
  /\ phase = "line"
  /\ \E r \in Reads(1) :
       LET line == buf \o r.bytes
           ended == Len(line) > 1 /\ SubSeq(line, Len(line) - 1, Len(line)) = <<CR, LF>>
       IN /\ Take(r)
          /\ \/ r.kind # "data" /\ Return(r.kind, <<>>)
             \/ r.kind = "data" /\ ended /\ Sized(SubSeq(line, 1, Len(line) - 2), RestAfter(r))
             \/ r.kind = "data" /\ ~ended /\ Len(line) > MaxLine /\ Return("large", <<>>)
             \/ r.kind = "data" /\ ~ended /\ Len(line) <= MaxLine
                /\ GoOn("line", line, RestAfter(r), body, 0)

\* read_exact_len of a chunk.
ReadChunk ==
  /\ phase = "data"
  /\ \E r \in Reads(need) :
       LET chunk == buf \o r.bytes
           n == need - Len(r.bytes)
       IN /\ Take(r)
          /\ \/ r.kind # "data" /\ Return(r.kind, <<>>)
             \/ r.kind = "data" /\ n # 0 /\ GoOn("data", chunk, RestAfter(r), body, n)
             \/ r.kind = "data" /\ n = 0
                /\ GoOn("crlf", <<>>, RestAfter(r), body \o chunk, 2)

\* The CRLF behind a chunk.
ReadCrlf ==
  /\ phase = "crlf"
  /\ \E r \in Reads(need) :
       LET crlf == buf \o r.bytes
           n == need - Len(r.bytes)
       IN /\ Take(r)
          /\ \/ r.kind # "data" /\ Return(r.kind, <<>>)
             \/ r.kind = "data" /\ n # 0 /\ GoOn("crlf", crlf, RestAfter(r), body, n)
             \/ r.kind = "data" /\ n = 0 /\ crlf # <<CR, LF>> /\ Return("malformed", <<>>)
             \/ r.kind = "data" /\ n = 0 /\ crlf = <<CR, LF>>
                /\ GoOn("line", <<>>, RestAfter(r), body, 0)

\* Two single reads behind the last chunk; neither their bytes nor their errors matter.
ReadTrailer ==
  /\ phase = "trailer"
  /\ \E r \in Reads(1) :
       /\ Take(r)
       /\ \/ need = 2 /\ GoOn("trailer", <<>>, RestAfter(r), body, 1)
          \/ need = 1 /\ Return("ok", body)

(***************************************************************************)
(* The specification                                                       *)
(***************************************************************************)
Step == \/ UdsConnect \/ PipeExpired \/ PipeOpen \/ PipeBusy \/ PipeMissing
        \/ UdsWrite \/ PipeWrite
        \/ ReadHead \/ UdsDrain \/ ReadLength \/ ReadEof
        \/ ReadSizeLine \/ ReadChunk \/ ReadCrlf \/ ReadTrailer

Next == Call \/ Step

Spec == Init /\ [][Next]_vars

(***************************************************************************)
(* What a reply means, read off all of its bytes at once                   *)
(***************************************************************************)
\* The message is whole, cut off, malformed or too large; and the body of a whole one.
Meant(kind, payload) == [kind |-> kind, payload |-> payload]
Bare(kind) == Meant(kind, <<>>)

\* One chunk, and where the next one begins if there is to be a next one.
Chunk(kind, payload, next) == [kind |-> kind, payload |-> payload, next |-> next]
NoChunk(kind) == Chunk(kind, <<>>, 0)

\* The data of a chunk lie behind position p of w, and their CRLF behind them.
DataAt(w, p, size) ==
  LET end == p + size
  IN IF Len(w) < end + 2 THEN NoChunk("cut")
     ELSE IF SubSeq(w, end + 1, end + 2) # <<CR, LF>> THEN NoChunk("malformed")
     ELSE Chunk("more", SubSeq(w, p + 1, end), end + 2)

\* A chunk begins behind position p; the ones before it came to n bytes.
ChunkAt(w, p, n) ==
  LET ends == {i \in (p + 2)..Len(w) : i <= p + MaxLine + 1 /\ SubSeq(w, i - 1, i) = <<CR, LF>>}
      line == SubSeq(w, p + 1, Min(ends) - 2)
      size == ChunkSize(line)
  IN IF ends = {} THEN NoChunk(IF Len(w) - p > MaxLine THEN "large" ELSE "cut")
     ELSE IF ~ValidSize(line) THEN NoChunk("malformed")
     ELSE IF size = 0 THEN NoChunk("whole")
     ELSE IF size > MaxChunk \/ n + size > MaxBody THEN NoChunk("large")
     ELSE DataAt(w, Min(ends), size)

\* The chunks from each position on, n bytes of the body being known.
ChunksOf(w) ==
  LET meant[x \in (0..Len(w)) \X (0..MaxBody)] ==
        LET c == ChunkAt(w, x[1], x[2])
            others == meant[<<c.next, x[2] + Len(c.payload)>>]
        IN IF c.kind = "more" THEN Meant(others.kind, c.payload \o others.payload)
           ELSE Bare(c.kind)
  IN meant

\* A body of an announced length behind the head, which ends at e.
LengthMeaning(w, e, len) ==
  IF len < 0 THEN Bare("malformed")
  ELSE IF len > MaxBody THEN Bare("large")
  ELSE IF Len(w) - e < len THEN Bare("cut")
  ELSE Meant("whole", SubSeq(w, e + 1, e + len))

\* A body up to the end of the stream.
EofMeaning(w, e) ==
  IF Len(w) - e > MaxBody THEN Bare("large") ELSE Meant("whole", SubSeq(w, e + 1, Len(w)))

MeaningOf(r) ==
  LET e == memchr_crlf_crlf(r.wire)
  IN IF e = 0 THEN Bare(IF Len(r.wire) > MaxHead THEN "large" ELSE "cut")
     ELSE IF e > MaxHead THEN Bare("large")
     ELSE IF ~parse_status_line(r.status) THEN Bare("malformed")
     ELSE IF HasHeader(r.headers, "content-length")
          THEN LengthMeaning(r.wire, e, header_lookup(r.headers, "content-length"))
     ELSE IF Chunked(r.headers) THEN ChunksOf(r.wire)[<<e, 0>>]
     ELSE EofMeaning(r.wire, e)

\* The head fits, and one read could bring its end and go past the limit on heads: such a reply
\* is refused or not as its cuts will have it.
HeadEdge(r) ==
  LET e == memchr_crlf_crlf(r.wire)
  IN e # 0 /\ e <= MaxHead /\ MaxHead < Len(r.wire) /\ MaxHead < e + ReadSize - 1

(***************************************************************************)
(* Properties                                                              *)
(***************************************************************************)
\* The type invariant.
TypeOK ==
  /\ phase \in {"idle", "open", "write", "head", "drain", "length", "eof", "line", "data",
                "crlf", "trailer"}
  /\ transport \in Transports /\ reply \in Replies /\ request \in Headers
  /\ unsent \in 0..RequestSize /\ at \in 0..Len(reply.wire)
  /\ {buf, rest, body} \subseteq Seq(0..255)
  /\ need \in 0..MaxBody + 2
  /\ elapsed \in 0..Horizon /\ timeouts \in Nat
  /\ result \in {"none", "ok", "malformed", "large", "timeout", "eof", "reset", "refused"}

\* A reply that is accepted is whole and has been decoded to what it means, however it was cut
\* into reads: no truncated message with a length or with chunks passes for a complete one, and
\* only bytes sent behind the Content-Length, which the code does not cut off, may follow the
\* payload.
Decoded ==
  LET meaning == MeaningOf(reply)
  IN phase = "idle" /\ result = "ok" =>
       /\ meaning.kind = "whole"
       /\ \/ body = meaning.payload
          \/ /\ HasHeader(reply.headers, "content-length") /\ IsPrefix(meaning.payload, body)
             /\ body = SubSeq(reply.wire, memchr_crlf_crlf(reply.wire) + 1, at)

\* A reply is refused for what is wrong with it and for nothing else: one that is whole and sound
\* is never taken for truncated, malformed or too large, whatever its cuts (but for HeadEdge).
Blamed ==
  /\ result = "eof" => MeaningOf(reply).kind = "cut"
  /\ result = "malformed" => MeaningOf(reply).kind = "malformed"
  /\ result = "large" => MeaningOf(reply).kind = "large" \/ HeadEdge(reply)

\* A reply is accepted and refused as it deserves, and decoded to what it means.
Verdict == Decoded /\ Blamed

\* No body is longer than MAX_BODY_SIZE, whatever the peer announces or sends.
BodyBound == Len(body) <= MaxBody

\* The host of a transport.
OwnHost(t) == IF t = "uds" THEN UnixHost ELSE PipeHost

\* The caller's headers are sent as they are, and each default is added exactly once unless the
\* caller gave that header himself, although two layers add defaults over either transport and
\* disagree about the host: it is the transport's that is sent.
RequestFramed ==
  phase \in {"open", "write"} =>
    \E hs \in CallerHeaders :
      /\ IsPrefix(hs, request)
      /\ \A n \in {"content-length", "host", "connection"} :
           LET added == {i \in (Len(hs) + 1)..Len(request) : request[i].name = n}
           IN IF HasHeader(hs, n) THEN added = {}
              ELSE \E i \in added : /\ added = {i}
                                    /\ n = "host" => request[i].value = OwnHost(transport)

\* All operations of a call over the pipe share one deadline: the call is over one tick (of a
\* millisecond) after it, however slowly the server trickles.
PipeDeadline == transport = "pipe" => elapsed <= Timeout + 1

\* A peer that has fallen silent holds the caller up for two timeouts and no longer, also where a
\* failed read is followed by others: the reads of the drain, and those behind the last chunk.
TwoTimeouts == timeouts <= 2

=============================================================================
