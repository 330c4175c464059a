---------------------------- MODULE MCHttpClient ----------------------------
(***************************************************************************)
(* Replies of a peer for the model checker: sound ones of every framing,   *)
(* all their truncations, bytes too many, and each fault the codec guards  *)
(* against.                                                                *)
(***************************************************************************)
EXTENDS HttpClient

\* Header values of the replies; a Content-Length of -1 is one that is no number.
ContentLength(n) == Header("content-length", n)
ChunkedEncoding == Header("transfer-encoding", 1)
OtherEncoding == Header("transfer-encoding", 0)

\* The bytes a and b, and a head of the shortest length and one that just fits.
A == 97
B == 98
ShortHead == <<72, CR, LF, CR, LF>>
LongHead == <<72, CR, LF, 72, 72, CR, LF, CR, LF>>
HugeHead == <<72, 72, 72, 72>> \o LongHead

\* A reply with what it means by the hand of its author, which the specification must agree to.
Labelled(headers, wire, kind, payload) ==
  [reply |-> [status |-> 200, headers |-> headers, wire |-> wire, end |-> "close"],
   kind |-> kind, payload |-> payload]
Sound(headers, wire, payload) == Labelled(headers, wire, "whole", payload)

ChunkOf(bytes) == <<48 + Len(bytes), CR, LF>> \o bytes \o <<CR, LF>>
LastChunk == <<48, CR, LF, CR, LF>>
InChunks(chunks) ==
  Sound(<<ChunkedEncoding>>,
        ShortHead \o FlattenSeq([i \in 1..Len(chunks) |-> ChunkOf(chunks[i])]) \o LastChunk,
        FlattenSeq(chunks))

SoundLengths ==
  {Sound(<<ContentLength(Len(p))>>, ShortHead \o p, p) :
     p \in {<<>>, <<A>>, <<A, B, A>>, <<CR, LF, CR, LF>>}}
  \cup {Sound(<<ContentLength(1), ContentLength(2), ChunkedEncoding>>, LongHead \o <<A>>, <<A>>)}
SoundEofs ==
  {Sound(<<OtherEncoding>>, ShortHead \o p, p) : p \in {<<>>, <<A, B>>, <<CR, LF, CR, LF>>}}
SoundChunks ==
  {InChunks(<<>>), InChunks(<<<<A, B>>, <<A>>>>), InChunks(<<<<CR, LF>>>>),
   Sound(<<ChunkedEncoding>>,
         ShortHead \o <<48, 49, Semicolon, CR, LF, A, CR, LF>> \o LastChunk, <<A>>),
   Sound(<<ChunkedEncoding>>,
         ShortHead \o <<49, Semicolon, 195, 169, CR, LF, A, CR, LF>> \o LastChunk, <<A>>)}

\* The peer stops after n bytes.  The two bytes behind the last chunk's line do not count, and a
\* body without a length is whole wherever it ends.
Cut(l, n, kind, payload) ==
  [l EXCEPT !.reply.wire = SubSeq(@, 1, n), !.kind = kind, !.payload = payload]
Shorter(l) == 0..(Len(l.reply.wire) - 1)
Truncated ==
  UNION {{Cut(l, n, "cut", <<>>) : n \in Shorter(l)} : l \in SoundLengths}
  \cup UNION {{IF n < Len(ShortHead) THEN Cut(l, n, "cut", <<>>)
               ELSE Cut(l, n, "whole", SubSeq(l.reply.wire, Len(ShortHead) + 1, n)) :
                 n \in Shorter(l)} : l \in SoundEofs}
  \cup UNION {{IF n < Len(l.reply.wire) - 2 THEN Cut(l, n, "cut", <<>>)
               ELSE Cut(l, n, "whole", l.payload) : n \in Shorter(l)} : l \in SoundChunks}

\* Bytes behind the announced length.
Surplus ==
  {Sound(<<ContentLength(1)>>, ShortHead \o <<A>> \o extra, <<A>>) :
     extra \in {<<B>>, <<B, A, B, A>>}}

\* A head that fits, but maybe not together with what one read brings behind it.
AtTheEdge == {Sound(<<ContentLength(3)>>, <<72, 72>> \o LongHead \o <<A, B, A>>, <<A, B, A>>)}

Malformed(headers, bytes) == Labelled(headers, ShortHead \o bytes, "malformed", <<>>)
TooLarge(headers, bytes) == Labelled(headers, bytes, "large", <<>>)
Faulty ==
  {[Malformed(<<ContentLength(2)>>, <<A, B>>) EXCEPT !.reply.status = 65536],
   Malformed(<<ContentLength(-1)>>, <<A, B>>)}
  \cup {Malformed(<<ChunkedEncoding>>, bytes \o LastChunk) :
     bytes \in {<<103, CR, LF>>, <<CR, LF>>, <<49, Semicolon, 255, CR, LF>>,
               <<49, Semicolon, 195, CR, LF>>, <<49, Semicolon, 192, 169, CR, LF>>,
               <<49, CR, LF, A, B, CR, LF>>}}
  \cup {TooLarge(<<ContentLength(MaxBody + 1)>>, ShortHead \o <<A, B>>),
        TooLarge(<<>>, HugeHead \o <<A>>), TooLarge(<<>>, [i \in 1..13 |-> 72]),
        TooLarge(<<>>, ShortHead \o <<A, B, A, B, A>>)}
  \cup {TooLarge(<<ChunkedEncoding>>, ShortHead \o bytes \o LastChunk) :
     bytes \in {<<49 + MaxChunk, CR, LF, A, CR, LF>>,
               ChunkOf(<<A, B, A>>) \o ChunkOf(<<A, B>>),
               <<49, Semicolon, Semicolon, Semicolon, Semicolon, Semicolon>>}}

\* Every sound reply cut off anywhere, and every reply with each ending.
LabelledReplies ==
  SoundLengths \cup SoundEofs \cup SoundChunks \cup Truncated \cup Surplus \cup AtTheEdge
  \cup Faulty
MCReplies ==
  {[l.reply EXCEPT !.end = e] : l \in LabelledReplies, e \in {"close", "silent", "reset"}}

\* What the specification takes a reply to mean is what its author meant.
ASSUME LabelsAssumption ==
  \A l \in LabelledReplies :
    LET meaning == MeaningOf(l.reply)
    IN /\ meaning.kind = l.kind
       /\ l.kind = "whole" => meaning.payload = l.payload
       /\ HeadEdge(l.reply) <=> l \in AtTheEdge

\* UTF-8 by the code points it encodes: at the ends of each length, and the surrogates between.
Encoding(cp) ==
  LET tail(n) == 128 + ((cp \div n) % 64)
  IN CASE cp < 128   -> <<cp>>
       [] cp \in 128..2047   -> <<192 + cp \div 64, tail(1)>>
       [] cp \in 2048..65535 -> <<224 + cp \div 4096, tail(64), tail(1)>>
       [] OTHER -> <<240 + cp \div 262144, tail(4096), tail(64), tail(1)>>
CodePoints == {0, 127, 128, 2047, 2048, 55295, 57344, 65535, 65536, 1114111}
ASSUME Utf8Assumption ==
  /\ \A a, b \in CodePoints : from_utf8(Encoding(a) \o Encoding(b))
  /\ \A a \in CodePoints, b \in {55296, 57343, 1114112} : ~from_utf8(Encoding(a) \o Encoding(b))
  /\ \A a \in CodePoints : a > 127 => /\ ~from_utf8(Tail(Encoding(a)))
                                      /\ ~from_utf8(Front(Encoding(a)) \o <<A>>)
                                      /\ ~from_utf8(Encoding(a) \o <<128>>)

\* No headers, an own host, an own Content-Length among others.
MCCallerHeaders ==
  {<<>>, <<Header("host", 0)>>, <<Header("x", 0), Header("content-length", 7)>>}

=============================================================================
