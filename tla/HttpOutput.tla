----------------------------- MODULE HttpOutput -----------------------------
(***************************************************************************)
(* http::impl::OutputMessage with its chain of encoders (zlib, chunked,    *)
(* writer) and http::server::impl::Response, which decides from the       *)
(* request how the body is framed and whether the connection stays.  A    *)
(* message under way is a record; sent holds what the writer has given to  *)
(* the channel.                                                            *)
(***************************************************************************)
EXTENDS HttpInput

CONSTANTS WriteGranula, \* _granula of a writer
          ZHold         \* how much text deflate keeps before it writes any

ASSUME OutputAssumption == WriteGranula \in Nat \ {0} /\ ZHold \in Nat

UnknownLength == 99
Unknown == 2            \* ec_unknown

OutputMessage ==
    [mode |-> "firstLine", version |-> 11, length |-> UnknownLength, chunked |-> FALSE,
     keepAlive |-> Unknown, encoding |-> Identity, compress |-> FALSE,
     filters |-> FALSE, buffer |-> <<>>, position |-> 0,
     zheld |-> <<>>, zout |-> <<>>, chunks |-> <<>>, writer |-> <<>>, sent |-> <<>>]

-----------------------------------------------------------------------------
\* ContentEncoderWriter: packets are collected until they make a granula.
WriterFlush(o) == [o EXCEPT !.sent = @ \o o.writer, !.writer = <<>>]
WriterPush(o, s) ==
    LET w == [o EXCEPT !.writer = @ \o s] IN IF Len(w.writer) >= WriteGranula THEN WriterFlush(w) ELSE w

\* karma::uint_generator<size_t, 16> for sizes of up to two digits.
DigitsOf(n) == IF n < Radix THEN <<B("d", n)>> ELSE <<B("d", n \div Radix), B("d", n % Radix)>>

\* ContentEncoderChunked::push2Upstream, push and flush.
LastChunk == <<B("d", 0)>> \o CRLF \o CRLF
Chunk(o) ==
    IF o.chunks = <<>> THEN o
    ELSE WriterPush(WriterPush(WriterPush([o EXCEPT !.chunks = <<>>], DigitsOf(Len(o.chunks)) \o CRLF),
                               o.chunks), CRLF)
ChunkedPush(o, s) ==
    LET c == [o EXCEPT !.chunks = @ \o s] IN
    IF Len(c.chunks) >= WriteGranula THEN Chunk(c) ELSE c
\* Without the last chunk.
ChunkedFlushNoEnd(o) == WriterFlush(Chunk(o))
ChunkedFlush(o) == WriterFlush(WriterPush(Chunk(o), LastChunk))

\* What is below the zlib encoder.
Below(o, s) == IF o.filters /\ o.chunked THEN ChunkedPush(o, s) ELSE WriterPush(o, s)
BelowFlush(o) == IF o.filters /\ o.chunked THEN ChunkedFlush(o) ELSE WriterFlush(o)

\* zlib's deflate: text becomes compressed bytes, two equal bytes become one.
Packed(s) ==
    LET p[i \in 0 .. Len(s)] ==
            IF i = 0 THEN <<>>
            ELSE IF p[i - 1] # <<>> /\ Last(p[i - 1]) = B("z", s[i].v)
                 THEN Append(Front(p[i - 1]), B("zz", s[i].v))
                 ELSE Append(p[i - 1], B("z", s[i].v))
    IN p[Len(s)]

\* ContentEncoderZlib::push: deflate takes the whole packet, and once it holds more
\* than ZHold it writes what _output has room for; a full _output goes on.
ZlibPush(o, s) ==
    LET held == o.zheld \o Packed(s)
        n    == IF Len(held) <= ZHold THEN 0 ELSE Min({Len(held), WriteGranula - Len(o.zout)})
        out  == o.zout \o SubSeq(held, 1, n)
        z    == [o EXCEPT !.zheld = SubSeq(held, n + 1, Len(held)), !.zout = out]
    IN IF Len(out) = WriteGranula THEN Below([z EXCEPT !.zout = <<>>], out) ELSE z

\* ContentEncoderZlib::flush: the loop over deflate(Z_FINISH) pushes one _output
\* after the other, the last with the end of the stream.
ZlibFlush(o) ==
    LET rest == o.zout \o Append(o.zheld, B("zend", 0))
        outs == [i \in 1 .. ((Len(rest) + WriteGranula - 1) \div WriteGranula) |->
                    SubSeq(rest, (i - 1) * WriteGranula + 1, Min({i * WriteGranula, Len(rest)}))]
    IN BelowFlush(FoldLeft(Below, [o EXCEPT !.zheld = <<>>, !.zout = <<>>], outs))

EncoderPush(o, s) ==
    IF s = <<>> THEN o
    ELSE IF o.filters /\ o.encoding # Identity THEN ZlibPush(o, s) ELSE Below(o, s)
EncoderFlush(o) ==
    IF o.filters /\ o.encoding # Identity THEN ZlibFlush(o) ELSE BelowFlush(o)

-----------------------------------------------------------------------------
\* bufferFlush pushes what lies between _writeBegin and _writePosition, and a full
\* buffer is replaced (bufferNext).
BufferFlush(o) ==
    [EncoderPush([o EXCEPT !.buffer = <<>>], o.buffer)
     EXCEPT !.position = IF @ = WriteGranula THEN 0 ELSE @]

\* write: byte after byte into the buffer, flushed when it is full.
Write(o, s) ==
    FoldLeft(LAMBDA p, b :
                 LET q == [p EXCEPT !.buffer = Append(@, b), !.position = @ + 1]
                 IN IF q.position = WriteGranula THEN BufferFlush(q) ELSE q,
             o, s)

\* header(name, value)
WriteHeader(o, name, value) == Write(o, <<B(name, value)>> \o CRLF)

\* Without giving up keep-alive for a body of unknown length.
FramedKeeps(o) ==
    [o EXCEPT !.encoding = IF o.length # UnknownLength THEN Identity ELSE @,
              !.chunked = @ /\ o.length = UnknownLength]

\* OutputMessage::writeSystemHeaders, the first half: length, chunks, compression and
\* keep-alive are made to agree.
Framed(o) ==
    LET known      == o.length # UnknownLength
        compressed == known /\ o.length > 0 /\ o.compress /\ o.encoding # Identity
        length     == IF compressed THEN UnknownLength ELSE o.length
        plain      == known /\ ~compressed
    IN [o EXCEPT !.length = length,
                 !.encoding = IF plain THEN Identity ELSE @,
                 !.keepAlive = IF length = UnknownLength /\ ~o.chunked /\ @ = KeepAlive THEN ConnClose ELSE @,
                 !.chunked = @ /\ length = UnknownLength]

\* The second half: the headers that announce it.
WriteFraming(o) ==
    LET a == IF o.length # UnknownLength THEN WriteHeader(o, "length", o.length) ELSE o
        b == IF o.chunked THEN WriteHeader(a, "transfer", 1) ELSE a
        c == IF o.encoding # Identity THEN WriteHeader(b, "encoding", o.encoding) ELSE b
    IN IF o.keepAlive # Unknown THEN WriteHeader(c, "connection", o.keepAlive) ELSE c

\* Response::writeSystemHeaders: keep-alive, chunks and encoding from the headers of
\* the request.  Date and Server are left out.
ResponseSystemHeaders(o, headers) ==
    LET h == headers IN
    WriteFraming(Framed([o EXCEPT
        !.keepAlive = IF h["connection"] # NoHeader THEN h["connection"]
                      ELSE IF o.version >= 11 THEN KeepAlive ELSE @,
        !.chunked = IF h["te"] # NoHeader THEN h["te"] = 1 ELSE @ \/ o.version >= 11,
        !.encoding = IF h["accept"] = Deflate THEN Deflate ELSE Identity]))

\* ensureMode(em_body) of a response: end of the first line, the system headers, end of
\* the headers, the buffer flushed before the filters are set up.
ToBody(o, headers) ==
    LET a == IF o.mode = "firstLine" THEN Write(o, CRLF) ELSE o
        b == Write(ResponseSystemHeaders([a EXCEPT !.mode = "headers"], headers), CRLF)
    IN [BufferFlush(b) EXCEPT !.filters = TRUE, !.mode = "body"]

\* header(...) of the application: ensureMode(em_headers) first.
AddHeader(o, name, value) ==
    LET a == IF o.mode = "firstLine" THEN [Write(o, CRLF) EXCEPT !.mode = "headers"] ELSE o
    IN WriteHeader(a, name, value)

\* OutputMessage::bodyFlush in mode em_body.
FinishBody(o) == [EncoderFlush(BufferFlush(o)) EXCEPT !.mode = "firstLine"]
=============================================================================
