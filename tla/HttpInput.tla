----------------------------- MODULE HttpInput -----------------------------
(***************************************************************************)
(* http::impl::InputMessage and the objects it reads a message with: the  *)
(* accumulator, the token finder, the three body extractors and the zlib  *)
(* decoder.  A message under way is a record; the operators below are the  *)
(* steps of the fiber that reads it.                                       *)
(*                                                                         *)
(* A byte is a record [k, v].  "r" and "n" are the two line end           *)
(* characters, "d" a digit of a chunk size, "x" any other byte; "z" and    *)
(* "zz" are bytes of a compressed stream that stand for one and for two    *)
(* bytes of text, "zend" is its last.  A first line and a header are one   *)
(* byte each, named for what they say.  A line, a size or a line end can   *)
(* be cut between any two bytes.                                           *)
(***************************************************************************)
EXTENDS Naturals, Sequences, SequencesExt, FiniteSetsExt

CONSTANTS Radix,        \* base of a chunk size, 16 in the code
          CaptionLimit, \* longest unfinished chunk head, 1024 in the code
          ReadGranula   \* _granula of a reader: size of a packet and of _output

ASSUME InputAssumption == Radix \in Nat /\ Radix > 1 /\ CaptionLimit \in Nat /\ ReadGranula \in Nat \ {0}

B(k, v) == [k |-> k, v |-> v]
CR == B("r", 0)
LF == B("n", 0)
CRLF == <<CR, LF>>

\* The names of the headers a reader looks at, and the value of an absent one.
HeaderNames == {"connection", "te", "accept", "encoding", "length", "transfer"}
NoHeader == 99

\* Values of Connection, and of the encodings.
ConnClose == 0
KeepAlive == 1
Identity == 0
Deflate == 1
Other == 2

Extractor(kind, size) == [kind |-> kind, es |-> "caption", size |-> size, zlib |-> FALSE]
NoExtractor == Extractor("none", 0)
Decoder == [in |-> <<>>, held |-> <<>>, out |-> <<>>, closed |-> FALSE, end |-> FALSE]

InputMessage ==
    [em |-> "firstLine", seg |-> <<>>, tok |-> 0, acc |-> <<>>, first |-> B("x", 0),
     headers |-> [h \in HeaderNames |-> NoHeader], stream |-> <<>>, ext |-> NoExtractor,
     z |-> Decoder, body |-> <<>>, ec |-> "ok"]

Failed(m, e) == [m EXCEPT !.ec = e]

-----------------------------------------------------------------------------
\* TokFinder::find: _tokenPos goes back to 0 on a mismatch and the byte that did
\* not match is not tried again.  found is 0 or the place of the token's end.
TokFinder(s, pos) ==
    LET tokenPos[i \in 0 .. Len(s)] ==
            IF i = 0 THEN pos
            ELSE IF tokenPos[i - 1] = 0 /\ s[i].k = "r" THEN 1 ELSE 0
        ends == {i \in 1 .. Len(s) : tokenPos[i - 1] = 1 /\ s[i].k = "n"}
    IN [found |-> IF ends = {} THEN 0 ELSE Min(ends), pos |-> tokenPos[Len(s)]]

\* readHeaders, one header: a line without ':' is a bad message, and a header that
\* is there twice keeps its first value (map::insert).
Header(m, h) ==
    IF h.k \notin HeaderNames \cup {"plain"} THEN Failed(m, "bad_message")
    ELSE IF h.k \in HeaderNames /\ m.headers[h.k] = NoHeader
         THEN [m EXCEPT !.headers[h.k] = h.v]
         ELSE m

\* What readFirstLine and readHeaders do with a line.
Line(m, line) ==
    CASE m.em = "firstLine" ->
           IF Len(line) = 1 /\ line[1].k \in {"GET", "OPTIONS", "POST", "HTTP"}
           THEN [m EXCEPT !.em = "headers", !.first = line[1]]
           ELSE Failed(m, "bad_message")
      [] m.em = "headers" ->
           IF line = <<>> THEN [m EXCEPT !.em = "body"] ELSE Header(m, line[1])

\* readUntil on the bytes of one segment.
Scan(m, bytes) ==
    LET f == TokFinder(bytes, m.tok)
        all == m.seg \o SubSeq(bytes, 1, f.found)
    IN IF f.found = 0
       THEN [m EXCEPT !.seg = @ \o bytes, !.tok = f.pos, !.acc = <<>>]
       ELSE Line([m EXCEPT !.seg = <<>>, !.tok = 0, !.acc = SubSeq(bytes, f.found + 1, Len(bytes))],
                 SubSeq(all, 1, Len(all) - 2))

\* A line is looked for in what _accumuler holds behind _readedPos; the first line is
\* not, its segment is empty when the search begins.
Buffered(m) == m.em = "headers" /\ m.seg = <<>> /\ m.acc # <<>>
ScanBuffered(m) == Scan(m, m.acc)

\* InputMessage::reinit keeps the bytes of _accumuler behind _readedPos.
Reinit(m) == [InputMessage EXCEPT !.acc = m.acc]

-----------------------------------------------------------------------------
\* prepareBodyExtractor.  _version < 1.1 without a Connection header reaches the
\* inner test of hvConnection.value(), which is not ec_close then.
BodyKind(m) ==
    LET h == m.headers IN
    IF h["encoding"] \notin {NoHeader, Deflate, Identity} THEN "bad"
    ELSE IF h["length"] # NoHeader THEN "sized"
    ELSE IF h["transfer"] = 1 THEN "chunked"
    ELSE IF h["connection"] = ConnClose THEN "untilClose"
    ELSE "bad"

\* readBody up to the first process(): the buffered bytes move to the stream of the
\* extractor (BodyExtractor::read from _accumuler, dropTail).
PrepareBody(m) ==
    LET kind == BodyKind(m) IN
    IF kind = "bad" THEN Failed(m, "bad_message")
    ELSE [m EXCEPT !.em = "extract", !.stream = m.acc, !.acc = <<>>,
                   !.ext = [Extractor(kind, IF kind = "sized" THEN m.headers["length"] ELSE 0)
                            EXCEPT !.zlib = m.headers["encoding"] = Deflate]]

IsDone(x) ==
    CASE x.kind = "chunked" -> x.es = "done"
      [] x.kind = "sized" -> x.size = 0
      [] OTHER -> FALSE

\* Bytes into the decoder of the body: kept for inflate or stored as they are.
PushBody(m, bytes) ==
    IF m.ext.zlib THEN [m EXCEPT !.z.in = bytes] ELSE [m EXCEPT !.body = @ \o bytes]

\* BodyExtractor::processBody for a body of which limit bytes are left.
ProcessBody(m, limit) ==
    LET n == Min({limit, Len(m.stream)}) IN
    [PushBody(m, SubSeq(m.stream, 1, n)) EXCEPT !.stream = SubSeq(@, n + 1, Len(@))]

\* processTail: the rest goes back to _accumuler.
ProcessTail(m) == [m EXCEPT !.acc = @ \o m.stream, !.stream = <<>>]

\* Length of the longest run of bytes of one kind at the front of s.
Run(s, Is(_)) ==
    LET stops == {i \in 1 .. Len(s) : ~Is(s[i])} IN IF stops = {} THEN Len(s) ELSE Min(stops) - 1

IsDigit(b) == b.k = "d"
NotCr(b) == b.k # "r"

\* uint_parser<size_t, 16> on the digits of s.
NumberOf(s) == FoldLeft(LAMBDA n, b : n * Radix + b.v, 0, s)

\* The grammar of a chunk head: an optional line end, a size or the end of the
\* input, anything up to '\r', a line end.  error: neither a digit nor the end.
Caption(s) ==
    LET skip   == IF Len(s) >= 2 /\ SubSeq(s, 1, 2) = CRLF THEN 2 ELSE 0
        t      == SubSeq(s, skip + 1, Len(s))
        digits == Run(t, IsDigit)
        upto   == Run(t, NotCr)
    IN [error |-> digits = 0 /\ t # <<>>,
        size  |-> NumberOf(SubSeq(t, 1, digits)),
        ok    |-> digits > 0 /\ upto + 2 <= Len(t) /\ SubSeq(t, upto + 1, upto + 2) = CRLF,
        next  |-> skip + upto + 3]

\* BodyExtractorChunked::processCaption; stream unchanged is need_more_data.
ProcessCaption(m) ==
    LET c == Caption(m.stream) IN
    IF c.ok
    THEN [m EXCEPT !.ext.es = IF c.size = 0 THEN "trailer" ELSE "body", !.ext.size = c.size,
                   !.stream = SubSeq(@, c.next, Len(@))]
    ELSE IF c.error \/ Len(m.stream) > CaptionLimit THEN Failed(m, "bad_message") ELSE m

\* BodyExtractorChunked::processTrailerHeader.
ProcessTrailerHeader(m) ==
    LET upto == Run(m.stream, NotCr) IN
    IF upto + 2 <= Len(m.stream) /\ SubSeq(m.stream, upto + 1, upto + 2) = CRLF
    THEN [m EXCEPT !.ext.es = IF upto > 0 THEN "trailer" ELSE "done",
                   !.stream = SubSeq(@, upto + 3, Len(@))]
    ELSE IF Len(m.stream) > CaptionLimit THEN Failed(m, "bad_message") ELSE m

\* One call of the extractor's process.
Process(m) ==
    CASE m.ext.kind = "untilClose" -> ProcessBody(m, Len(m.stream))
      [] m.ext.kind = "sized" /\ m.ext.size > 0 ->
           [ProcessBody(m, m.ext.size) EXCEPT !.ext.size = @ - Min({@, Len(m.stream)})]
      [] m.ext.kind = "chunked" /\ m.ext.es = "caption" -> ProcessCaption(m)
      [] m.ext.kind = "chunked" /\ m.ext.es = "trailer" -> ProcessTrailerHeader(m)
      [] m.ext.kind = "chunked" /\ m.ext.es = "body" ->
           LET left == m.ext.size - Min({m.ext.size, Len(m.stream)}) IN
           [ProcessBody(m, m.ext.size) EXCEPT !.ext.size = left,
                                              !.ext.es = IF left = 0 THEN "caption" ELSE "body"]
      [] OTHER -> ProcessTail(m)

\* The loop of BodyExtractor::process goes on.
Processable(m) == m.stream # <<>> /\ m.z.in = <<>> /\ Process(m) # m

-----------------------------------------------------------------------------
\* zlib's inflate: the text of one compressed byte.
Letter(v) == IF v = 0 THEN CR ELSE B("x", v)
Text(b) == CASE b.k = "z" -> <<Letter(b.v)>>
             [] b.k = "zz" -> <<Letter(b.v), Letter(b.v)>>
             [] OTHER -> <<>>

\* inflate: held bytes are written first, then input is taken as long as there is
\* room for more; the end mark needs none.
inflate(held, in, room) ==
    LET text[i \in 0 .. Len(in)] == IF i = 0 THEN held ELSE text[i - 1] \o Text(in[i])
        Takes(i) == Len(text[i - 1]) < room \/ (Len(text[i - 1]) = room /\ in[i].k = "zend")
        used == Max({0} \cup {i \in 1 .. Len(in) : \A j \in 1 .. i : Takes(j)})
        n    == Min({room, Len(text[used])})
        end  == used > 0 /\ in[used].k = "zend"
    IN [out |-> SubSeq(text[used], 1, n), held |-> SubSeq(text[used], n + 1, Len(text[used])),
        in |-> SubSeq(in, used + 1, Len(in)), end |-> end,
        code |-> IF end THEN "Z_STREAM_END"
                 ELSE IF n = 0 /\ used = 0 THEN "Z_BUF_ERROR" ELSE "Z_OK"]

\* A fresh _output has room for _granula bytes; after Z_OK it is closed at what it holds.
Room(z) == IF z.closed THEN 0 ELSE ReadGranula

\* One turn of the loop of ContentDecoderZlib::push; what follows the end of the
\* compressed stream is dropped.
Inflating(m) == m.z.in # <<>>

\* Without the note that _output was pushed.
InflateForgets(m) ==
    LET r == inflate(m.z.held, m.z.in, ReadGranula) IN
    [m EXCEPT !.z = [@ EXCEPT !.held = r.held, !.in = IF r.end THEN <<>> ELSE r.in, !.end = r.end],
              !.body = IF r.code = "Z_OK" THEN @ ELSE @ \o r.out]

InflateStep(m) ==
    LET r == inflate(m.z.held, m.z.in, Room(m.z))
        out == m.z.out \o r.out
        z == [m.z EXCEPT !.held = r.held, !.in = IF r.end THEN <<>> ELSE r.in, !.end = r.end]
    IN IF m.z.end THEN [m EXCEPT !.z.in = <<>>]
       ELSE IF r.code = "Z_OK"
       THEN [m EXCEPT !.z = [z EXCEPT !.out = out, !.closed = TRUE]]
       ELSE [m EXCEPT !.z = [z EXCEPT !.out = <<>>, !.closed = FALSE], !.body = @ \o out]

\* One turn of the loop of ContentDecoderZlib::flush: Z_FINISH reports Z_BUF_ERROR
\* until the end of the stream, and a turn without output is taken for the end.
FlushStep(m) ==
    LET r == inflate(m.z.held, <<>>, Room(m.z))
        out == m.z.out \o r.out
    IN [m EXCEPT !.z = [@ EXCEPT !.held = r.held, !.out = <<>>, !.closed = FALSE, !.end = (out = <<>>)],
                 !.body = @ \o out]

\* BodyExtractor::read has left its loop: flush the decoders, then the message is done.
BodyFlush(m) ==
    IF m.ext.zlib /\ ~m.z.end THEN FlushStep(m) ELSE [m EXCEPT !.em = "done"]
=============================================================================
