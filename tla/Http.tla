-------------------------------- MODULE Http --------------------------------
(***************************************************************************)
(* One connection of http::impl::Server: requests come in, the server     *)
(* reads them (server::impl::Request is an InputMessage), answers them     *)
(* (server::impl::Response is an OutputMessage) and keeps or closes the    *)
(* connection; the client reads the responses with an InputMessage too     *)
(* (client::impl::Response).  A packet is any piece of what is on its way, *)
(* and the connection may break at any time.                               *)
(***************************************************************************)
EXTENDS HttpOutput

CONSTANTS Dialogs,    \* sequences of requests a client may make
          Bodies,     \* bodies a handler may write
          MaxBreaks   \* how often the connection may break

VARIABLES ask,      \* requests the client will make
          made,    \* how many it has made
          wire,     \* bytes on their way to a side
          open,     \* the channel of the server is open
          im,       \* the message a side reads
          out,      \* the response being written
          pc,       \* the server's fiber: read, readBody, respond, flush, closed
          todo,     \* bytes the handler has yet to write
          replies,  \* bodies of the responses begun
          got,      \* bodies the client has read
          breaks

httpVars == <<ask, made, wire, open, im, out, pc, todo, replies, got, breaks>>

Sides == {"server", "client"}

\* A request as its client sends it.
Wire(q) ==
    <<B(q.method, q.version)>> \o CRLF
    \o FoldLeft(LAMBDA s, h : s \o <<B(h[1], h[2])>> \o CRLF, <<>>, q.headers) \o CRLF \o q.body

HttpStart(dialog) ==
    /\ ask = dialog
    /\ made = 0
    /\ wire = [s \in Sides |-> <<>>]
    /\ open = TRUE
    /\ im = [s \in Sides |-> InputMessage]
    /\ out = OutputMessage
    /\ pc = "read"
    /\ todo = <<>>
    /\ replies = <<>>
    /\ got = <<>>
    /\ breaks = 0

HttpInit == \E dialog \in Dialogs : HttpStart(dialog)

\* The client makes a request once it has read the answer to the one before.
Request ==
    /\ open
    /\ ask # <<>>
    /\ made = Len(got)
    /\ wire' = [wire EXCEPT !["server"] = @ \o Wire(Head(ask))]
    /\ ask' = Tail(ask)
    /\ made' = made + 1
    /\ UNCHANGED <<open, im, out, pc, todo, replies, got, breaks>>

-----------------------------------------------------------------------------
\* Reading: the same code on both sides.  The server reads in "read" and "readBody".
CanRead(s) == im[s].ec = "ok" /\ (s = "server" => pc \in {"read", "readBody"})

Become(s, m) ==
    /\ im' = [im EXCEPT ![s] = m]
    /\ UNCHANGED <<ask, made, open, out, todo, replies, got, breaks>>

\* Channel::receive: a packet of at most _granula bytes.
Packet(s, n) ==
    /\ n \in 1 .. Min({ReadGranula, Len(wire[s])})
    /\ wire' = [wire EXCEPT ![s] = SubSeq(@, n + 1, Len(@))]
Bytes(s, n) == SubSeq(wire[s], 1, n)

\* readBuffer in readUntil
ReadBuffer(s) ==
    /\ CanRead(s)
    /\ im[s].em \in {"firstLine", "headers"}
    /\ ~Buffered(im[s])
    /\ \E n \in 1 .. ReadGranula : Packet(s, n) /\ Become(s, Scan(im[s], Bytes(s, n)))
    /\ UNCHANGED pc

ReadBuffered(s) ==
    /\ CanRead(s)
    /\ Buffered(im[s])
    /\ Become(s, ScanBuffered(im[s]))
    /\ UNCHANGED <<wire, pc>>

\* readBody: the client always, the server from Dispatch.
ReadBody ==
    /\ CanRead("client")
    /\ im["client"].em = "body"
    /\ Become("client", PrepareBody(im["client"]))
    /\ UNCHANGED <<wire, pc>>

ProcessStream(s) ==
    /\ CanRead(s)
    /\ im[s].em = "extract"
    /\ Processable(im[s])
    /\ Become(s, Process(im[s]))
    /\ UNCHANGED <<wire, pc>>

InflateBody(s) ==
    /\ CanRead(s)
    /\ Inflating(im[s])
    /\ Become(s, InflateStep(im[s]))
    /\ UNCHANGED <<wire, pc>>

Starved(m) == m.em = "extract" /\ ~Processable(m) /\ ~Inflating(m) /\ ~IsDone(m.ext)

\* The loop of BodyExtractor::read on the channel.
ReceiveBody(s) ==
    /\ CanRead(s)
    /\ Starved(im[s])
    /\ \E n \in 1 .. ReadGranula :
           Packet(s, n) /\ Become(s, [im[s] EXCEPT !.stream = @ \o Bytes(s, n)])
    /\ UNCHANGED pc

FlushBody(s) ==
    /\ CanRead(s)
    /\ im[s].em = "extract" /\ ~Inflating(im[s]) /\ ~Processable(im[s]) /\ IsDone(im[s].ext)
    /\ Become(s, BodyFlush(im[s]))
    /\ UNCHANGED <<wire, pc>>

\* The channel has ended: an error, except for BodyExtractorUntilClose::read.
Eof(s) ==
    /\ CanRead(s)
    /\ ~open
    /\ wire[s] = <<>>
    /\ ~Buffered(im[s])
    /\ im[s].em \in {"firstLine", "headers"} \/ Starved(im[s])
    /\ Become(s, IF im[s].ext.kind = "untilClose" THEN BodyFlush(im[s]) ELSE Failed(im[s], "eof"))
    /\ UNCHANGED <<wire, pc>>

\* The client has the response and makes ready for the next.
Got ==
    /\ im["client"].em = "done"
    /\ got' = Append(got, im["client"].body)
    /\ im' = [im EXCEPT !["client"] = Reinit(@)]
    /\ UNCHANGED <<ask, made, wire, open, out, pc, todo, replies, breaks>>

-----------------------------------------------------------------------------
\* The response: what the writer has sent goes on its way.
Emit(o) ==
    /\ out' = [o EXCEPT !.sent = <<>>]
    /\ wire' = [wire EXCEPT !["client"] = @ \o o.sent]

\* A response begins with its first line, in the version of the request.
NewResponse(m) == Write([OutputMessage EXCEPT !.version = m.first.v], <<B("HTTP", m.first.v)>>)

\* onRequest_f, GET: the handler sets the length or not, asks for compression or not,
\* and its first body(...) sends the headers.
DispatchGet ==
    /\ pc = "read"
    /\ im["server"].em = "body"
    /\ im["server"].first.k = "GET"
    /\ \E body \in Bodies, known \in BOOLEAN, compress \in BOOLEAN :
           /\ Emit(ToBody([NewResponse(im["server"]) EXCEPT
                               !.length = IF known THEN Len(body) ELSE @, !.compress = compress],
                          im["server"].headers))
           /\ todo' = body
           /\ replies' = Append(replies, body)
    /\ pc' = "respond"
    /\ UNCHANGED <<ask, made, open, im, got, breaks>>

\* 405: no body, one header of the server's own.
NotAllowed(name, value) ==
    /\ Emit(ToBody(AddHeader(NewResponse(im["server"]), name, value), im["server"].headers))
    /\ todo' = <<>>
    /\ replies' = Append(replies, <<>>)
    /\ pc' = "respond"
    /\ UNCHANGED <<ask, made, open, im, got, breaks>>

\* OPTIONS
DispatchOptions ==
    /\ pc = "read"
    /\ im["server"].em = "body"
    /\ im["server"].first.k = "OPTIONS"
    /\ NotAllowed("plain", 0)

\* Any other method: the body is read, then 405 with Connection: close.
DispatchOther ==
    /\ pc = "read"
    /\ CanRead("server")
    /\ im["server"].em = "body"
    /\ im["server"].first.k \notin {"GET", "OPTIONS"}
    /\ Become("server", PrepareBody(im["server"]))
    /\ pc' = "readBody"
    /\ UNCHANGED wire

RefuseOther ==
    /\ pc = "readBody"
    /\ im["server"].em = "done"
    /\ NotAllowed("connection", ConnClose)

\* body(...) of the handler
WriteBody ==
    /\ pc = "respond"
    /\ todo # <<>>
    /\ Emit(Write(out, <<Head(todo)>>))
    /\ todo' = Tail(todo)
    /\ UNCHANGED <<ask, made, open, im, pc, replies, got, breaks>>

\* Response::bodyFlush: the connection stays when _keepAlive says so, and is closed otherwise.
FlushResponse ==
    /\ pc = "respond"
    /\ todo = <<>>
    /\ Emit(FinishBody(out))
    /\ IF out.keepAlive = KeepAlive
       THEN pc' = "read" /\ im' = [im EXCEPT !["server"] = Reinit(@)] /\ UNCHANGED open
       ELSE pc' = "closed" /\ open' = FALSE /\ UNCHANGED im
    /\ UNCHANGED <<ask, made, todo, replies, got, breaks>>

\* The connection breaks: the server's fiber returns at its next send or receive, and
\* only a part of what was sent arrives.
Break ==
    /\ open
    /\ breaks < MaxBreaks
    /\ breaks' = breaks + 1
    /\ open' = FALSE
    /\ pc' = "closed"
    /\ \E n \in 0 .. Len(wire["client"]) :
           wire' = [wire EXCEPT !["server"] = <<>>, !["client"] = SubSeq(@, 1, n)]
    /\ UNCHANGED <<ask, made, im, out, todo, replies, got>>

HttpNext ==
    \/ Request \/ ReadBody \/ Got
    \/ \E s \in Sides :
          \/ ReadBuffer(s) \/ ReadBuffered(s) \/ ProcessStream(s) \/ InflateBody(s)
          \/ ReceiveBody(s) \/ FlushBody(s) \/ Eof(s)
    \/ DispatchGet \/ DispatchOptions \/ DispatchOther \/ RefuseOther
    \/ WriteBody \/ FlushResponse \/ Break

HttpSpec == HttpInit /\ [][HttpNext]_httpVars

-----------------------------------------------------------------------------
\* A client that takes a response for complete has the bytes the handler wrote, in
\* every framing and however the bytes were cut into packets; only a body that ends
\* with the connection can be cut short by a break.
Delivered ==
    \A i \in 1 .. Len(got) :
        got[i] = replies[i] \/ (breaks > 0 /\ i = Len(replies) /\ IsPrefix(got[i], replies[i]))

\* The client waits for more of a response.
ClientWaits ==
    /\ Len(got) < Len(replies)
    /\ im["client"].ec = "ok"
    /\ im["client"].em \in {"firstLine", "headers"} \/ Starved(im["client"])
    /\ ~Buffered(im["client"])
    /\ wire["client"] = <<>>

\* The server never waits for the next request on a connection whose client still waits
\* for the end of the response before: what the response says of its length, its chunks
\* and the connection must be what bodyFlush then does.
NoMutualWait == ~(open /\ pc = "read" /\ ClientWaits)

\* A client of HTTP/1.1, or one that said what becomes of the connection, can tell from
\* the headers where the body ends; and it need not wait for the connection to close
\* when the server is going to keep it.
FramingAnnounced ==
    im["client"].em = "body" /\ out.keepAlive # Unknown =>
        /\ BodyKind(im["client"]) # "bad"
        /\ out.keepAlive = KeepAlive => BodyKind(im["client"]) # "untilClose"

\* Both sides write chunked bodies as they should be, so the one that reads does not
\* call such a body bad, wherever it was cut into packets (BodyExtractorChunked).
WellFormedAccepted ==
    \A s \in Sides : im[s].ext.kind = "chunked" => im[s].ec # "bad_message"
=============================================================================
