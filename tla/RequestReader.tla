---------------------------- MODULE RequestReader ----------------------------
(***************************************************************************)
(* One connection of the engine's request path: a client writes requests,  *)
(* TCP hands them to the server in segments of any size, and handleRead    *)
(* (part_007 326-359) reads what has arrived into the connection's buffer  *)
(* behind the bytes already there and calls ParseRequest on the whole      *)
(* buffer. A parse error means "wait for more", unless the buffer is full  *)
(* (400, close). A parsed request resets the buffer and goes to            *)
(* processRequest (362-384): a route miss is answered by sendError(404),   *)
(* a hit by its handler, which calls one of the FDContext writers, and     *)
(* writeResponse then writes the response in as many partial writes as    *)
(* the socket's send buffer takes, spinning on EAGAIN. checkKeepAlive      *)
(* (398-409) follows. A                                                    *)
(* panic in the parser ends the process: nothing on the event loop         *)
(* recovers.                                                               *)
(*                                                                         *)
(* Engine abstracts all of this to "the buffer holds a request or not";    *)
(* here the bytes are explicit. The router is abstracted to its answer:    *)
(* Routes maps a method and path to its handler (FDContext's Handle).      *)
(***************************************************************************)
EXTENDS FDContext, FiniteSets

CONSTANTS
    Kinds,        \* the requests a client may send, as records of parts
    Routes,       \* [<<method, path>> |-> handler] for the registered handlers
    MaxRequests,  \* requests a client sends on the connection
    BufCap,       \* len(conn.readBuf), in tokens
    SndCap,       \* the socket's send buffer, in tokens
    Pipelined     \* TRUE: the client sends without waiting for responses

VARIABLES
    sent,     \* the requests the client has written, in order
    wire,     \* request tokens written and not yet read by the server
    buf,      \* conn.readBuf[:conn.readOffset]
    served,   \* the requests handleRead has parsed and passed on, in order
    pending,  \* responseBuf[written:] while writeResponse runs, else <<>>
    out,      \* response tokens in the socket, not yet read by the client
    rcvd,     \* response tokens the client has read
    conn      \* "open", "closed" or "crashed" (the process died)

vars == <<sent, wire, buf, served, pending, out, rcvd, conn>>

\* The connection is closed after this request (part_007 399).
KeepAliveEnds(r) ==
    r.proto = <<"HTTP/1.0">> \/ (<<"Connection">> \in DOMAIN r.header /\ r.header[<<"Connection">>] = <<"close">>)

\* Mutant: the buffer counts as full only past its length.
Full_offByOne(b) == Len(b) > BufCap

\* conn.readOffset >= len(conn.readBuf) (part_007 346).
Full(b) == Len(b) >= BufCap

\* Mutant: the read goes to conn.readBuf rather than readBuf[readOffset:].
Room_wholeBuffer(b) == BufCap

\* The tokens syscall.Read may return: len(conn.readBuf[conn.readOffset:]).
Room(b) == BufCap - Len(b)

\* Mutant: conn.readOffset is left as it is after a request is parsed.
ParsedRest_kept(data) == data

\* conn.readBuf[:conn.readOffset] once a request is parsed from data
\* (part_007 355): the offset goes back to 0, whatever followed the request.
ParsedRest(data) == <<>>

\* e.router.Find for a parsed request.
RouteOf(r) == <<Head(r.method), Head(r.path)>>

\* sendError's single syscall.Write, its result ignored: what does not fit
\* in the send buffer is lost.
WriteOnce(resp) == out \o Take(resp, SndCap - Len(out))

\* The client writes its next request; unless it pipelines, only once it
\* has read the answers to the previous ones.
Answered == Len(Frames(rcvd))

Send(r) ==
    /\ conn = "open"
    /\ Len(sent) < MaxRequests
    /\ Pipelined \/ Answered = Len(sent)
    /\ sent' = Append(sent, r)
    /\ wire' = wire \o Render(r)
    /\ UNCHANGED <<buf, served, pending, out, rcvd, conn>>

(***************************************************************************)
(* handleRead: syscall.Read returns the n tokens that have arrived, at     *)
(* most the room left in the buffer, and the whole buffer is parsed; a     *)
(* parsed request is routed, and a miss answered and kept alive or closed  *)
(* at once. A hit leaves its response to writeResponse.                    *)
(***************************************************************************)
Read(n) ==
    /\ conn = "open"
    /\ pending = <<>>
    /\ n \in 1..Len(wire)
    /\ n <= Room(buf)
    /\ wire' = Drop(wire, n)
    /\ LET data == buf \o Take(wire, n)
           p == ParseRequest(data)
           hit == p.status = "ok" /\ RouteOf(p.req) \in DOMAIN Routes
       IN /\ buf' = IF p.status = "invalid" THEN data
                    ELSE IF p.status = "ok" THEN ParsedRest(data) ELSE buf
          /\ served' = IF p.status = "ok" THEN Append(served, p.req) ELSE served
          /\ pending' = IF hit THEN Handle(Routes[RouteOf(p.req)]) ELSE <<>>
          /\ out' = CASE p.status = "invalid" /\ Full(data) -> WriteOnce(sendError(400))
                      [] p.status = "ok" /\ ~hit            -> WriteOnce(sendError(404))
                      [] OTHER                              -> out
          /\ conn' = CASE p.status = "panic"   -> "crashed"
                       [] p.status = "invalid" -> IF Full(data) THEN "closed" ELSE "open"
                       [] hit                  -> "open"
                       [] OTHER                -> IF KeepAliveEnds(p.req) THEN "closed" ELSE "open"
    /\ UNCHANGED <<sent, rcvd>>

(***************************************************************************)
(* writeResponse (context_fd.go 114-130): one syscall.Write of             *)
(* responseBuf[written:] takes what the send buffer has room for; on       *)
(* EAGAIN (no room) the loop retries at once, which changes nothing until  *)
(* the client reads. The last write returns to processRequest, which puts  *)
(* the context back and calls checkKeepAlive.                              *)
(***************************************************************************)

WriteStep(k) ==
    /\ pending # <<>>
    /\ k \in 1..Len(pending)
    /\ k <= SndCap - Len(out)
    /\ out' = out \o Take(pending, k)
    /\ pending' = Drop(pending, k)
    /\ conn' = IF k = Len(pending) /\ KeepAliveEnds(Last(served)) THEN "closed" ELSE conn
    /\ UNCHANGED <<sent, wire, buf, served, rcvd>>

\* The client reads k tokens of response; the kernel still delivers what
\* was written before a close.
ClientRecv(k) ==
    /\ k \in 1..Len(out)
    /\ rcvd' = rcvd \o Take(out, k)
    /\ out' = Drop(out, k)
    /\ UNCHANGED <<sent, wire, buf, served, pending, conn>>

Init ==
    /\ sent = <<>>
    /\ wire = <<>>
    /\ buf = <<>>
    /\ served = <<>>
    /\ pending = <<>>
    /\ out = <<>>
    /\ rcvd = <<>>
    /\ conn = "open"

ReadAny == \E n \in 1..BufCap : Read(n)
WriteAny == \E k \in 1..SndCap : WriteStep(k)
RecvAny == \E k \in 1..SndCap : ClientRecv(k)

Next ==
    \/ \E r \in Kinds : Send(r)
    \/ ReadAny
    \/ WriteAny
    \/ RecvAny

(***************************************************************************)
(* The poller is level-triggered and the event loop reads a readable       *)
(* connection on every pass, and writeResponse retries until it is done:   *)
(* reads and writes that can happen eventually do. The client reads its    *)
(* responses; it is not obliged to send anything.                          *)
(*                                                                         *)
(* Reading is WF_vars(ReadAny) with ENABLED <<ReadAny>>_vars written out:  *)
(* the parse assigns every primed variable, a read takes at least one      *)
(* token off the wire, and so a read is possible exactly when the          *)
(* connection is open, writeResponse is not running, a token has arrived   *)
(* and the buffer has room.                                                *)
(***************************************************************************)
Readable == conn = "open" /\ pending = <<>> /\ wire # <<>> /\ Len(buf) < BufCap

ReadFairness == []<>~Readable \/ []<><<ReadAny>>_vars

Spec == Init /\ [][Next]_vars /\ ReadFairness /\ WF_vars(WriteAny) /\ WF_vars(RecvAny)

-----------------------------------------------------------------------------

TypeOK ==
    /\ sent \in Seq(Kinds) /\ Len(sent) <= MaxRequests
    /\ Len(buf) <= BufCap
    /\ Len(served) <= Len(sent)
    /\ Len(out) <= SndCap
    /\ conn \in {"open", "closed", "crashed"}

(***************************************************************************)
(* Spec 4.6: the parser is given the whole request and callers treat       *)
(* "needs more data" as partial and never synthesize a request. Every      *)
(* request handleRead passes on is, field by field, the one the client     *)
(* sent in that position, however TCP cut the bytes: ParseRequest on a     *)
(* growing buffer and the reset of readOffset after each request.          *)
(***************************************************************************)
NoSynthesizedRequest ==
    \A i \in 1..Len(served) : served[i] = Expected(sent[i])

(***************************************************************************)
(* Spec 7: no request crashes anything above its connection. The parser,   *)
(* run by the event loop on whatever bytes have arrived, never panics.     *)
(***************************************************************************)
NoParserPanic == conn # "crashed"

(***************************************************************************)
(* Spec 6: a response carries a Content-Length. Every response the client *)
(* can frame is, byte for byte, the buffer the handler of the request it   *)
(* answers built: the buffer is reset after each request, writeResponse's  *)
(* partial writes resume where they stopped, appendInt writes every digit  *)
(* of the length, and no other bytes get between the responses. With      *)
(* Pipelined FALSE one request is in flight at a time, so this says        *)
(* nothing of their order; pipelining is MC_RequestReader_pipelined.cfg.   *)
(***************************************************************************)
ResponsesByteExact ==
    LET fs == Frames(rcvd)
    IN \A i \in 1..Len(fs) :
          /\ i <= Len(sent)
          /\ RouteOf(Expected(sent[i])) \in DOMAIN Routes
          /\ fs[i] = Handle(Routes[RouteOf(Expected(sent[i]))])

(***************************************************************************)
(* Every request the client has written is eventually answered with a      *)
(* response it can frame, or the connection is closed (a request larger    *)
(* than the buffer is refused with 400): handleRead's wait for more data   *)
(* and writeResponse's EAGAIN loop both end.                               *)
(***************************************************************************)
RequestsAnswered ==
    \A i \in 1..MaxRequests :
        Len(sent) >= i ~> (Len(Frames(rcvd)) >= i \/ conn # "open")

=============================================================================
