------------------------------ MODULE RpcProtocol ------------------------------
(***************************************************************************)
(* The pure parts of the RPC server, as operators: the service registry    *)
(* (core/rpc/registry) and the wire format (package protocol).             *)
(***************************************************************************)
EXTENDS Naturals, Sequences, SequencesExt, TLC

(***************************************************************************)
(* The service registry of core/rpc/registry/service.go, as operators.     *)
(* reflect is abstracted to what Register and Call look at: a type is its  *)
(* kind and the interfaces it implements, and a method is its name,        *)
(* whether it is exported, and the types of its parameters (receiver left  *)
(* out) and results.                                                       *)
(***************************************************************************)

CtxIface == "context.Context"
ErrIface == "error"

\* reflect.Type of a parameter or result: its Kind and the interfaces it implements.
Type(kind, impls) == [kind |-> kind, impls |-> impls]

\* The interface types themselves (an interface implements itself).
ContextType == Type("interface", {CtxIface})
ErrorType   == Type("interface", {ErrIface})

MethodDecl(name, exported, ins, outs) ==
    [name |-> name, exported |-> exported, ins |-> ins, outs |-> outs]

ServiceNotFound == "service not found"
MethodNotFound  == "method not found"

NoMethod == MethodDecl("", FALSE, <<>>, <<>>)

(***************************************************************************)
(* Register's scan of one method (service.go 62-106): exported (PkgPath    *)
(* empty), receiver and two parameters, two results, the first parameter   *)
(* implements context.Context, the second is a pointer, the first result   *)
(* is a pointer and the second implements error.                           *)
(***************************************************************************)
\* Mutant: the PkgPath check is left out.
Accepted_anyPkg(m) ==
    /\ Len(m.ins) = 2 /\ Len(m.outs) = 2
    /\ CtxIface \in m.ins[1].impls
    /\ m.ins[2].kind = "ptr"
    /\ m.outs[1].kind = "ptr"
    /\ ErrIface \in m.outs[2].impls

Accepted(m) ==
    /\ m.exported
    /\ Len(m.ins) = 2 /\ Len(m.outs) = 2
    /\ CtxIface \in m.ins[1].impls
    /\ m.ins[2].kind = "ptr"
    /\ m.outs[1].kind = "ptr"
    /\ ErrIface \in m.outs[2].impls

(***************************************************************************)
(* Register(serviceName, service) (service.go 49-110): the service's       *)
(* method table is the accepted methods by name, and it replaces any       *)
(* service registered before under that name. A service is [name, methods].*)
(***************************************************************************)
Register(reg, svc) ==
    LET ok == {m \in svc.methods : Accepted(m)}
    IN  (svc.name :> [n \in {m.name : m \in ok} |-> CHOOSE m \in ok : m.name = n]) @@ reg

\* NewRegistry, then Register for each service in order.
Registry(services) == FoldLeft(Register, <<>>, services)

\* GetService and GetMethod (service.go 113-137): the method, or the error.
GetMethod(reg, service, method) ==
    IF service \notin DOMAIN reg THEN [err |-> ServiceNotFound, method |-> NoMethod]
    ELSE IF method \notin DOMAIN reg[service] THEN [err |-> MethodNotFound, method |-> NoMethod]
    ELSE [err |-> "", method |-> reg[service][method]]

(***************************************************************************)
(* Call (service.go 140-156) hands method.Func.Call the registered value,  *)
(* context.Background() and the decoded argument. The argument is built by *)
(* reflect.New(method.ArgType), so the type check passes; the context is   *)
(* assignable only to an interface parameter, and a parameter of a         *)
(* concrete type that implements context.Context makes Call panic.         *)
(***************************************************************************)
CallPanics(m) == m.ins[1].kind # "interface"

-----------------------------------------------------------------------------
(***************************************************************************)
(* The RPC wire format of package protocol (part_016 1-198) and the loop   *)
(* that reads it off a connection (handleConn, server.go 126-163; the      *)
(* client's receive, client.go 161-200, reads the same way). A frame is a  *)
(* 16-byte header, the metadata and the payload.                           *)
(*                                                                         *)
(* A byte stream is a sequence of runs [n, b], n copies of byte b, so that *)
(* a payload of 65536 bytes is one run; the header is always written and   *)
(* read as explicit bytes. Metadata and payload contents are kept as runs  *)
(* too: after a length goes wrong they are what the reader parses next.    *)
(***************************************************************************)

Magic      == 1380991744   \* 0x52504300, "RPC\0"
Version    == 1
HeaderSize == 16

TypeRequest  == 1
TypeResponse == 2
TypeError    == 6
TypePing     == 7
TypePong     == 8

ErrInvalidMagic   == "invalid magic number"
ErrInvalidVersion == "unsupported protocol version"
ErrShort          == "buffer too small"

-----------------------------------------------------------------------------
(* Byte streams as runs. *)

Bytes(seq) == [i \in 1..Len(seq) |-> [n |-> 1, b |-> seq[i]]]

StreamLen(st) == FoldLeft(LAMBDA acc, r : acc + r.n, 0, st)

\* The first k bytes of a stream, and the stream after them.
RECURSIVE RunTake(_, _)
RunTake(st, k) ==
    IF k = 0 \/ st = <<>> THEN <<>>
    ELSE IF Head(st).n <= k THEN <<Head(st)>> \o RunTake(Tail(st), k - Head(st).n)
    ELSE <<[Head(st) EXCEPT !.n = k]>>

RECURSIVE RunDrop(_, _)
RunDrop(st, k) ==
    IF k = 0 \/ st = <<>> THEN st
    ELSE IF Head(st).n <= k THEN RunDrop(Tail(st), k - Head(st).n)
    ELSE <<[Head(st) EXCEPT !.n = @ - k]>> \o Tail(st)

\* A short stream (a header) byte by byte.
Expand(st) == FoldLeft(LAMBDA acc, r : acc \o [i \in 1..r.n |-> r.b], <<>>, st)

\* One form for equal streams: empty runs dropped, neighbours of one byte merged.
Canon(st) ==
    FoldLeft(LAMBDA acc, r :
                IF r.n = 0 THEN acc
                ELSE IF acc # <<>> /\ Last(acc).b = r.b
                     THEN [acc EXCEPT ![Len(acc)].n = @ + r.n]
                     ELSE Append(acc, r),
             <<>>, st)

\* encoding/binary.BigEndian: PutUint16, PutUint32 and their readers.
PutUint16(v) == <<(v \div 256) % 256, v % 256>>
PutUint32(v) == <<(v \div 16777216) % 256, (v \div 65536) % 256, (v \div 256) % 256, v % 256>>
BigEndian(bs) == FoldLeft(LAMBDA acc, x : acc * 256 + x, 0, bs)

-----------------------------------------------------------------------------

\* NewFrame (part_016 69-76): magic and version set, no flags, no data.
NewFrame(typ, requestID) ==
    [magic |-> Magic, version |-> Version, type |-> typ, flags |-> 0, reserved |-> 0,
     requestID |-> requestID, metadata |-> <<>>, payload |-> <<>>]

(***************************************************************************)
(* Frame.Encode (89-117): a buffer of the whole length, the header with    *)
(* the lengths converted to uint16, then the metadata and payload.         *)
(***************************************************************************)
Encode(f) ==
    LET metaLen    == StreamLen(f.metadata)
        payloadLen == StreamLen(f.payload)
    IN Bytes(PutUint32(f.magic) \o <<f.version, f.type, f.flags, f.reserved>>
             \o PutUint32(f.requestID)
             \o PutUint16(metaLen % 65536) \o PutUint16(payloadLen % 65536))
       \o f.metadata \o f.payload

\* DecodeHeader (120-145) of the 16 header bytes h.
DecodeHeader(h) ==
    LET frame == [magic |-> BigEndian(SubSeq(h, 1, 4)), version |-> h[5], type |-> h[6],
                  flags |-> h[7], reserved |-> h[8], requestID |-> BigEndian(SubSeq(h, 9, 12)),
                  metadata |-> <<>>, payload |-> <<>>]
    IN CASE Len(h) < HeaderSize       -> [err |-> ErrShort, frame |-> NewFrame(0, 0)]
         [] frame.magic # Magic       -> [err |-> ErrInvalidMagic, frame |-> frame]
         [] frame.version # Version   -> [err |-> ErrInvalidVersion, frame |-> frame]
         [] OTHER                     -> [err |-> "", frame |-> frame]

\* FrameSize and GetFrameSize (184-198): the size the header announces.
FrameSize(metaLen, payloadLen) == HeaderSize + metaLen + payloadLen

GetFrameSize(h) == FrameSize(BigEndian(SubSeq(h, 13, 14)), BigEndian(SubSeq(h, 15, 16)))

\* Decode (148-181) of a whole frame's bytes.
Decode(buf) ==
    LET h          == Expand(RunTake(buf, HeaderSize))
        d          == DecodeHeader(h)
        metaLen    == BigEndian(SubSeq(h, 13, 14))
        payloadLen == BigEndian(SubSeq(h, 15, 16))
        body       == RunDrop(buf, HeaderSize)
    IN CASE StreamLen(buf) < HeaderSize                          -> [err |-> ErrShort, frame |-> NewFrame(0, 0)]
         [] d.err # ""                                          -> d
         [] StreamLen(buf) < FrameSize(metaLen, payloadLen)     -> [err |-> ErrShort, frame |-> d.frame]
         [] OTHER -> [err |-> "",
                      frame |-> [d.frame EXCEPT
                                   !.metadata = Canon(RunTake(body, metaLen)),
                                   !.payload  = Canon(RunTake(RunDrop(body, metaLen), payloadLen))]]

(***************************************************************************)
(* handleConn's read loop (server.go 126-163) over everything the peer     *)
(* wrote: io.ReadFull of the header (EOF on an empty stream, an error on a *)
(* partial one), DecodeHeader, GetFrameSize, io.ReadFull of the rest and   *)
(* Decode; any error ends the loop and closes the connection. The result  *)
(* is the frames handled, in order, and how the loop ended.               *)
(***************************************************************************)
RECURSIVE ReadFrames(_)
ReadFrames(st) ==
    IF StreamLen(st) < HeaderSize
    THEN [frames |-> <<>>, end |-> IF StreamLen(st) = 0 THEN "eof" ELSE ErrShort]
    ELSE LET h == Expand(RunTake(st, HeaderSize))
             n == GetFrameSize(h)
         IN CASE DecodeHeader(h).err # "" -> [frames |-> <<>>, end |-> DecodeHeader(h).err]
              [] StreamLen(st) < n        -> [frames |-> <<>>, end |-> ErrShort]
              [] Decode(RunTake(st, n)).err # "" -> [frames |-> <<>>, end |-> Decode(RunTake(st, n)).err]
              [] OTHER ->
                   LET rest == ReadFrames(RunDrop(st, n))
                   IN [rest EXCEPT !.frames = <<Decode(RunTake(st, n)).frame>> \o @]

\* The bytes of frames written one after another (Client.send, the server's
\* conn.Write of respFrame.Encode()).
Written(fs) == FoldLeft(LAMBDA acc, f : acc \o Encode(f), <<>>, fs)

-----------------------------------------------------------------------------

(***************************************************************************)
(* Frames of lengths the uint16 fields hold are read back as written, and  *)
(* the reader then sees a clean EOF: Encode's byte order and Decode's      *)
(* offsets agree, and each frame ends where the next begins.               *)
(***************************************************************************)
FramesRoundTrip(fss) == \A fs \in fss : ReadFrames(Written(fs)) = [frames |-> fs, end |-> "eof"]

=============================================================================
