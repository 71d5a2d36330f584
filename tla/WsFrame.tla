------------------------------- MODULE WsFrame -------------------------------
(***************************************************************************)
(* The WebSocket frame codec of core/websocket/conn.go, as operators:      *)
(* WriteFrame's bytes, readFrame's parse of a byte stream, and             *)
(* ReadMessage's assembly of frames into one message. A byte is a number   *)
(* in 0..255 and a payload a sequence of bytes. TLC's integers stop at     *)
(* 2^31, so a 64-bit length is kept as its eight bytes, and only its value *)
(* when the top four bytes are zero.                                       *)
(***************************************************************************)
EXTENDS Integers, Sequences, SequencesExt, Bitwise

OpContinuation == 0
OpText         == 1
OpBinary       == 2
OpClose        == 8
OpPing         == 9
OpPong         == 10

DataOps == {OpText, OpBinary}

\* NewConn and Upgrade: maxMessageSize = 1024 * 1024 (conn.go 61, 326).
DefaultMaxMessageSize == 1024 * 1024

\* binary.BigEndian.PutUint16 / PutUint64: n in k bytes, most significant first.
RECURSIVE BigEndian(_, _)
BigEndian(n, k) ==
    IF k = 0 THEN <<>> ELSE BigEndian(n \div 256, k - 1) \o <<n % 256>>

\* binary.BigEndian.Uint16 / Uint64 of bytes whose value fits.
BytesValue(bs) == FoldLeft(LAMBDA acc, b : acc * 256 + b, 0, bs)

(***************************************************************************)
(* WriteFrame (conn.go 207-236): FIN and the opcode in the first byte, the *)
(* length in 7 bits, or 126 and 16 bits, or 127 and 64 bits, then the      *)
(* payload, unmasked.                                                      *)
(***************************************************************************)
LengthField(n) ==
    IF n < 126 THEN <<n>>
    ELSE IF n < 65536 THEN <<126>> \o BigEndian(n, 2)
    ELSE <<127>> \o BigEndian(n, 8)

WriteHeader(fin, op, n) ==
    <<op + (IF fin THEN 128 ELSE 0)>> \o LengthField(n)

EncodeFrame(f) == WriteHeader(f.fin, f.op, Len(f.payload)) \o f.payload

\* readFrame's errors: the stream ends inside a frame, or the length is over the limit.
Short    == "unexpected EOF"
TooLarge == "message too large"

Fail(err) == [err |-> err]

(***************************************************************************)
(* readFrame's header (conn.go 129-157): FIN, the opcode, MASK and the     *)
(* 7-bit length, then the extended length. int64(Uint64(ext)) is negative  *)
(* when the top bit is set (len = -1 stands for every such value); with    *)
(* another of the top 32 bits set it is above any maxMessageSize, and the  *)
(* header is rejected as too large. The check is payloadLen >              *)
(* maxMessageSize, so a negative length passes it.                         *)
(***************************************************************************)
ReadHeader(s, maxSize) ==
    IF Len(s) < 2 THEN Fail(Short)
    ELSE
    LET len7   == s[2] % 128
        extLen == CASE len7 = 126 -> 2 [] len7 = 127 -> 8 [] OTHER -> 0
        ext    == SubSeq(s, 3, 2 + extLen)
        huge   == len7 = 127 /\ SubSeq(ext, 1, 4) # <<0, 0, 0, 0>>
        plen   == CASE len7 < 126    -> len7
                    [] len7 = 126    -> BytesValue(ext)
                    [] ext[1] >= 128 -> -1
                    [] huge          -> maxSize + 1
                    [] OTHER         -> BytesValue(SubSeq(ext, 5, 8))
    IN  IF Len(s) < 2 + extLen THEN Fail(Short)
        ELSE IF plen > maxSize THEN Fail(TooLarge)
        ELSE [err |-> "", fin |-> s[1] >= 128, op |-> s[1] % 16, masked |-> s[2] >= 128,
              len |-> plen, at |-> 3 + extLen]

\* The payload XORed with the masking key, byte i with key[i % 4] (conn.go 173-177).
Unmask(p, key) ==
    IF key = <<>> THEN p ELSE [i \in 1..Len(p) |-> p[i] ^^ key[((i - 1) % 4) + 1]]

(***************************************************************************)
(* readFrame (conn.go 128-181): the header, the masking key when MASK is   *)
(* set, and the payload only when payloadLen > 0. The result is the frame  *)
(* and what is left of the stream.                                         *)
(***************************************************************************)
readFrame(s, maxSize) ==
    LET h == ReadHeader(s, maxSize)
    IN  IF h.err # "" THEN h
        ELSE
        LET keyLen == IF h.masked THEN 4 ELSE 0
            key    == SubSeq(s, h.at, h.at + keyLen - 1)
            pAt    == h.at + keyLen
            n      == IF h.len > 0 THEN h.len ELSE 0
        IN  IF Len(s) < pAt - 1 + n THEN Fail(Short)
            ELSE [err   |-> "",
                  frame |-> [fin |-> h.fin, op |-> h.op,
                             payload |-> Unmask(SubSeq(s, pAt, pAt + n - 1), key)],
                  rest  |-> SubSeq(s, pAt + n, Len(s))]

(***************************************************************************)
(* ReadMessage (conn.go 69-126) on the frames the peer sends, in order. A  *)
(* data frame with FIN is the message; one without starts the fragments,  *)
(* and continuations add to them up to one with FIN. A ping is answered by *)
(* a pong with its payload, written from the reading goroutine; a pong is  *)
(* skipped; a close frame closes the connection and reads as EOF. The      *)
(* result also lists the pongs written on the way.                         *)
(***************************************************************************)
Outcome(result, op, payload, pongs) ==
    [result |-> result, op |-> op, payload |-> payload, pongs |-> pongs]

RECURSIVE Assemble(_, _, _, _)
Assemble(fs, op, frags, pongs) ==
    IF fs = <<>> THEN Outcome("eof", op, <<>>, pongs)
    ELSE
    LET f == Head(fs)
    IN  CASE f.op \in DataOps /\ f.fin ->
                 Outcome("message", f.op, f.payload, pongs)
          [] f.op \in DataOps ->
                 Assemble(Tail(fs), f.op, Append(frags, f.payload), pongs)
          [] f.op = OpContinuation /\ f.fin ->
                 Outcome("message", op, FlattenSeq(Append(frags, f.payload)), pongs)
          [] f.op = OpContinuation ->
                 Assemble(Tail(fs), op, Append(frags, f.payload), pongs)
          [] f.op = OpPing ->
                 Assemble(Tail(fs), op, frags, Append(pongs, f.payload))
          [] f.op = OpPong ->
                 Assemble(Tail(fs), op, frags, pongs)
          [] f.op = OpClose ->
                 Outcome("closed", op, <<>>, pongs)
          [] OTHER ->
                 Outcome("unknown opcode", op, <<>>, pongs)

ReadMessage(fs) == Assemble(fs, OpContinuation, <<>>, <<>>)

-----------------------------------------------------------------------------
(***************************************************************************)
(* What RFC 6455 (sections 5.2 to 5.5) asks of the codec, over the given   *)
(* bounded inputs. These are constant formulas: a model checks them as     *)
(* assumptions before its first state.                                     *)
(***************************************************************************)

\* A frame WriteFrame sends is read back whole, and the stream after it is untouched.
FrameRoundTrip(Frames, Tails) ==
    \A f \in Frames, t \in Tails :
        readFrame(EncodeFrame(f) \o t, DefaultMaxMessageSize) = [err |-> "", frame |-> f, rest |-> t]

\* Every length WriteFrame can encode is read back as itself, at every
\* boundary of the 7-, 16- and 64-bit forms, or rejected when over the limit.
LengthRoundTrip(Lens) ==
    \A n \in Lens, fin \in BOOLEAN :
        LET hd == WriteHeader(fin, OpBinary, n)
            h  == ReadHeader(hd, DefaultMaxMessageSize)
        IN  IF n > DefaultMaxMessageSize THEN h.err = TooLarge
            ELSE h = [err |-> "", fin |-> fin, op |-> OpBinary, masked |-> FALSE,
                      len |-> n, at |-> Len(hd) + 1]

\* A client's frame: MASK set, the key after the length, the payload XORed with it.
MaskedFrame(p, key) ==
    <<128 + OpText, 128 + Len(p)>> \o key
        \o [i \in 1..Len(p) |-> p[i] ^^ key[((i - 1) % 4) + 1]]

\* A masked frame is unmasked to the payload the client meant.
MaskedRoundTrip(Payloads, Keys) ==
    \A p \in Payloads, key \in Keys :
        readFrame(MaskedFrame(p, key), DefaultMaxMessageSize)
            = [err |-> "", frame |-> [fin |-> TRUE, op |-> OpText, payload |-> p], rest |-> <<>>]

\* A message sent as fragments ps, with the control frames cs[i] before fragment i.
Fragment(op, ps, i) ==
    [fin |-> i = Len(ps), op |-> IF i = 1 THEN op ELSE OpContinuation, payload |-> ps[i]]

MessageFrames(op, ps, cs) ==
    FlattenSeq([i \in 1..Len(ps) |-> cs[i] \o <<Fragment(op, ps, i)>>])

\* The payloads of the pings among control frames, in order.
PingPayloads(cs) ==
    LET all == FlattenSeq(cs)
    IN  [i \in 1..Len(SelectSeq(all, LAMBDA c : c.op = OpPing)) |->
            SelectSeq(all, LAMBDA c : c.op = OpPing)[i].payload]

\* A well-formed message, with pings and pongs between its fragments, is
\* read as its opcode and the concatenation of its fragments, and every
\* ping before its last fragment is answered by a pong with its payload.
MessageAssembly(Ops, FragLists, Controls) ==
    \A op \in Ops, ps \in FragLists :
        \A cs \in [1..Len(ps) -> Controls] :
            ReadMessage(MessageFrames(op, ps, cs))
                = Outcome("message", op, FlattenSeq(ps), PingPayloads(cs))

=============================================================================
