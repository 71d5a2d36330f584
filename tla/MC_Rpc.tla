------------------------------- MODULE MC_Rpc -------------------------------
(* Two callers: one call can be answered while the other is in flight,    *)
(* pending when Close runs, or timed out.                                  *)
EXTENDS Rpc, TLC

CONSTANTS p1, p2

MC_Callers == {p1, p2}

(***************************************************************************)
(* One service, Arith, with a method of the documented signature (Add), an *)
(* unexported one of the same signature (mul), one whose reply is not a    *)
(* pointer (Quo), and one whose context parameter is a concrete type that  *)
(* implements context.Context (WithCtx).                                   *)
(***************************************************************************)
ArgsPtr  == Type("ptr", {})
ReplyVal == Type("struct", {})
MyCtx    == Type("ptr", {CtxIface})

Add     == MethodDecl("Add", TRUE, <<ContextType, ArgsPtr>>, <<ArgsPtr, ErrorType>>)
mul     == MethodDecl("mul", FALSE, <<ContextType, ArgsPtr>>, <<ArgsPtr, ErrorType>>)
Quo     == MethodDecl("Quo", TRUE, <<ContextType, ArgsPtr>>, <<ReplyVal, ErrorType>>)
WithCtx == MethodDecl("WithCtx", TRUE, <<MyCtx, ArgsPtr>>, <<ArgsPtr, ErrorType>>)

MC_Services == <<[name |-> "Arith", methods |-> {Add, mul, Quo, WithCtx}]>>

Call(m) == [svc |-> "Arith", meth |-> m]

\* p1 calls Add; p2 pings, or calls the unexported mul, or WithCtx.
MC_Targets == p1 :> {Call("Add")} @@ p2 :> {NoTarget, Call("mul"), Call("WithCtx")}

-----------------------------------------------------------------------------
(* The byte framing of RpcProtocol, checked before the first state. *)

Run(n, b) == <<[n |-> n, b |-> b]>>

With(f, meta, payload) == [f EXCEPT !.metadata = meta, !.payload = payload]

\* Frames the client and server write: a request with service/method
\* metadata, replies of the shortest and the longest payload a uint16
\* holds, a ping, and ids 0 and 2^31 - 1 (TLC's integers stop there; a
\* uint32 id with the top bit set is not checked).
MC_WireFrames == {
    With(NewFrame(TypeRequest, 1), Run(3, 65), Run(2, 123)),
    With(NewFrame(TypeResponse, 2147483647), <<>>, Run(65535, 7)),
    With(NewFrame(TypeError, 0), <<>>, Run(1, 82)),
    NewFrame(TypePing, 2)}

ASSUME FramesRoundTrip({<<f, g>> : f, g \in MC_WireFrames})

(***************************************************************************)
(* Encode writes uint16(len): a reply of 65536 bytes goes out with a       *)
(* payload length of 0. The reader takes a reply with an empty payload for *)
(* that request, then parses the payload's first 16 bytes as the next     *)
(* header, finds no magic, and closes the connection.                      *)
(***************************************************************************)
Oversized == With(NewFrame(TypeResponse, 1), <<>>, Run(65536, 7))

ASSUME ReadFrames(Written(<<Oversized, NewFrame(TypePong, 2)>>))
         = [frames |-> <<With(Oversized, <<>>, <<>>)>>, end |-> ErrInvalidMagic]

=============================================================================
