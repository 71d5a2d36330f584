------------------------------- MODULE MC_Hub -------------------------------
(* Two clients: enough for one to be slow while another is served, and for *)
(* a room member to be closed while the room is broadcast to.              *)
EXTENDS Hub, WsFrame, TLC

CONSTANTS a, b

MC_Clients == {a, b}

\* Clients are interchangeable: the hub treats every client alike.
MC_Symmetry == Permutations(MC_Clients)

(***************************************************************************)
(* The frame codec the clients' connections speak (WsFrame), checked on    *)
(* bounded inputs before the first state: payloads of zero to two bytes,   *)
(* lengths at each boundary of the three length forms and past the limit,  *)
(* keys that do and do not change bytes, and messages of up to three       *)
(* fragments with no, one or two control frames before each.               *)
(***************************************************************************)
MC_Payloads == {<<>>, <<0>>, <<255>>, <<1, 128>>}
MC_Ops == {OpContinuation, OpText, OpBinary, OpClose, OpPing, OpPong}
MC_Frames == [fin : BOOLEAN, op : MC_Ops, payload : MC_Payloads]
MC_Tails == {<<>>, <<129, 0>>}
MC_Lens == {0, 125, 126, 127, 65535, 65536, 1048576, 1048577}
MC_Keys == {<<0, 0, 0, 0>>, <<255, 1, 128, 7>>}
MC_FragLists == {<<<<1>>>>, <<<<>>, <<2>>>>, <<<<1, 2>>, <<>>, <<3>>>>}
MC_Controls ==
    {<<>>, <<[fin |-> TRUE, op |-> OpPing, payload |-> <<7>>]>>,
     <<[fin |-> TRUE, op |-> OpPong, payload |-> <<>>],
       [fin |-> TRUE, op |-> OpPing, payload |-> <<8, 9>>]>>}

ASSUME FrameRoundTrip(MC_Frames, MC_Tails)
ASSUME LengthRoundTrip(MC_Lens)
ASSUME MaskedRoundTrip(MC_Payloads, MC_Keys)
ASSUME MessageAssembly(DataOps, MC_FragLists, MC_Controls)
=============================================================================
