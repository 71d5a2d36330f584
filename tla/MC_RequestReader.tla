------------------------- MODULE MC_RequestReader -------------------------
EXTENDS RequestReader

Req(lead, m, p, q, proto, h, b, eol) ==
    [lead |-> lead, method |-> m, path |-> p, query |-> q, proto |-> proto,
     header |-> h, body |-> b, eol |-> eol]

Host == <<"Host", "x">>
Close == <<"Connection", "close">>

\* The requests of the spec's scenarios: a GET with a query, a POST that
\* asks to close, and one longer than the buffer.
MC_Kinds == {
    Req(<<>>, "GET", "/a", <<<<"q", <<"v">>>>>>, "HTTP/1.1", <<Host>>, <<>>, "crlf"),
    Req(<<>>, "POST", "/", <<>>, "HTTP/1.1", <<Host, Close>>, <<>>, "crlf"),
    Req(<<>>, "GET", "/a", <<<<"q", <<"v">>>>, <<"q", <<>>>>>>, "HTTP/1.1",
        <<Host, Close>>, <<>>, "crlf")}

\* A json.Marshal outcome: the encoding, or a value that does not encode.
Enc(json) == [ok |-> TRUE, json |-> json]
Unencodable == [ok |-> FALSE, json |-> <<>>]

H(writer, code, ctype, value) == [writer |-> writer, code |-> code, ctype |-> ctype, value |-> value]

\* The handler registered for GET /a sends JSON with a two-byte encoding;
\* nothing else is routed, so POST / is answered by sendError(404).
MC_Routes == <<"GET", "/a">> :> H("JSON", 200, <<>>, Enc(<<"[", "]">>))

\* Every writer, on bodies of zero, one and two-digit lengths and on a value
\* json.Marshal refuses.
Ten == [i \in 1..10 |-> "b"]
MC_Handlers == {
    H("String", 200, <<>>, Enc(<<>>)), H("String", 404, <<>>, Enc(Ten)),
    H("Bytes", 201, <<>>, Enc(<<"b">>)), H("Data", 200, <<"text/html">>, Enc(Ten)),
    H("JSON", 201, <<>>, Enc(<<"[", "]">>)), H("JSON", 200, <<>>, Unencodable),
    H("Error", 400, <<>>, Enc(<<"bad">>)),
    H("Success", 200, <<>>, Enc(<<"1">>)), H("Success", 200, <<>>, Unencodable)}

\* The values appendInt is checked on: every length of up to three digits.
MC_Ints == 0..999

\* A request preceded by the empty line RFC 7230 3.5 lets a client send,
\* ended by LF alone.
MC_LeadKinds ==
    {Req(<<LF>>, "GET", "/", <<>>, "HTTP/1.1", <<Host>>, <<>>, "lf")}

\* Spec scenario 4: GET / sent twice without waiting for the first answer.
MC_PipelinedKinds ==
    {Req(<<>>, "GET", "/", <<>>, "HTTP/1.1", <<Host>>, <<>>, "crlf")}

\* A POST whose body is two tokens, announced by Content-Length.
MC_BodyKinds ==
    {Req(<<>>, "POST", "/", <<>>, "HTTP/1.1", <<Host, <<"Content-Length", "2">>>>,
         <<"b1", "b2">>, "crlf")}

\* An HTTP/1.0 request with no header lines: the request line and the empty line.
MC_BareKinds ==
    {Req(<<>>, "GET", "/", <<>>, "HTTP/1.0", <<>>, <<>>, "crlf")}

\* appendInt writes every number of Ints in decimal (FDContext): a property
\* of constants alone, so TLC checks it once, before the first state.
ASSUME AppendIntDecimal

\* Route parameters: five keys, one more than the inline slots, and earlier
\* requests that bound none, four, or all five of them in two orders.
MC_ParamKeys == {"k1", "k2", "k3", "k4", "k5"}
MC_OldParams == {<<>>, <<"k1", "k2", "k3", "k4">>, <<"k1", "k2", "k3", "k4", "k5">>,
                 <<"k5", "k4", "k3", "k2", "k1">>}

\* A handler reads the params of its own request (FDContext, processRequest).
ASSUME ParamsBound(MC_ParamKeys, MC_OldParams)

\* Each writer's buffer is read by a client as one whole response (FDContext).
ASSUME WritersFramed(MC_Handlers)

=============================================================================
