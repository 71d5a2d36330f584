------------------------------ MODULE FDContext ------------------------------
(***************************************************************************)
(* The response side of a request: appendInt and statusText (parser.go),   *)
(* FDContext's writers String, JSON, Bytes, Data, Error and Success        *)
(* (context_fd.go), which build the whole response in responseBuf, and    *)
(* the engine's sendError (part_007). Tokens are those of HttpParser,      *)
(* except that a number is written one digit token at a time, as appendInt *)
(* writes it, and a body is a sequence of byte tokens, so that its length  *)
(* is the Content-Length a client expects.                                 *)
(***************************************************************************)
EXTENDS HttpParser

CONSTANT Ints  \* the values appendInt is checked on

DigitTok == <<"0", "1", "2", "3", "4", "5", "6", "7", "8", "9">>

(***************************************************************************)
(* appendInt (parser.go 508-539) for i >= 0: count the digits, then fill   *)
(* them in from the right, i % 10 at a time. Lengths and status codes are  *)
(* never negative, so the '-' branch is not reached.                       *)
(***************************************************************************)
RECURSIVE DigitCount(_)
DigitCount(i) == IF i = 0 THEN 0 ELSE 1 + DigitCount(i \div 10)

\* Mutant: the digit loop stops one short (for tmp >= 10).
appendInt_shortCount(b, i) ==
    IF i = 0 THEN Append(b, "0")
    ELSE LET d == DigitCount(i \div 10)
         IN b \o [j \in 1..d |-> DigitTok[((i \div 10^(d - j)) % 10) + 1]]

appendInt(b, i) ==
    IF i = 0 THEN Append(b, "0")
    ELSE LET d == DigitCount(i)
         IN b \o [j \in 1..d |-> DigitTok[((i \div 10^(d - j)) % 10) + 1]]

\* statusText (parser.go 542-557); a reason phrase of two words is two
\* tokens around an SP.
statusText(code) ==
    CASE code = 200 -> <<"OK">>
      [] code = 201 -> <<"Created">>
      [] code = 400 -> <<"Bad", SP, "Request">>
      [] code = 404 -> <<"Not", SP, "Found">>
      [] code = 500 -> <<"Internal", SP, "Server", SP, "Error">>
      [] OTHER      -> <<"Unknown">>

\* The status line String, JSON, Bytes and Data all begin with.
StatusLine(code) ==
    <<"HTTP/1.1", SP>> \o appendInt(<<>>, code) \o <<SP>> \o statusText(code) \o <<CR, LF>>

(***************************************************************************)
(* FDContext.Data (context_fd.go 211-234): responseBuf is reset and filled *)
(* with the status line, Content-Type: contentType, Content-Length and the *)
(* body; it is then written by writeResponse. contentType is copied as it  *)
(* is, so a CR LF in it ends the header line early.                        *)
(***************************************************************************)
Data(code, contentType, data) ==
    StatusLine(code)
    \o <<"Content-Type", ":", SP>> \o contentType \o <<CR, LF>>
    \o <<"Content-Length", ":", SP>> \o appendInt(<<>>, Len(data)) \o <<CR, LF, CR, LF>>
    \o data

\* FDContext.String (133-154) and Bytes (187-208): the same buffer with a
\* fixed Content-Type.
String(code, s) == Data(code, <<"text/plain">>, s)

Bytes(code, data) == Data(code, <<"application/octet-stream">>, data)

(***************************************************************************)
(* json.Marshal is abstracted to its outcome: a value is [ok, json], the   *)
(* encoding when ok, and a value it cannot encode (a channel, a function,  *)
(* a cyclic pointer) when not. FDContext.JSON (157-184) answers a failure  *)
(* with c.Error(500, "Failed to marshal JSON") and returns; Error's map    *)
(* of an int and a string always encodes, so that call is written out in  *)
(* JSON's failure branch.                                                  *)
(***************************************************************************)
\* The encoding of map{"code": code, "message": message}: Marshal sorts keys.
ErrorJSON(code, message) ==
    <<"{", "code", ":">> \o appendInt(<<>>, code) \o <<",", "message", ":">> \o message \o <<"}">>

JSON(code, v) ==
    IF v.ok THEN Data(code, <<"application/json">>, v.json)
    ELSE Data(500, <<"application/json">>, ErrorJSON(500, <<"Failed to marshal JSON">>))

\* FDContext.Error (237-242).
Error(code, message) == JSON(code, [ok |-> TRUE, json |-> ErrorJSON(code, message)])

\* FDContext.Success (245-251): map{"code": 0, "data": data, "message":
\* "success"}, which encodes exactly when data does.
Success(v) ==
    JSON(200, [ok |-> v.ok,
               json |-> <<"{", "code", ":", "0", ",", "data", ":">> \o v.json
                        \o <<",", "message", ":", "success", "}">>])

(***************************************************************************)
(* A handler calls one of the writers. A handler is [writer, code, ctype,  *)
(* value]: value is a json.Marshal outcome, whose json is also the bytes   *)
(* String, Bytes and Data send and the message Error sends.                *)
(***************************************************************************)
Handle(h) ==
    CASE h.writer = "String"  -> String(h.code, h.value.json)
      [] h.writer = "Bytes"   -> Bytes(h.code, h.value.json)
      [] h.writer = "Data"    -> Data(h.code, h.ctype, h.value.json)
      [] h.writer = "JSON"    -> JSON(h.code, h.value)
      [] h.writer = "Error"   -> Error(h.code, h.value.json)
      [] h.writer = "Success" -> Success(h.value)

(***************************************************************************)
(* Engine.sendError (part_007 387-395): the status code and message and an *)
(* empty line, with no header at all.                                      *)
(***************************************************************************)
sendError(code) ==
    <<"HTTP/1.1", SP>> \o appendInt(<<>>, code) \o <<SP>> \o statusText(code) \o <<CR, LF, CR, LF>>

-----------------------------------------------------------------------------
(***************************************************************************)
(* The per-request state of an FDContext the engine reuses: the route      *)
(* parameters, four inline (paramKeys, paramValues, paramCount) and the    *)
(* rest in paramMapOverflow, the response headers, statusCode and aborted  *)
(* (context_fd.go 17-28). fd, request and responseBuf are left out: Reset  *)
(* overwrites the first two and every writer rebuilds the third. A map is  *)
(* a function; a nil map and an empty one read alike.                      *)
(***************************************************************************)
NoParams == [i \in 1..4 |-> ""]

\* NewFDContext (33-41) as the pool's New makes it.
NewFDContext ==
    [keys |-> NoParams, values |-> NoParams, count |-> 0, overflow |-> <<>>,
     headers |-> <<>>, status |-> 200, aborted |-> FALSE]

\* FDContext.SetParam (100-111): the next inline slot while one is free,
\* else the overflow map.
SetParam(c, key, value) ==
    IF c.count < 4
    THEN [c EXCEPT !.keys[c.count + 1] = key, !.values[c.count + 1] = value,
                   !.count = @ + 1]
    ELSE [c EXCEPT !.overflow = (key :> value) @@ @]

\* FDContext.Param (51-62): the first inline slot with the key, then the
\* overflow map, then "".
Param(c, key) ==
    LET hits == {i \in 1..c.count : c.keys[i] = key}
    IN IF hits # {} THEN c.values[Min(hits)]
       ELSE IF key \in DOMAIN c.overflow THEN c.overflow[key] ELSE ""

\* FDContext.Reset (298-322): paramCount to 0, every key of the overflow
\* map and of responseHeaders deleted, statusCode 200, aborted cleared.
Reset(c) ==
    [c EXCEPT !.count = 0, !.overflow = <<>>, !.headers = <<>>, !.status = 200,
              !.aborted = FALSE]

\* processRequest (part_007 372-378): a pooled context is Reset and given
\* the router's params, a map, in the order Go's range visits it.
BindParams(c, params) ==
    FoldLeft(LAMBDA acc, kv : SetParam(acc, kv[1], kv[2]), Reset(c), params)

(***************************************************************************)
(* Spec 3 and 4: Param searches the inline slots, then the overflow; a     *)
(* handler reads, for each key, the value the router bound for this        *)
(* request, and "" for a key it did not bind, whatever request the pooled  *)
(* context served before and in whatever order range visits the map.      *)
(* Checked for every earlier binding of Olds and every binding, in every   *)
(* order, of a subset of Keys.                                             *)
(***************************************************************************)
ParamsBound(Keys, Olds) ==
    \A old \in Olds, order \in SetToAllKPermutations(Keys) :
        LET c == BindParams(BindParams(NewFDContext, [i \in 1..Len(old) |-> <<old[i], "old">>]),
                            [i \in 1..Len(order) |-> <<order[i], "new">>])
        IN \A k \in Keys : Param(c, k) = IF k \in Range(order) THEN "new" ELSE ""

-----------------------------------------------------------------------------
(***************************************************************************)
(* A client's reading of responses (spec section 6): a status line, header *)
(* lines up to an empty line, and exactly Content-Length body bytes; with  *)
(* no Content-Length the body runs to the end of the connection.           *)
(***************************************************************************)

\* The decimal value of a run of digit tokens.
Decimal(ds) ==
    FoldLeft(LAMBDA acc, t : acc * 10 + (CHOOSE k \in 0..9 : DigitTok[k + 1] = t), 0, ds)

\* The value of the Content-Length line of a header block, -1 if none.
ContentLength(head) ==
    LET k == IndexSeq(head, <<LF, "Content-Length", ":", SP>>)
        v == Drop(head, k + 3)
    IN IF k = 0 THEN -1 ELSE Decimal(Take(v, IndexByte(v, CR) - 1))

\* The status code of a response.
StatusCode(f) == Decimal(Take(Drop(f, 2), 3))

\* The complete responses with a Content-Length at the front of s.
RECURSIVE Frames(_)
Frames(s) ==
    LET e == IndexSeq(s, <<CR, LF, CR, LF>>)
        n == ContentLength(Take(s, e + 1))
    IN IF e = 0 \/ n < 0 \/ Len(s) < e + 3 + n THEN <<>>
       ELSE <<Take(s, e + 3 + n)>> \o Frames(Drop(s, e + 3 + n))

\* The body of a complete response.
BodyOf(f) == Drop(f, IndexSeq(f, <<CR, LF, CR, LF>>) + 3)

(***************************************************************************)
(* appendInt writes a number's decimal digits, most significant first, as  *)
(* Content-Length and the status code need them: read back as a decimal    *)
(* number, appendInt(<<>>, i) is i for every i of Ints. Its digit count    *)
(* and its fill from the right (parser.go 518-535) must agree.             *)
(***************************************************************************)
(***************************************************************************)
(* Each FDContext writer builds one whole response: a client reads the     *)
(* buffer as exactly one response, with nothing left over or missing (its  *)
(* Content-Length is the length of the body that follows), with the       *)
(* handler's status, or 500 when JSON's or Success's value does not        *)
(* encode, and with the Content-Type the writer names.                     *)
(***************************************************************************)
WritersFramed(hs) ==
    \A h \in hs :
        LET r == Handle(h)
            failed == h.writer \in {"JSON", "Success"} /\ ~h.value.ok
            ctype == CASE h.writer = "String" -> <<"text/plain">>
                       [] h.writer = "Bytes"  -> <<"application/octet-stream">>
                       [] h.writer = "Data"   -> h.ctype
                       [] OTHER               -> <<"application/json">>
        IN /\ Frames(r) = <<r>>
           /\ StatusCode(r) = IF failed THEN 500 ELSE h.code
           /\ IndexSeq(r, <<LF, "Content-Type", ":", SP>> \o ctype \o <<CR, LF>>) > 0

AppendIntDecimal == \A i \in Ints : Decimal(appendInt(<<>>, i)) = i

=============================================================================
