----------------------------- MODULE HttpParser -----------------------------
(***************************************************************************)
(* The HTTP/1.1 request parser (core/http/parser.go ParseRequest,          *)
(* parseHeaders, parseQuery) and Request.SetHeader (part_004), as pure     *)
(* operators over a buffer. A buffer is a sequence of tokens: the          *)
(* separators the parser searches for (SP, CR, LF, ':', '?', '&', '=') are *)
(* tokens of their own, and every other run of bytes (a method, a path     *)
(* segment, a header name or value, a body byte) is one token. Positions   *)
(* are 1-based; a search that finds nothing gives 0.                       *)
(*                                                                         *)
(* The parse of a well-formed request is checked against Expected, the     *)
(* fields spec section 4.6 assigns to a request built from its parts.      *)
(***************************************************************************)
EXTENDS Naturals, Sequences, SequencesExt

SP == "SP"
CR == "CR"
LF == "LF"
Whitespace == {SP, CR, LF}

Take(s, k) == SubSeq(s, 1, k)
Drop(s, k) == SubSeq(s, k + 1, Len(s))

\* bytes.IndexByte: the first position of c in s.
IndexByte(s, c) == SelectInSeq(s, LAMBDA x : x = c)

\* bytes.Index: the first position at which t occurs in s.
IndexSeq(s, t) ==
    LET at == {i \in 1..(Len(s) - Len(t) + 1) : SubSeq(s, i, i + Len(t) - 1) = t}
    IN IF at = {} THEN 0 ELSE Min(at)

\* bytes.TrimSpace.
RECURSIVE TrimLeft(_)
TrimLeft(s) == IF s # <<>> /\ Head(s) \in Whitespace THEN TrimLeft(Tail(s)) ELSE s
TrimSpace(s) == Reverse(TrimLeft(Reverse(TrimLeft(s))))

\* bytes.Split.
RECURSIVE SplitOn(_, _)
SplitOn(s, c) ==
    LET k == IndexByte(s, c)
    IN IF k = 0 THEN <<s>> ELSE <<Take(s, k - 1)>> \o SplitOn(Drop(s, k), c)

\* Mutant: the CR before the LF is kept.
TrimCR_keep(line) == line

\* A line up to LF, without the LF and without one trailing CR.
TrimCR(line) == IF line # <<>> /\ Last(line) = CR THEN Front(line) ELSE line

(***************************************************************************)
(* Request.SetHeader (part_004 76-100): the six predefined names go to     *)
(* their fields and the others to ExtraHeaders; both are keyed by the      *)
(* exact name and keep the last value, which is all a function says.       *)
(***************************************************************************)
SetHeader(h, key, value) == (key :> value) @@ h

(***************************************************************************)
(* parseQuery (parser.go 119-139): split on '&', each pair on its first    *)
(* '=' (none: the value is empty), later pairs overwriting earlier ones.   *)
(***************************************************************************)
QueryPair(pair) ==
    LET e == IndexByte(pair, "=")
    IN IF e = 0 THEN <<pair, <<>>>> ELSE <<Take(pair, e - 1), Drop(pair, e)>>

parseQuery(qs) ==
    FoldLeft(LAMBDA q, pair : (QueryPair(pair)[1] :> QueryPair(pair)[2]) @@ q,
             <<>>, SplitOn(qs, "&"))

(***************************************************************************)
(* parseHeaders (parser.go 87-116): line by line up to an empty line, a    *)
(* line with a ':' after at least one byte sets its trimmed key and value. *)
(***************************************************************************)
RECURSIVE parseHeaders(_, _)
parseHeaders(h, data) ==
    IF data = <<>> THEN h
    ELSE LET e == IndexByte(data, LF)
             line == TrimCR(IF e = 0 THEN data ELSE Take(data, e - 1))
             colon == IndexByte(line, ":")
             h1 == IF colon > 1
                   THEN SetHeader(h, TrimSpace(Take(line, colon - 1)),
                                     TrimSpace(Drop(line, colon)))
                   ELSE h
         IN IF line = <<>> THEN h
            ELSE IF e = 0 THEN h1
            ELSE parseHeaders(h1, Drop(data, e))

Parsed(r) == [status |-> "ok", req |-> r]
Invalid == [status |-> "invalid", req |-> <<>>]
\* An index out of range: the goroutine panics.
Crash == [status |-> "panic", req |-> <<>>]

(***************************************************************************)
(* ParseRequest (parser.go 20-84): the request line up to the first LF,    *)
(* split at its first two spaces; the query after the first '?' of the     *)
(* target; the headers up to the first CR LF CR LF after the request line, *)
(* or else up to the first LF LF, in which case the header lines are       *)
(* skipped unparsed; the body is everything after the terminator. With LF *)
(* as the first byte the line is empty and line[len(line)-1] panics.       *)
(***************************************************************************)
ParseRequest(data) ==
    LET lineEnd == IndexByte(data, LF)
        raw == Take(data, lineEnd - 1)
        line == TrimCR(raw)
        sp1 == IndexByte(line, SP)
        sp2 == sp1 + IndexByte(Drop(line, sp1), SP)
        target == SubSeq(line, sp1 + 1, sp2 - 1)
        q == IndexByte(target, "?")
        rest == Drop(data, lineEnd)
        crlf == IndexSeq(rest, <<CR, LF, CR, LF>>)
        lflf == IndexSeq(rest, <<LF, LF>>)
    IN IF lineEnd = 0 THEN Invalid
       ELSE IF raw = <<>> THEN Crash
       ELSE IF sp1 = 0 \/ sp2 = sp1 THEN Invalid
       ELSE IF crlf = 0 /\ lflf = 0 THEN Invalid
       ELSE Parsed([method |-> Take(line, sp1 - 1),
                    path   |-> IF q = 0 THEN target ELSE Take(target, q - 1),
                    proto  |-> Drop(line, sp2),
                    query  |-> IF q = 0 THEN <<>> ELSE parseQuery(Drop(target, q)),
                    header |-> IF crlf > 0
                               THEN parseHeaders(<<>>, Take(rest, crlf - 1))
                               ELSE <<>>,
                    body   |-> IF crlf > 0 THEN Drop(rest, crlf + 3)
                               ELSE Drop(rest, lflf + 1)])

-----------------------------------------------------------------------------
(***************************************************************************)
(* What a client sends, from its parts: an optional empty line before the  *)
(* request line (RFC 7230 3.5 asks servers to skip one), the request line  *)
(* with a target of path and query pairs, header lines, the empty line and *)
(* the body; every line ends in CR LF, or in LF alone.                     *)
(***************************************************************************)
EOL(r) == IF r.eol = "crlf" THEN <<CR, LF>> ELSE <<LF>>

QueryText(pairs) ==
    IF pairs = <<>> THEN <<>>
    ELSE <<"?">> \o FlattenSeq([i \in DOMAIN pairs |->
             (IF i > 1 THEN <<"&">> ELSE <<>>)
             \o <<pairs[i][1]>>
             \o (IF pairs[i][2] = <<>> THEN <<>> ELSE <<"=">> \o pairs[i][2])])

Render(r) ==
    r.lead
    \o <<r.method, SP, r.path>> \o QueryText(r.query) \o <<SP, r.proto>> \o EOL(r)
    \o FlattenSeq([i \in DOMAIN r.header |->
                     <<r.header[i][1], ":", SP, r.header[i][2]>> \o EOL(r)])
    \o EOL(r) \o r.body

\* Spec 4.6: the fields of the request parsed from Render(r).
Expected(r) ==
    [method |-> <<r.method>>, path |-> <<r.path>>, proto |-> <<r.proto>>,
     query  |-> FoldLeft(LAMBDA q, p : (<<p[1]>> :> p[2]) @@ q, <<>>, r.query),
     header |-> FoldLeft(LAMBDA h, p : (<<p[1]>> :> <<p[2]>>) @@ h, <<>>, r.header),
     body   |-> r.body]

=============================================================================
