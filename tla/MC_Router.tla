---------------------------- MODULE MC_Router ----------------------------
EXTENDS Router

\* Route patterns: static, parameter and catch-all segments, and pairs of
\* them that share a prefix.
MC_Patterns == {
    <<"/">>, <<"/", "a">>, <<"/", "a", "b">>, <<"/", "b">>, <<"/", "a", "/">>,
    <<"/", ":", "a">>, <<"/", ":", "b">>, <<"/", ":", "a", "/", "b">>,
    <<"/", "a", "/", ":", "b">>, <<"/", "a", "/", "*", "b">>, <<"/", "*", "a">>}

\* Every request path of up to four bytes over '/', 'a' and 'b'.
MC_Paths == {s \in BoundedSeq({"/", "a", "b"}, 4) : s # <<>> /\ s[1] = "/"}

=============================================================================
