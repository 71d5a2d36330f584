------------------------- MODULE MC_CompiledRouter -------------------------
EXTENDS CompiledRouter

\* Route patterns of each table: static ones, parameter ones that share a
\* first segment byte or a parameter position under different names, and
\* a catch-all.
MC_Patterns == {
    <<"/", "a">>, <<"/", "a", "b">>,
    <<"/", ":", "x">>, <<"/", "a", "a", "/", ":", "y">>, <<"/", "a", "b", "/", ":", "x">>,
    <<"/", "a", "/", "*", "r">>}

\* Request paths: every one of up to three bytes over '/', 'a' and 'b', and
\* the two-segment paths the parameter routes expand.
MC_Paths ==
    {s \in BoundedSeq({"/", "a", "b"}, 3) : s # <<>> /\ s[1] = "/"}
    \cup {<<"/", "a", "a", "/", "b">>, <<"/", "a", "b", "/", "b">>}

\* Request paths with a byte >= 0x80, and the empty path.
MC_HighPaths == MC_Paths \cup {<<"/", "x80">>, <<>>}

=============================================================================
