---------------------------- MODULE RoutePatterns ----------------------------
(***************************************************************************)
(* What the two routers share: paths and patterns as sequences of          *)
(* one-character strings, the segment helpers both walks use, and the      *)
(* matching rules of spec 4.7 as the reference both are checked against.   *)
(* A route's handler is its own pattern, so a lookup that returns a        *)
(* handler names the route it came from.                                   *)
(***************************************************************************)
EXTENDS Naturals, Sequences, SequencesExt

\* A nil handler: every pattern starts with "/", so none is empty.
Nil == <<>>

Take(s, k) == SubSeq(s, 1, k)
Drop(s, k) == SubSeq(s, k + 1, Len(s))

\* The position of the first element of s equal to c, 0 if none.
IndexOf(s, c) == SelectInSeq(s, LAMBDA x : x = c)

\* The number of bytes of s before its first '/'.
SegmentLen(s) == LET k == IndexOf(s, "/") IN IF k = 0 THEN Len(s) ELSE k - 1


(***************************************************************************)
(* The matching rules of spec 4.7, as the reference: a literal byte        *)
(* matches itself, ':name' a nonempty run of bytes up to the next '/',     *)
(* and '*name' the nonempty rest of the path. Matches(pat, path) is the    *)
(* set of parameter bindings under which path expands pat.                 *)
(***************************************************************************)
RECURSIVE Matches(_, _)
Matches(pat, path) ==
    IF pat = <<>> THEN IF path = <<>> THEN {<<>>} ELSE {}
    ELSE IF pat[1] = ":"
         THEN LET name == Take(Tail(pat), SegmentLen(Tail(pat)))
                  seg == SegmentLen(path)
              IN IF seg = 0 THEN {}
                 ELSE {(name :> Take(path, seg)) @@ b :
                          b \in Matches(Drop(pat, 1 + Len(name)), Drop(path, seg))}
    ELSE IF pat[1] = "*" THEN IF path = <<>> THEN {} ELSE {Tail(pat) :> path}
    ELSE IF path # <<>> /\ path[1] = pat[1] THEN Matches(Tail(pat), Tail(path))
    ELSE {}

HasWildcard(p) == \E k \in DOMAIN p : p[k] \in {":", "*"}

=============================================================================
