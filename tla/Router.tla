------------------------------- MODULE Router -------------------------------
(***************************************************************************)
(* The radix router the engine registers its routes in                     *)
(* (core/router/radix.go). A node is a record: its path segment, the       *)
(* indices string of the first bytes of its static children, the ordered   *)
(* children, the handler per method, its kind and a parameter name. The    *)
(* field priority is left out: it is only ever incremented, never read.    *)
(*                                                                         *)
(* Paths are sequences of one-character strings over a small alphabet.     *)
(* A route's handler is its own pattern, so a lookup that returns a        *)
(* handler names the route it came from. addRoute, insertChild and         *)
(* getValue are loops that walk down the tree; here they are recursive     *)
(* operators that rebuild the path they walked. A panic in Add (a          *)
(* configuration error) ends registration: the process exits.              *)
(*                                                                         *)
(* Registration is the state machine (the router is filled before Run and  *)
(* only read afterwards); Find, which changes nothing, is an operator the  *)
(* properties evaluate on every path of a small set.                       *)
(***************************************************************************)
EXTENDS RoutePatterns

CONSTANTS
    Methods,    \* request methods routes are registered for
    Patterns,   \* route patterns, as sequences of characters
    Paths,      \* request paths looked up, as sequences of characters
    MaxRoutes   \* Add calls explored

VARIABLES
    root,       \* RadixRouter.root
    added,      \* the <<method, pattern>> pairs Add has registered
    panicked,   \* an Add has panicked
    calls       \* Add calls made

vars == <<root, added, panicked, calls>>

NoHandlers == [m \in Methods |-> Nil]

NewNode == [path |-> <<>>, indices |-> <<>>, children |-> <<>>,
            handlers |-> NoHandlers, nType |-> "static", paramName |-> <<>>]

Ok(n) == [ok |-> TRUE, node |-> n]
Panic(n) == [ok |-> FALSE, node |-> n]

\* longestCommonPrefix (radix.go 357-367).
longestCommonPrefix(a, b) == Len(LongestCommonPrefix({a, b}))

(***************************************************************************)
(* findWildcard (radix.go 334-355): the first ':' or '*' and the segment   *)
(* it starts, up to the next '/'; the segment is invalid when it holds a   *)
(* second ':' or '*'. i is the Go offset, -1 when there is no wildcard.    *)
(***************************************************************************)
findWildcard(path) ==
    LET starts == {k \in 1..Len(path) : path[k] \in {":", "*"}}
    IN IF starts = {}
       THEN [w |-> <<>>, i |-> -1, valid |-> FALSE]
       ELSE LET s == Min(starts)
                slashes == {k \in s + 1..Len(path) : path[k] = "/"}
                e == IF slashes = {} THEN Len(path) ELSE Min(slashes) - 1
            IN [w |-> SubSeq(path, s, e), i |-> s - 1,
                valid |-> \A k \in s + 1..e : path[k] \notin {":", "*"}]

(***************************************************************************)
(* insertChild (radix.go 141-223): a path without wildcard is stored in n; *)
(* a ':' segment becomes a param child after the prefix, followed by a     *)
(* fresh child for the rest of the path; a '*' segment, which must end the *)
(* path, becomes a catch-all child of a node whose path ends in '/', and   *)
(* that node's path is cut to the prefix before the wildcard.              *)
(***************************************************************************)
RECURSIVE insertChild(_, _, _, _)
insertChild(n, m, path, h) ==
    LET fw == findWildcard(path) IN
    IF fw.i < 0 THEN Ok([n EXCEPT !.path = path, !.handlers[m] = h])
    ELSE IF ~fw.valid \/ Len(fw.w) < 2 THEN Panic(n)
    ELSE IF fw.w[1] = ":" THEN
        LET n1 == IF fw.i > 0 THEN [n EXCEPT !.path = Take(path, fw.i)] ELSE n
            rest == Drop(path, fw.i)
            child == [NewNode EXCEPT !.nType = "param", !.path = fw.w,
                                     !.paramName = Tail(fw.w)]
            sub == insertChild(NewNode, m, Drop(rest, Len(fw.w)), h)
            full == IF Len(fw.w) < Len(rest)
                    THEN [child EXCEPT !.children = <<sub.node>>]
                    ELSE [child EXCEPT !.handlers[m] = h]
        IN [ok |-> Len(fw.w) < Len(rest) => sub.ok,
            node |-> [n1 EXCEPT !.children = Append(@, full)]]
    ELSE IF fw.i + Len(fw.w) # Len(path) THEN Panic(n)
    ELSE IF Len(n.path) > 0 /\ Last(n.path) = "/"
         THEN Ok([n EXCEPT !.path = Take(path, fw.i),
                           !.children = Append(@, [NewNode EXCEPT
                                 !.nType = "catchAll", !.path = fw.w,
                                 !.paramName = Tail(fw.w), !.handlers[m] = h])])
         ELSE Panic(n)

(***************************************************************************)
(* The edge split of addRoute (radix.go 69-84): the suffix of n's path     *)
(* past the common prefix moves, with n's indices, children, handlers and  *)
(* kind, into a single child; n keeps the prefix and no handlers. The new  *)
(* child's paramName is not copied.                                        *)
(***************************************************************************)
\* Mutant: the split node keeps its handlers (radix.go 83 left out).
Split_keepHandlers(n, i, path) ==
    LET child == [path |-> Drop(n.path, i), indices |-> n.indices,
                  children |-> n.children, handlers |-> n.handlers,
                  nType |-> n.nType, paramName |-> <<>>]
    IN [n EXCEPT !.children = <<child>>, !.indices = <<n.path[i + 1]>>,
                 !.path = Take(path, i), !.nType = "static"]

Split(n, i, path) ==
    LET child == [path |-> Drop(n.path, i), indices |-> n.indices,
                  children |-> n.children, handlers |-> n.handlers,
                  nType |-> n.nType, paramName |-> <<>>]
    IN [n EXCEPT !.children = <<child>>, !.indices = <<n.path[i + 1]>>,
                 !.path = Take(path, i), !.handlers = NoHandlers,
                 !.nType = "static"]

(***************************************************************************)
(* The loop of addRoute (radix.go 66-137): split at the common prefix;     *)
(* with path left, stay on a param node, follow the static child indexed   *)
(* by the next byte, or add a new static child, or hand a wildcard to      *)
(* insertChild on this node; with no path left, store the handler here.    *)
(* The "'/' after param" branch (95-100) is unreachable: a param node has  *)
(* already continued at 90-93.                                             *)
(***************************************************************************)
RECURSIVE Walk(_, _, _, _)
\* Mutant: a new static byte is indexed but the rest goes into n itself.
Walk_noNewChild(n, m, path, h) ==
    LET i == longestCommonPrefix(path, n.path)
        n1 == IF i < Len(n.path) THEN Split(n, i, path) ELSE n
        rest == Drop(path, i)
    IN IF i >= Len(path) THEN Ok([n1 EXCEPT !.handlers[m] = h])
       ELSE IF n1.nType = "param" THEN Walk(n1, m, rest, h)
       ELSE LET k == IndexOf(n1.indices, rest[1]) IN
            IF k > 0
            THEN LET r == Walk(n1.children[k], m, rest, h)
                 IN [ok |-> r.ok, node |-> [n1 EXCEPT !.children[k] = r.node]]
            ELSE IF rest[1] \notin {":", "*"}
            THEN insertChild([n1 EXCEPT !.indices = Append(@, rest[1])], m, rest, h)
            ELSE insertChild(n1, m, rest, h)

Walk(n, m, path, h) ==
    LET i == longestCommonPrefix(path, n.path)
        n1 == IF i < Len(n.path) THEN Split(n, i, path) ELSE n
        rest == Drop(path, i)
    IN IF i >= Len(path) THEN Ok([n1 EXCEPT !.handlers[m] = h])
       ELSE IF n1.nType = "param" THEN Walk(n1, m, rest, h)
       ELSE LET k == IndexOf(n1.indices, rest[1]) IN
            IF k > 0
            THEN LET r == Walk(n1.children[k], m, rest, h)
                 IN [ok |-> r.ok, node |-> [n1 EXCEPT !.children[k] = r.node]]
            ELSE IF rest[1] \notin {":", "*"}
            THEN LET r == insertChild(NewNode, m, rest, h)
                 IN [ok |-> r.ok, node |-> [n1 EXCEPT !.indices = Append(@, rest[1]),
                                                      !.children = Append(@, r.node)]]
            ELSE insertChild(n1, m, rest, h)

\* RadixRouter.Add and addRoute's empty-tree case (radix.go 39-64).
addRoute(n, m, path, h) ==
    IF path[1] # "/" THEN Panic(n)
    ELSE IF n.path = <<>> /\ n.children = <<>>
         THEN LET r == insertChild(n, m, path, h)
              IN [r EXCEPT !.node.nType = "static"]
         ELSE Walk(n, m, path, h)

(***************************************************************************)
(* getValue (radix.go 233-331): consume the node's prefix, follow the      *)
(* static child indexed by the next byte, else the last child if it is a   *)
(* wildcard: a param takes the bytes up to the next '/', a catch-all the   *)
(* rest. There is no backtracking: a static child that fails further down  *)
(* is a miss.                                                              *)
(***************************************************************************)
NotFound == [route |-> Nil, params |-> <<>>]
Found(h, ps) == [route |-> h, params |-> ps]
Handle(n, m, ps) == IF n.handlers[m] # Nil THEN Found(n.handlers[m], ps) ELSE NotFound

RECURSIVE getValue(_, _, _, _)
getValue(n, m, path, ps) ==
    LET prefix == n.path IN
    IF Len(path) > Len(prefix) /\ Take(path, Len(prefix)) = prefix
    THEN LET rest == Drop(path, Len(prefix))
             k == IndexOf(n.indices, rest[1])
             w == Last(n.children)
         IN IF k > 0 THEN getValue(n.children[k], m, rest, ps)
            ELSE IF n.children = <<>> \/ w.nType = "static" THEN NotFound
            ELSE IF w.nType = "catchAll"
                 THEN Handle(w, m, (w.paramName :> rest) @@ ps)
            ELSE LET end == SegmentLen(rest)
                     ps1 == (w.paramName :> Take(rest, end)) @@ ps
                 IN IF end < Len(rest)
                    THEN IF w.children # <<>>
                         THEN getValue(w.children[1], m, Drop(rest, end), ps1)
                         ELSE NotFound
                    ELSE Handle(w, m, ps1)
    ELSE IF path # prefix THEN NotFound
    ELSE Handle(n, m, ps)

\* RadixRouter.Find (radix.go 46-53).
Find(m, path) == getValue(root, m, path, <<>>)

-----------------------------------------------------------------------------

\* Add(method, pattern): registration, before Run, of a route.
Add(m, p) ==
    /\ ~panicked
    /\ calls < MaxRoutes
    /\ calls' = calls + 1
    /\ LET r == addRoute(root, m, p, p)
       IN /\ root' = r.node
          /\ panicked' = ~r.ok
          /\ added' = IF r.ok THEN added \cup {<<m, p>>} ELSE added

\* NewRadixRouter (radix.go 29-36).
Init ==
    /\ root = NewNode
    /\ added = {}
    /\ panicked = FALSE
    /\ calls = 0

Next == \E m \in Methods, p \in Patterns : Add(m, p)

Spec == Init /\ [][Next]_vars

-----------------------------------------------------------------------------

\* The nodes of the tree under n, n included.
RECURSIVE Nodes(_)
Nodes(n) == {n} \cup UNION {Nodes(n.children[k]) : k \in DOMAIN n.children}

\* path is an expansion of a route registered for method m.
Registered(m, p) == \E r \in added : r[1] = m /\ Matches(r[2], p) # {}

TypeOK ==
    /\ added \subseteq Methods \X Patterns
    /\ panicked \in BOOLEAN
    /\ calls \in 0..MaxRoutes
    /\ \A n \in Nodes(root) :
          /\ n.nType \in {"static", "param", "catchAll"}
          /\ DOMAIN n.handlers = Methods
          /\ Len(n.indices) <= Len(n.children)

(***************************************************************************)
(* Whatever routes were registered, in whatever order, Find answers a      *)
(* route without wildcards only for exactly its own path, and binds no     *)
(* parameters: the edge splits of addRoute, which move a node's handlers   *)
(* into the new child, and the prefix comparisons of getValue never leave  *)
(* a static handler reachable from another path.                           *)
(***************************************************************************)
StaticExact ==
    \A m \in Methods, p \in Paths :
        LET r == Find(m, p) IN
        r.route # Nil /\ ~HasWildcard(r.route) => r.route = p /\ r.params = <<>>

(***************************************************************************)
(* Spec section 8: for every registered route and every path that expands  *)
(* it, Find returns a registered handler with the binding of that path.    *)
(* Where routes overlap the route returned may be another one that the     *)
(* path also expands. addRoute's wildcard insertion and getValue's choice  *)
(* of the last child.                                                      *)
(***************************************************************************)
RouteLaw ==
    \A m \in Methods, p \in Paths :
        Registered(m, p) =>
            LET r == Find(m, p) IN
            r.route # Nil /\ r.params \in Matches(r.route, p)

=============================================================================
