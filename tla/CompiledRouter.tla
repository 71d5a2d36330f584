---------------------------- MODULE CompiledRouter ----------------------------
(***************************************************************************)
(* The compiled router (core/router/compiled.go). Add sorts a route into   *)
(* one of three tables: static routes into a map from path to method to    *)
(* handler, routes with a '*' into a list of prefixes searched in order,   *)
(* and the other routes with a ':' into a tree whose static children are   *)
(* indexed by the first byte of their segment. Find looks in the cache     *)
(* first, then in the three tables, and stores a static or parameter       *)
(* answer in the cache, keyed by method and path.                          *)
(*                                                                         *)
(* The tree is a function from addresses to nodes: an address is the      *)
(* sequence of child keys from the root, a byte for a static child and     *)
(* ParamKey for the parameter child. A byte of a request path at or above  *)
(* 0x80 is a token of NonAscii: staticChildren has 128 entries, and        *)
(* indexing it with such a byte panics.                                    *)
(*                                                                         *)
(* Find is an action because it writes the cache. Its lookup reads only    *)
(* tables no Find writes and ends in one sync.Map Store, so concurrent     *)
(* Finds are modelled as one Find after another.                           *)
(***************************************************************************)
EXTENDS RoutePatterns

CONSTANTS
    Methods,    \* request methods routes are registered for
    Patterns,   \* route patterns, as sequences of characters
    Paths,      \* request paths looked up, as sequences of characters
    NonAscii,   \* path bytes >= 0x80
    MaxAdds,    \* Add calls explored
    MaxFinds,   \* Find calls explored
    Phased      \* TRUE: every Add comes before the first Find (spec 5)

VARIABLES
    staticRoutes,    \* CompiledRouter.staticRoutes: path -> method -> handler
    paramRoutes,     \* CompiledRouter.paramRoutes, by address
    wildcardRoutes,  \* CompiledRouter.wildcardRoutes, in the order added
    cache,           \* CompiledRouter.cache: <<method, path>> -> answer
    added,           \* the <<method, pattern>> pairs Add has registered
    adds,            \* Add calls made
    finds,           \* Find calls made
    crashed          \* a Find has panicked

vars == <<staticRoutes, paramRoutes, wildcardRoutes, cache, added, adds, finds, crashed>>

ParamKey == "param"

NoHandlers == [m \in Methods |-> Nil]

\* A compiledNode with an empty handlers map.
NewNode(seg, name) == [segment |-> seg, paramName |-> name, handlers |-> NoHandlers]

\* strings.Split(path[1:], "/") without the empty segments the loops skip.
RECURSIVE Segments(_)
Segments(s) ==
    IF s = <<>> THEN <<>>
    ELSE LET k == SegmentLen(s)
             rest == IF k = Len(s) THEN <<>> ELSE Segments(Drop(s, k + 1))
         IN IF k = 0 THEN rest ELSE <<Take(s, k)>> \o rest

Found(h, ps) == [status |-> "found", route |-> h, params |-> ps]
NotFound == [status |-> "none", route |-> Nil, params |-> <<>>]
Crash == [status |-> "panic", route |-> Nil, params |-> <<>>]

-----------------------------------------------------------------------------
(***************************************************************************)
(* addParamRoute (compiled.go 90-123): walk the segments from the root, a  *)
(* ':' segment to the parameter child, any other to the static child of    *)
(* its first byte, creating a child only where there is none: an existing  *)
(* child keeps its own segment or parameter name. The handler goes on the  *)
(* node the walk ends at.                                                  *)
(***************************************************************************)
Descend(st, seg) ==
    LET isParam == seg[1] = ":"
        a == Append(st.addr, IF isParam THEN ParamKey ELSE seg[1])
        fresh == IF isParam THEN NewNode(<<>>, Tail(seg)) ELSE NewNode(seg, <<>>)
    IN [tree |-> IF a \in DOMAIN st.tree THEN st.tree ELSE (a :> fresh) @@ st.tree,
        addr |-> a]

addParamRoute(tree, m, p) ==
    LET r == FoldLeft(Descend, [tree |-> tree, addr |-> <<>>], Segments(Tail(p)))
    IN [r.tree EXCEPT ![r.addr].handlers[m] = p]

\* addStaticRoute (compiled.go 82-87).
addStaticRoute(tbl, m, p) ==
    LET hs == IF p \in DOMAIN tbl THEN tbl[p] ELSE NoHandlers
    IN (p :> [hs EXCEPT ![m] = p]) @@ tbl

\* addWildcardRoute (compiled.go 126-138): the prefix before the first '*'
\* and the name after it, appended as a route of one method.
addWildcardRoute(list, m, p) ==
    LET i == IndexOf(p, "*")
    IN Append(list, [prefix |-> Take(p, i - 1), paramKey |-> Drop(p, i),
                     method |-> m, handler |-> p])

(***************************************************************************)
(* findParamRoute (compiled.go 174-207): per segment, the static child of  *)
(* its first byte if that child's segment is the whole segment, else the   *)
(* parameter child, binding its name; else no match. path[1:] panics on an *)
(* empty path, staticChildren[idx] on a byte of NonAscii.                  *)
(***************************************************************************)
MatchSegment(st, seg) ==
    LET c == Append(st.addr, seg[1])
        pc == Append(st.addr, ParamKey)
    IN CASE st.status # "walk"  -> st
         [] seg[1] \in NonAscii -> [st EXCEPT !.status = "panic"]
         [] c \in DOMAIN paramRoutes /\ paramRoutes[c].segment = seg
                                -> [st EXCEPT !.addr = c]
         [] pc \in DOMAIN paramRoutes
                                -> [st EXCEPT !.addr = pc,
                                      !.params = (paramRoutes[pc].paramName :> seg) @@ @]
         [] OTHER               -> [st EXCEPT !.status = "miss"]

findParamRoute(m, path) ==
    IF path = <<>> THEN Crash
    ELSE LET r == FoldLeft(MatchSegment, [addr |-> <<>>, params |-> <<>>, status |-> "walk"],
                           Segments(Tail(path)))
         IN CASE r.status = "panic" -> Crash
              [] r.status = "walk" /\ paramRoutes[r.addr].handlers[m] # Nil
                                    -> Found(paramRoutes[r.addr].handlers[m], r.params)
              [] OTHER              -> NotFound

\* findWildcardRoute (compiled.go 210-221): the first route of the method
\* whose prefix the path starts with binds the rest of the path.
findWildcardRoute(m, path) ==
    LET k == SelectInSeq(wildcardRoutes, LAMBDA w : w.method = m /\ IsPrefix(w.prefix, path))
        w == wildcardRoutes[k]
    IN IF k = 0 THEN NotFound ELSE Found(w.handler, w.paramKey :> Drop(path, Len(w.prefix)))

\* Find's steps 2 and 3 (compiled.go 150-163): the answers it caches.
\* Mutant: parameter routes are tried before the static map.
Cacheable_paramFirst(m, path) ==
    LET pr == findParamRoute(m, path)
    IN IF pr.status # "none" THEN pr
       ELSE IF path \in DOMAIN staticRoutes /\ staticRoutes[path][m] # Nil
            THEN Found(staticRoutes[path][m], <<>>)
            ELSE NotFound

Cacheable(m, path) ==
    IF path \in DOMAIN staticRoutes /\ staticRoutes[path][m] # Nil
    THEN Found(staticRoutes[path][m], <<>>)
    ELSE findParamRoute(m, path)

\* cacheKey := method + ":" + path; no method contains ':'.
CacheKey(m, path) == <<m, path>>

\* What Find(m, path) returns in this state (compiled.go 141-171).
Answer(m, path) ==
    IF CacheKey(m, path) \in DOMAIN cache THEN cache[CacheKey(m, path)]
    ELSE LET r == Cacheable(m, path)
         IN IF r.status = "none" THEN findWildcardRoute(m, path) ELSE r

-----------------------------------------------------------------------------

\* NewCompiledRouter (compiled.go 54-60).
Init ==
    /\ staticRoutes = <<>>
    /\ paramRoutes = <<>> :> NewNode(<<>>, <<>>)
    /\ wildcardRoutes = <<>>
    /\ cache = <<>>
    /\ added = {}
    /\ adds = 0
    /\ finds = 0
    /\ crashed = FALSE

(***************************************************************************)
(* Add (compiled.go 63-79): a path with neither ':' nor '*' is static, one *)
(* with a '*' a wildcard route, the others parameter routes. Every pattern *)
(* begins with '/', so the panic of line 65 is not reached. Nothing of Add *)
(* touches the cache.                                                      *)
(***************************************************************************)
Add(m, p) ==
    /\ ~crashed
    /\ adds < MaxAdds
    /\ Phased => finds = 0
    /\ adds' = adds + 1
    /\ added' = added \cup {<<m, p>>}
    /\ CASE ~HasWildcard(p) ->
               /\ staticRoutes' = addStaticRoute(staticRoutes, m, p)
               /\ UNCHANGED <<paramRoutes, wildcardRoutes>>
          [] IndexOf(p, "*") > 0 ->
               /\ wildcardRoutes' = addWildcardRoute(wildcardRoutes, m, p)
               /\ UNCHANGED <<staticRoutes, paramRoutes>>
          [] OTHER ->
               /\ paramRoutes' = addParamRoute(paramRoutes, m, p)
               /\ UNCHANGED <<staticRoutes, wildcardRoutes>>
    /\ UNCHANGED <<cache, finds, crashed>>

\* Mutant: a miss is cached too.
Find_cacheMiss(m, path) ==
    /\ ~crashed
    /\ finds < MaxFinds
    /\ finds' = finds + 1
    /\ IF CacheKey(m, path) \in DOMAIN cache
       THEN UNCHANGED <<cache, crashed>>
       ELSE LET r == Cacheable(m, path)
            IN /\ crashed' = (r.status = "panic")
               /\ cache' = (CacheKey(m, path) :> r) @@ cache
    /\ UNCHANGED <<staticRoutes, paramRoutes, wildcardRoutes, added, adds>>

(***************************************************************************)
(* Find (compiled.go 141-171): a cached answer is returned as it is; else  *)
(* a static or parameter answer is stored under the cache key, a wildcard  *)
(* answer or a miss is not. A panic ends the caller.                       *)
(***************************************************************************)
Find(m, path) ==
    /\ ~crashed
    /\ finds < MaxFinds
    /\ finds' = finds + 1
    /\ IF CacheKey(m, path) \in DOMAIN cache
       THEN UNCHANGED <<cache, crashed>>
       ELSE LET r == Cacheable(m, path)
            IN /\ crashed' = (r.status = "panic")
               /\ cache' = IF r.status = "found"
                            THEN (CacheKey(m, path) :> r) @@ cache
                            ELSE cache
    /\ UNCHANGED <<staticRoutes, paramRoutes, wildcardRoutes, added, adds>>

Next ==
    \/ \E m \in Methods, p \in Patterns : Add(m, p)
    \/ \E m \in Methods, path \in Paths : Find(m, path)

Spec == Init /\ [][Next]_vars

-----------------------------------------------------------------------------

TypeOK ==
    /\ added \subseteq Methods \X Patterns
    /\ adds \in 0..MaxAdds /\ finds \in 0..MaxFinds
    /\ crashed \in BOOLEAN
    /\ \A a \in DOMAIN paramRoutes : DOMAIN paramRoutes[a].handlers = Methods
    /\ \A k \in DOMAIN cache : cache[k].status = "found"

(***************************************************************************)
(* Spec 4.7 says a hashed fast path in front of the router does not alter  *)
(* what it matches. Every answer the cache holds is the answer the tables  *)
(* give now for its method and path. Add never clears the cache, so this   *)
(* is checked with Adds after Finds (MC_CompiledRouter_stale.cfg), where   *)
(* it fails.                                                               *)
(***************************************************************************)
CacheCoherent ==
    \A m \in Methods, path \in Paths :
        CacheKey(m, path) \in DOMAIN cache => cache[CacheKey(m, path)] = Cacheable(m, path)

(***************************************************************************)
(* Spec 4.7's tie-break: an exact static route outranks a parameter. Every *)
(* registered route without wildcards is answered, for its method, with    *)
(* itself and no parameters, whatever else was registered and whatever     *)
(* the cache already holds.                                                *)
(***************************************************************************)
StaticRoutesExact ==
    \A r \in added :
        ~HasWildcard(r[2]) /\ r[2] \in Paths => Answer(r[1], r[2]) = Found(r[2], <<>>)

(***************************************************************************)
(* Spec 8: for every registered route and every path that expands it, Find *)
(* answers a registered route the path expands, with that expansion's      *)
(* binding. The tree shares a static child among segments with one first  *)
(* byte and a parameter child among parameter names.                       *)
(***************************************************************************)
FindSound ==
    \A m \in Methods, path \in Paths :
        (\E r \in added : r[1] = m /\ Matches(r[2], path) # {}) =>
            LET a == Answer(m, path)
            IN a.status = "found" /\ <<m, a.route>> \in added /\ a.params \in Matches(a.route, path)

\* A request path never makes Find panic.
NoFindPanic == ~crashed

=============================================================================
