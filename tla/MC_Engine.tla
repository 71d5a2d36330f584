------------------------------ MODULE MC_Engine ------------------------------
(* Model-checking instance of Engine: two descriptor numbers, so the kernel *)
(* must reuse one, and three Connection records, one more than can be live, *)
(* so the reaper can hold one while two others serve.                       *)
EXTENDS Engine, TLC

CONSTANTS c1, c2, c3

MC_Fds == {3, 4}
MC_Conns == {c1, c2, c3}

\* Connection records are interchangeable: sync.Pool hands out any of them.
MC_Symmetry == Permutations(MC_Conns)
=============================================================================
