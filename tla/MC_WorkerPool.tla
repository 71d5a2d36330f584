---------------------------- MODULE MC_WorkerPool ----------------------------
(* Two workers, so that stealing and the fall-back to the next queue have  *)
(* a victim; three tasks and one-slot channels, so that both channels fill *)
(* and a task is run inline.                                                *)
EXTENDS WorkerPool, TLC

CONSTANTS t1, t2, t3

MC_Tasks == {t1, t2, t3}

\* Tasks are interchangeable: nothing in the pool depends on which is which.
MC_Symmetry == Permutations(MC_Tasks)
=============================================================================
