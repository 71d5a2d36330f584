------------------------------ MODULE TaskBag ------------------------------
(***************************************************************************)
(* What a task pool promises its callers (core/pools, WorkerPool): a task  *)
(* whose Submit was accepted is run, once, and eventually; nothing else is *)
(* run. The pool's queues, workers and stealing are hidden: a submitted    *)
(* task is simply pending until it has run.                                *)
(***************************************************************************)
CONSTANT Tasks

VARIABLES pending, done

vars == <<pending, done>>

Init == pending = {} /\ done = {}

\* A caller hands the pool a task it has not handed over before.
Accept(t) ==
    /\ t \notin pending \cup done
    /\ pending' = pending \cup {t}
    /\ UNCHANGED done

\* Some goroutine runs a pending task.
Run(t) ==
    /\ t \in pending
    /\ pending' = pending \ {t}
    /\ done' = done \cup {t}

Next == \E t \in Tasks : Accept(t) \/ Run(t)

Safety == Init /\ [][Next]_vars

\* Every accepted task is eventually run.
Spec == Safety /\ \A t \in Tasks : WF_vars(Run(t))

=============================================================================
