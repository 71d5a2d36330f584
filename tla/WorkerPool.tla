----------------------------- MODULE WorkerPool -----------------------------
(***************************************************************************)
(* The work-stealing goroutine pool of core/pools/worker_pool.go: one     *)
(* buffered channel per worker, Submit picking a queue round-robin from    *)
(* the submitted counter and falling back to the next queue and then to    *)
(* running the task inline, workers that drain their own queue, steal from *)
(* the others and block, and Close, which sets the closed flag and closes  *)
(* the channels one after the other. Stats reads the two counters with two *)
(* separate atomic loads.                                                  *)
(*                                                                         *)
(* Every task is submitted by a caller goroutine of its own. Counters are  *)
(* uint64 in the code; they are kept modulo 2^UintBits here, which shows   *)
(* the same wrap-around at a width TLC can compute with.                  *)
(***************************************************************************)
EXTENDS Naturals, Sequences, SequencesExt, FiniteSets

CONSTANTS
    NumWorkers,       \* p.numWorkers
    Tasks,            \* tasks, one per submitting goroutine
    QCap,             \* capacity of each worker channel (256 in the code)
    UintBits,         \* width of the statistics counters
    NoTask            \* model value: a worker holding no task

ASSUME /\ NumWorkers \in Nat \ {0} /\ QCap \in Nat \ {0}
       /\ UintBits \in Nat \ {0}

Workers == 0..(NumWorkers - 1)
Word == 2^UintBits

VARIABLES
    queue,      \* worker -> tasks buffered in its channel, oldest first
    chClosed,   \* channels closed so far
    closed,     \* p.closed
    submitted,  \* p.stats.tasksSubmitted
    completed,  \* p.stats.tasksCompleted
    sub,        \* task -> where its Submit call is
    wk,         \* worker -> program counter and the task it runs
    ran,        \* task -> times it has been run
    closer,     \* the goroutine calling Close: program counter, next channel
    stats,      \* a goroutine calling Stats: pc, submitted snapshot, last TasksPending
    crashed     \* a goroutine panicked and the process exited

vars == <<queue, chClosed, closed, submitted, completed, sub, wk, ran,
          closer, stats, crashed>>

Alive == ~crashed

-----------------------------------------------------------------------------
(* Submit(task) *)

\* if p.closed.Load() { return false }
SubmitCheck(t) ==
    /\ Alive /\ sub[t] = "ready"
    /\ sub' = [sub EXCEPT ![t] = IF closed THEN "rejected" ELSE "checked"]
    /\ UNCHANGED <<queue, chClosed, closed, submitted, completed, wk, ran, closer, stats, crashed>>

\* Mutant: a send is taken to fit while the channel holds QCap tasks.
SendOutcome_offByOne(i) ==
    IF i \in chClosed THEN "panic"
    ELSE IF Len(queue[i]) <= QCap THEN "sent" ELSE "full"

\* The result of select { case q <- task: ... default: } on queue i.
SendOutcome(i) ==
    IF i \in chClosed THEN "panic"
    ELSE IF Len(queue[i]) < QCap THEN "sent" ELSE "full"

Enqueue(i, t) ==
    /\ queue' = [queue EXCEPT ![i] = Append(@, t)]
    /\ sub' = [sub EXCEPT ![t] = "done"]
    /\ UNCHANGED crashed

\* A send on a closed channel panics; nothing recovers it.
Panic(t) ==
    /\ sub' = [sub EXCEPT ![t] = "panicked"]
    /\ crashed' = TRUE
    /\ UNCHANGED queue

(***************************************************************************)
(* tasksSubmitted.Add(1), the queue index from tasksSubmitted.Load(), a    *)
(* send on that queue, on a full one a send on the next, and when both are *)
(* full the task is run inline by the caller.                              *)
(***************************************************************************)
SubmitSend(t) ==
    /\ Alive /\ sub[t] = "checked"
    /\ submitted' = (submitted + 1) % Word
    /\ LET idx  == submitted' % NumWorkers
           idx2 == (idx + 1) % NumWorkers
           o1   == SendOutcome(idx)
           o2   == SendOutcome(idx2)
       IN \/ o1 = "sent" /\ Enqueue(idx, t)
          \/ o1 = "panic" /\ Panic(t)
          \/ o1 = "full" /\ o2 = "sent" /\ Enqueue(idx2, t)
          \/ o1 = "full" /\ o2 = "panic" /\ Panic(t)
          \/ /\ o1 = "full" /\ o2 = "full"
             /\ sub' = [sub EXCEPT ![t] = "inline"]
             /\ UNCHANGED <<queue, crashed>>
    /\ UNCHANGED <<chClosed, closed, completed, wk, ran, closer, stats>>

\* task(); p.stats.tasksCompleted.Add(1); return true
SubmitInline(t) ==
    /\ Alive /\ sub[t] = "inline"
    /\ ran' = [ran EXCEPT ![t] = @ + 1]
    /\ completed' = (completed + 1) % Word
    /\ sub' = [sub EXCEPT ![t] = "done"]
    /\ UNCHANGED <<queue, chClosed, closed, submitted, wk, closer, stats, crashed>>

-----------------------------------------------------------------------------
(* worker.run *)

\* The worker takes the head of queue i and goes on to run it.
Take(w, i) ==
    /\ queue' = [queue EXCEPT ![i] = Tail(@)]
    /\ wk' = [wk EXCEPT ![w] = [pc |-> "run", task |-> Head(queue[i])]]

\* Mutant: the loop returns as soon as p.closed is set, before draining.
WorkerPoll_exitOnClosed(w) ==
    /\ Alive /\ wk[w].pc = "poll"
    /\ \/ ~closed /\ queue[w] # <<>> /\ Take(w, w)
       \/ /\ closed \/ queue[w] = <<>>
          /\ wk' = [wk EXCEPT ![w].pc = IF closed THEN "exited" ELSE "steal"]
          /\ UNCHANGED queue
    /\ UNCHANGED <<chClosed, closed, submitted, completed, sub, ran, closer, stats, crashed>>

(***************************************************************************)
(* The non-blocking receive on the worker's own queue. A closed channel    *)
(* still yields its buffered tasks; once empty it yields nil and the       *)
(* worker returns.                                                         *)
(***************************************************************************)
WorkerPoll(w) ==
    /\ Alive /\ wk[w].pc = "poll"
    /\ \/ queue[w] # <<>> /\ Take(w, w)
       \/ /\ queue[w] = <<>>
          /\ wk' = [wk EXCEPT ![w].pc = IF w \in chClosed THEN "exited" ELSE "steal"]
          /\ UNCHANGED queue
    /\ UNCHANGED <<chClosed, closed, submitted, completed, sub, ran, closer, stats, crashed>>

\* Mutant: a stolen task is counted as a steal and dropped, never run.
WorkerSteal_lost(w) ==
    /\ Alive /\ wk[w].pc = "steal"
    /\ LET victims == [i \in 1..(NumWorkers - 1) |-> (w + i) % NumWorkers]
           k       == SelectInSeq(victims, LAMBDA v : queue[v] # <<>>)
       IN IF k = 0
          THEN /\ wk' = [wk EXCEPT ![w].pc = "block"]
               /\ UNCHANGED queue
          ELSE /\ queue' = [queue EXCEPT ![victims[k]] = Tail(@)]
               /\ wk' = [wk EXCEPT ![w].pc = "poll"]
    /\ UNCHANGED <<chClosed, closed, submitted, completed, sub, ran, closer, stats, crashed>>

(***************************************************************************)
(* trySteal: the other queues in order from (id + 1) % numWorkers; the     *)
(* first that yields a task is robbed. An empty queue, open or closed      *)
(* (a closed one yields nil), is passed over. No task: block.              *)
(***************************************************************************)
WorkerSteal(w) ==
    /\ Alive /\ wk[w].pc = "steal"
    /\ LET victims == [i \in 1..(NumWorkers - 1) |-> (w + i) % NumWorkers]
           k       == SelectInSeq(victims, LAMBDA v : queue[v] # <<>>)
       IN IF k = 0
          THEN /\ wk' = [wk EXCEPT ![w].pc = "block"]
               /\ UNCHANGED queue
          ELSE Take(w, victims[k])
    /\ UNCHANGED <<chClosed, closed, submitted, completed, sub, ran, closer, stats, crashed>>

\* Mutant: the worker checks p.closed before blocking and returns.
WorkerBlock_exitOnClosed(w) ==
    /\ Alive /\ wk[w].pc = "block"
    /\ \/ ~closed /\ queue[w] # <<>> /\ Take(w, w)
       \/ /\ closed
          /\ wk' = [wk EXCEPT ![w].pc = "exited"]
          /\ UNCHANGED queue
    /\ UNCHANGED <<chClosed, closed, submitted, completed, sub, ran, closer, stats, crashed>>

\* task, ok := <-w.queue.tasks: waits for a task or for the close.
WorkerBlock(w) ==
    /\ Alive /\ wk[w].pc = "block"
    /\ \/ queue[w] # <<>> /\ Take(w, w)
       \/ /\ queue[w] = <<>> /\ w \in chClosed
          /\ wk' = [wk EXCEPT ![w].pc = "exited"]
          /\ UNCHANGED queue
    /\ UNCHANGED <<chClosed, closed, submitted, completed, sub, ran, closer, stats, crashed>>

\* task(); w.pool.stats.tasksCompleted.Add(1)
WorkerRun(w) ==
    /\ Alive /\ wk[w].pc = "run"
    /\ ran' = [ran EXCEPT ![wk[w].task] = @ + 1]
    /\ completed' = (completed + 1) % Word
    /\ wk' = [wk EXCEPT ![w] = [pc |-> "poll", task |-> NoTask]]
    /\ UNCHANGED <<queue, chClosed, closed, submitted, sub, closer, stats, crashed>>

-----------------------------------------------------------------------------
(* Close and Stats *)

\* p.closed.CompareAndSwap(false, true); a second Close returns at once.
CloseBegin ==
    /\ Alive /\ closer.pc = "idle" /\ ~closed
    /\ closed' = TRUE
    /\ closer' = [pc |-> "closing", next |-> 0]
    /\ UNCHANGED <<queue, chClosed, submitted, completed, sub, wk, ran, stats, crashed>>

\* close(q.tasks) for the next queue of p.queues.
CloseQueue ==
    /\ Alive /\ closer.pc = "closing"
    /\ chClosed' = chClosed \cup {closer.next}
    /\ closer' = IF closer.next = NumWorkers - 1
                 THEN [pc |-> "done", next |-> NumWorkers]
                 ELSE [closer EXCEPT !.next = @ + 1]
    /\ UNCHANGED <<queue, closed, submitted, completed, sub, wk, ran, stats, crashed>>

\* Stats: TasksSubmitted is loaded first ...
StatsLoadSubmitted ==
    /\ Alive /\ stats.pc = "idle"
    /\ stats' = [stats EXCEPT !.pc = "loaded", !.snap = submitted]
    /\ UNCHANGED <<queue, chClosed, closed, submitted, completed, sub, wk, ran, closer, crashed>>

\* ... and TasksPending subtracts a later load of tasksCompleted from it.
StatsLoadCompleted ==
    /\ Alive /\ stats.pc = "loaded"
    /\ stats' = [pc |-> "idle", snap |-> 0, pending |-> (stats.snap - completed) % Word]
    /\ UNCHANGED <<queue, chClosed, closed, submitted, completed, sub, wk, ran, closer, crashed>>

\* The process has exited, or no goroutine can take another step.
Terminated ==
    /\ \/ crashed
       \/ /\ \A t \in Tasks : sub[t] \in {"ready", "done", "rejected"}
          /\ \A w \in Workers : wk[w].pc \in {"block", "exited"} /\ queue[w] = <<>>
          /\ closer.pc # "closing"
    /\ UNCHANGED vars

-----------------------------------------------------------------------------

\* NewWorkerPool: empty open queues, every worker started.
Init ==
    /\ queue = [w \in Workers |-> <<>>]
    /\ chClosed = {}
    /\ closed = FALSE
    /\ submitted = 0 /\ completed = 0
    /\ sub = [t \in Tasks |-> "ready"]
    /\ wk = [w \in Workers |-> [pc |-> "poll", task |-> NoTask]]
    /\ ran = [t \in Tasks |-> 0]
    /\ closer = [pc |-> "idle", next |-> 0]
    /\ stats = [pc |-> "idle", snap |-> 0, pending |-> 0]
    /\ crashed = FALSE

Worker(w) == WorkerPoll(w) \/ WorkerSteal(w) \/ WorkerBlock(w) \/ WorkerRun(w)

Next ==
    \/ \E t \in Tasks : SubmitCheck(t) \/ SubmitSend(t) \/ SubmitInline(t)
    \/ \E w \in Workers : Worker(w)
    \/ CloseBegin \/ CloseQueue
    \/ StatsLoadSubmitted \/ StatsLoadCompleted
    \/ Terminated

(***************************************************************************)
(* Every goroutine that has started a step gets to finish it: the Go       *)
(* scheduler runs every runnable goroutine. Callers are not obliged to     *)
(* call Submit, Close or Stats at all.                                     *)
(***************************************************************************)
Fairness ==
    /\ \A t \in Tasks : WF_vars(SubmitSend(t)) /\ WF_vars(SubmitInline(t))
    /\ \A w \in Workers : WF_vars(Worker(w))
    /\ WF_vars(CloseQueue)
    /\ WF_vars(StatsLoadCompleted)

Spec == Init /\ [][Next]_vars /\ Fairness

-----------------------------------------------------------------------------
(* Properties *)

(***************************************************************************)
(* Type invariant; a buffered channel never holds more than its capacity. *)
(***************************************************************************)
TypeOK ==
    /\ queue \in [Workers -> Seq(Tasks)]
    /\ \A w \in Workers : Len(queue[w]) <= QCap
    /\ chClosed \subseteq Workers /\ closed \in BOOLEAN
    /\ submitted \in 0..(Word - 1) /\ completed \in 0..(Word - 1)
    /\ sub \in [Tasks -> {"ready", "checked", "inline", "done", "rejected", "panicked"}]
    /\ wk \in [Workers -> [pc : {"poll", "steal", "block", "run", "exited"},
                           task : Tasks \cup {NoTask}]]
    /\ ran \in [Tasks -> Nat]
    /\ stats.pending \in 0..(Word - 1)

(***************************************************************************)
(* Refinement mapping: a task is pending while it sits in a channel, is    *)
(* held by a worker that took it, or is being run inline by its caller;    *)
(* it is done once it has run.                                             *)
(***************************************************************************)
Pending ==
    {t \in Tasks : \E w \in Workers : t \in Range(queue[w])}
    \cup {wk[w].task : w \in {v \in Workers : wk[v].pc = "run"}}
    \cup {t \in Tasks : sub[t] = "inline"}

Done == {t \in Tasks : ran[t] > 0}

TB == INSTANCE TaskBag WITH pending <- Pending, done <- Done

(***************************************************************************)
(* Every step of Submit, the workers, stealing and Close is a step of the  *)
(* task bag or leaves it alone: no task leaves a channel without being     *)
(* run, none is run twice or without having been submitted, whatever the  *)
(* submitters, thieves and the closer interleave.                          *)
(***************************************************************************)
TaskBagSafety == TB!Safety

(***************************************************************************)
(* Also when callers go on submitting while Close runs, every task Submit  *)
(* accepted is eventually run, unless the process has died of a send on a  *)
(* closed channel: the workers keep draining a closed channel, and a       *)
(* submitter that passed the closed check before Close completes its send  *)
(* or panics.                                                              *)
(***************************************************************************)
AcceptedTasksRun == \A t \in Tasks : t \in Pending ~> (t \in Done \/ crashed)

(***************************************************************************)
(* A worker returns only once its own channel is empty: Close's            *)
(* close(q.tasks) leaves the buffered tasks to be received, and no task    *)
(* can be buffered after the close.                                        *)
(***************************************************************************)
DrainedOnExit == \A w \in Workers : wk[w].pc = "exited" => queue[w] = <<>>

(***************************************************************************)
(* Submit called concurrently with Close returns false or queues the task; *)
(* it never sends on a channel Close has closed. The closed check and the  *)
(* send are separate steps, and Close can run between them.                *)
(***************************************************************************)
NoSendOnClosedChannel == ~crashed

=============================================================================
