----------------------------- MODULE Middleware -----------------------------
(***************************************************************************)
(* The synchronous middleware pipeline (core/middleware/pipeline.go):      *)
(* Pipeline.Execute runs the handlers of a fixed chain in order for each   *)
(* request and stops at the first one that aborts; the terminal handler    *)
(* runs only for a request nobody aborted. The chain holds the library's   *)
(* stateful limiter, RateLimiter(Rate), a token bucket shared by every      *)
(* goroutine that executes the pipeline, CORS, which aborts an OPTIONS     *)
(* request, and handlers with no effect on control (Recovery, RequestID).  *)
(*                                                                         *)
(* Time is a clock of ticks, K ticks to the second; every request a        *)
(* goroutine starts within a tick is served within that tick (a handler    *)
(* is far shorter than 1/K s). The limiter's critical section is one step: *)
(* it holds mu from the clock read to the token update. admits records,    *)
(* per elapsed tick, how many requests the limiter let through.            *)
(*                                                                         *)
(* With Async nonempty the chain is an AsyncPipeline: after the            *)
(* synchronous Execute returns with ctx not aborted, the goroutine hands   *)
(* each async handler to workerCh, or runs it inline when the channel is   *)
(* full, and the worker goroutines run the tasks they receive. A           *)
(* goroutine's ctx is reused for its next request once Execute returns,    *)
(* as the engine releases a context to its pool after the pipeline.        *)
(***************************************************************************)
EXTENDS Naturals, Sequences, FiniteSets, Functions

CONSTANTS
    Goroutines,  \* goroutines that call Execute concurrently
    Chain,       \* the handlers given to Use, in order: "limit", "cors", "plain"
    Methods,     \* request methods a client sends
    Rate,        \* RateLimiter(requestsPerSecond)
    K,           \* clock ticks per second
    MaxPerTick,  \* requests a tick can carry
    Period,      \* 0: requests arrive at any tick; p > 0: exactly one every p ticks
    Async,       \* the handlers given to UseAsync, in order
    Workers,     \* the worker goroutines NewAsyncPipeline starts
    WorkerCap,   \* the capacity of workerCh (256)
    NoTask       \* a worker that holds no task

ASSUME /\ Chain \in Seq({"limit", "cors", "plain"})
       /\ Rate \in Nat \ {0} /\ K \in Nat \ {0}
       /\ MaxPerTick \in Nat \ {0} /\ Period \in Nat
       /\ Async \in Seq({"logger", "metrics"}) /\ WorkerCap \in Nat

VARIABLES
    now,         \* the clock, in ticks since RateLimiter was called
    tokens,      \* RateLimiter's tokens
    lastRefill,  \* RateLimiter's lastRefill, in ticks
    pc,          \* per goroutine: 0 idle, i the handler it runs next, Len(Chain)+1 the terminal
    method,      \* per goroutine: the method of the request it serves
    aborted,     \* per goroutine: ctx.IsAborted()
    ran,         \* per goroutine: the handler positions its request has invoked
    answers,     \* per goroutine: the responses written to its request's fd
    arrived,     \* requests started in the current tick
    cur,         \* requests the limiter admitted in the current tick
    admits,      \* admits[t]: requests the limiter admitted in tick t-1
    reqOf,       \* per goroutine: the parity of the number of the request its ctx holds
    workerCh,    \* the tasks queued on workerCh: handler, ctx and the request it was queued for
    wtask,       \* per worker: the task it has received and not yet run
    owed,        \* owed[g][j]: runs of async handler j owed to g's completed requests
    stray,       \* runs of an async handler that was not owed
    misread      \* an async handler read a ctx that held another request than its own

asyncVars == <<reqOf, workerCh, wtask, owed, stray, misread>>
vars == <<now, tokens, lastRefill, pc, method, aborted, ran, answers, arrived, cur, admits, asyncVars>>

Final == Len(Chain) + 1

Idle(g) == pc[g] = 0

(***************************************************************************)
(* RateLimiter's closure body under mu: a full refill when more than one   *)
(* second has passed since the last one, then take a token, or abort and   *)
(* write the 429 JSON response with ctx.JSON (pipeline.go 210-235).        *)
(***************************************************************************)
\* Mutant: the refill leaves lastRefill where it was.
Refill_noStamp(tok, last) ==
    IF now - last > K THEN <<Rate, last>> ELSE <<tok, last>>

Refill(tok, last) ==
    IF now - last > K THEN <<Rate, now>> ELSE <<tok, last>>

\* Mutant: a token is taken without checking that one is left.
Limit_noEmptyCheck(g) ==
    LET r == Refill(tokens, lastRefill)
    IN /\ lastRefill' = r[2]
       /\ tokens' = r[1] - 1
       /\ cur' = cur + 1
       /\ UNCHANGED <<aborted, answers>>

Limit(g) ==
    LET r == Refill(tokens, lastRefill)
    IN /\ lastRefill' = r[2]
       /\ IF r[1] > 0
             THEN /\ tokens' = r[1] - 1
                  /\ cur' = cur + 1
                  /\ UNCHANGED <<aborted, answers>>
             ELSE /\ tokens' = r[1]
                  /\ aborted' = [aborted EXCEPT ![g] = TRUE]
                  /\ answers' = [answers EXCEPT ![g] = @ + 1]
                  /\ UNCHANGED cur

(***************************************************************************)
(* CORS stores its headers with SetHeader and, for a preflight request,    *)
(* aborts and calls Status(204) (pipeline.go 186-197). Both only set       *)
(* fields of the context that no response writer reads, so CORS writes     *)
(* nothing to the fd.                                                      *)
(***************************************************************************)
Cors(g) ==
    /\ aborted' = [aborted EXCEPT ![g] = (method[g] = "OPTIONS")]
    /\ UNCHANGED <<tokens, lastRefill, cur, answers>>

Plain(g) == UNCHANGED <<aborted, tokens, lastRefill, cur, answers>>

Handler(g, kind) ==
    CASE kind = "limit" -> Limit(g)
      [] kind = "cors"  -> Cors(g)
      [] kind = "plain" -> Plain(g)

(***************************************************************************)
(* Execute's control: with no middleware the terminal handler runs at      *)
(* once; otherwise after each handler Execute returns if ctx is aborted,   *)
(* and runs the terminal handler only past the last one (pipeline.go       *)
(* 39-60).                                                                 *)
(***************************************************************************)
(***************************************************************************)
(* When the synchronous Execute returns, AsyncPipeline.Execute goes on to  *)
(* its async handlers only if ctx is not aborted (pipeline.go 138-143).    *)
(***************************************************************************)
Return(isAborted) ==
    IF ~isAborted /\ Len(Async) > 0 THEN Final + 1 ELSE 0

\* Mutant: the loop goes on to the next handler after an abort.
Continue_ignoreAbort(i, isAborted) == i + 1

Continue(i, isAborted) ==
    IF isAborted THEN Return(isAborted) ELSE i + 1

\* A request reaches an idle goroutine, which calls Execute.
Arrive(g, m) ==
    /\ Idle(g)
    /\ arrived < MaxPerTick
    /\ Period > 0 => (now % Period = 0 /\ arrived = 0)
    /\ pc' = [pc EXCEPT ![g] = IF Len(Chain) = 0 THEN Final ELSE 1]
    /\ method' = [method EXCEPT ![g] = m]
    /\ aborted' = [aborted EXCEPT ![g] = FALSE]
    /\ ran' = [ran EXCEPT ![g] = {}]
    /\ answers' = [answers EXCEPT ![g] = 0]
    /\ arrived' = arrived + 1
    /\ reqOf' = [reqOf EXCEPT ![g] = 1 - @]
    /\ UNCHANGED <<now, tokens, lastRefill, cur, admits, workerCh, wtask, owed, stray, misread>>

\* The goroutine runs handler pc[g] and checks IsAborted.
Step(g) ==
    /\ pc[g] \in 1..Len(Chain)
    /\ Handler(g, Chain[pc[g]])
    /\ pc' = [pc EXCEPT ![g] = Continue(pc[g], aborted'[g])]
    /\ ran' = [ran EXCEPT ![g] = @ \cup {pc[g]}]
    /\ UNCHANGED <<now, method, arrived, admits, asyncVars>>

\* The terminal handler runs and writes its response (ctx.String), and the
\* synchronous Execute returns; from here the request is owed one run of
\* each async handler.
Terminal(g) ==
    /\ pc[g] = Final
    /\ ~aborted[g]
    /\ pc' = [pc EXCEPT ![g] = Return(aborted[g])]
    /\ ran' = [ran EXCEPT ![g] = @ \cup {Final}]
    /\ answers' = [answers EXCEPT ![g] = @ + 1]
    /\ owed' = [owed EXCEPT ![g] = [j \in 1..Len(Async) |-> @[j] + 1]]
    /\ UNCHANGED <<now, tokens, lastRefill, method, aborted, arrived, cur, admits>>
    /\ UNCHANGED <<reqOf, workerCh, wtask, stray, misread>>

(***************************************************************************)
(* task.handler(task.ctx): an async handler such as Logger reads           *)
(* ctx.Method() and ctx.Path() from the ctx it was given, whatever         *)
(* request that ctx holds by now.                                          *)
(***************************************************************************)
RunTask(t) ==
    /\ owed' = [owed EXCEPT ![t.ctx][t.h] = IF @ > 0 THEN @ - 1 ELSE 0]
    /\ stray' = IF owed[t.ctx][t.h] > 0 THEN stray ELSE stray + 1
    /\ misread' = (misread \/ reqOf[t.ctx] # t.req)

\* Mutant: a full channel drops the task instead of running it inline.
Dispatch_dropWhenFull(g) ==
    LET task == [h |-> pc[g] - Final, ctx |-> g, req |-> reqOf[g]]
    IN  /\ pc[g] \in Final + 1 .. Final + Len(Async)
        /\ IF Len(workerCh) < WorkerCap
              THEN /\ workerCh' = Append(workerCh, task)
                   /\ UNCHANGED <<owed, stray, misread>>
              ELSE UNCHANGED <<workerCh, owed, stray, misread>>
        /\ pc' = [pc EXCEPT ![g] = IF task.h = Len(Async) THEN 0 ELSE @ + 1]
        /\ UNCHANGED <<now, tokens, lastRefill, method, aborted, ran, answers, arrived, cur, admits>>
        /\ UNCHANGED <<reqOf, wtask>>

(***************************************************************************)
(* One iteration of AsyncPipeline.Execute's loop: a task from the pool is  *)
(* sent on workerCh without blocking, or, with the channel full, the       *)
(* handler runs inline on this goroutine (pipeline.go 144-158).            *)
(***************************************************************************)
Dispatch(g) ==
    LET task == [h |-> pc[g] - Final, ctx |-> g, req |-> reqOf[g]]
    IN  /\ pc[g] \in Final + 1 .. Final + Len(Async)
        /\ IF Len(workerCh) < WorkerCap
              THEN /\ workerCh' = Append(workerCh, task)
                   /\ UNCHANGED <<owed, stray, misread>>
              ELSE /\ RunTask(task)
                   /\ UNCHANGED workerCh
        /\ pc' = [pc EXCEPT ![g] = IF task.h = Len(Async) THEN 0 ELSE @ + 1]
        /\ UNCHANGED <<now, tokens, lastRefill, method, aborted, ran, answers, arrived, cur, admits>>
        /\ UNCHANGED <<reqOf, wtask>>

\* A worker's range loop receives the next task (pipeline.go 118-120).
WorkerRecv(w) ==
    /\ wtask[w] = NoTask
    /\ workerCh # <<>>
    /\ wtask' = [wtask EXCEPT ![w] = Head(workerCh)]
    /\ workerCh' = Tail(workerCh)
    /\ UNCHANGED <<now, tokens, lastRefill, pc, method, aborted, ran, answers, arrived, cur, admits>>
    /\ UNCHANGED <<reqOf, owed, stray, misread>>

\* The worker runs the task's handler and puts the task back (pipeline.go 120-121).
WorkerRun(w) ==
    /\ wtask[w] # NoTask
    /\ RunTask(wtask[w])
    /\ wtask' = [wtask EXCEPT ![w] = NoTask]
    /\ UNCHANGED <<now, tokens, lastRefill, pc, method, aborted, ran, answers, arrived, cur, admits>>
    /\ UNCHANGED <<reqOf, workerCh>>

\* The clock moves on once the tick's requests are served; under a uniform
\* load the tick's request must have come.
Tick ==
    /\ \A g \in Goroutines : Idle(g)
    /\ Period > 0 /\ now % Period = 0 => arrived = 1
    /\ now' = now + 1
    /\ admits' = Append(admits, cur)
    /\ arrived' = 0
    /\ cur' = 0
    /\ UNCHANGED <<tokens, lastRefill, pc, method, aborted, ran, answers, asyncVars>>

\* NewAsyncPipeline: an empty workerCh and idle workers (pipeline.go 93-115).
InitAsync ==
    /\ reqOf = [g \in Goroutines |-> 0]
    /\ workerCh = <<>>
    /\ wtask = [w \in Workers |-> NoTask]
    /\ owed = [g \in Goroutines |-> [j \in 1..Len(Async) |-> 0]]
    /\ stray = 0
    /\ misread = FALSE

Init ==
    /\ now = 0
    /\ tokens = Rate
    /\ lastRefill = 0
    /\ pc = [g \in Goroutines |-> 0]
    /\ method \in [Goroutines -> Methods]
    /\ aborted = [g \in Goroutines |-> FALSE]
    /\ ran = [g \in Goroutines |-> {}]
    /\ answers = [g \in Goroutines |-> 0]
    /\ arrived = 0
    /\ cur = 0
    /\ admits = <<>>
    /\ InitAsync

Next ==
    \/ \E g \in Goroutines, m \in Methods : Arrive(g, m)
    \/ \E g \in Goroutines : Step(g) \/ Terminal(g) \/ Dispatch(g)
    \/ \E w \in Workers : WorkerRecv(w) \/ WorkerRun(w)
    \/ Tick

Spec == Init /\ [][Next]_vars

-----------------------------------------------------------------------------

Task == [h : 1..Len(Async), ctx : Goroutines, req : 0..1]

TypeOK ==
    /\ now \in Nat
    /\ tokens \in 0..Rate
    /\ lastRefill \in 0..now
    /\ pc \in [Goroutines -> 0..Final + Len(Async)]
    /\ method \in [Goroutines -> Methods]
    /\ aborted \in [Goroutines -> BOOLEAN]
    /\ ran \in [Goroutines -> SUBSET (1..Final)]
    /\ answers \in [Goroutines -> Nat]
    /\ arrived \in 0..MaxPerTick
    /\ cur \in 0..MaxPerTick
    /\ admits \in Seq(0..MaxPerTick)
    /\ reqOf \in [Goroutines -> 0..1]
    /\ workerCh \in Seq(Task) /\ Len(workerCh) <= WorkerCap
    /\ wtask \in [Workers -> Task \cup {NoTask}]
    /\ owed \in [Goroutines -> [1..Len(Async) -> Nat]]
    /\ stray \in Nat
    /\ misread \in BOOLEAN

\* Requests admitted in the ticks a .. b-1, all of them elapsed.
AdmittedIn(a, b) ==
    FoldFunctionOnSet(+, 0, admits, {t \in 1..Len(admits) : a < t /\ t <= b})

\* The windows of T whole seconds that lie in elapsed time.
Windows == {<<a, T>> \in (0..Len(admits)) \X (1..Len(admits)) : a + T * K <= Len(admits)}

(***************************************************************************)
(* Spec section 8: once a handler aborts, Execute returns; the handlers a  *)
(* request has invoked are a prefix of the chain, and the terminal handler *)
(* is among them only for a request no handler aborted. Execute's loop     *)
(* and its final IsAborted check, with CORS and RateLimiter aborting.      *)
(***************************************************************************)
AbortSkipsRest ==
    \A g \in Goroutines :
        /\ \E j \in 0..Final : ran[g] = 1..j
        /\ aborted[g] => pc[g] = 0 /\ Final \notin ran[g]

(***************************************************************************)
(* Spec section 8: over any T consecutive seconds RateLimiter admits at    *)
(* most Rate * T + Rate requests, whatever the goroutines and the arrival  *)
(* times. Its lazy refill under mu, which resets tokens to the full rate.  *)
(***************************************************************************)
AdmissionUpperBound ==
    \A w \in Windows : AdmittedIn(w[1], w[1] + w[2] * K) <= Rate * w[2] + Rate

(***************************************************************************)
(* Spec section 8: under a uniform offered load at least the rate,         *)
(* RateLimiter admits at least Rate * T - Rate requests over any T         *)
(* consecutive seconds. The refill condition elapsed > time.Second and     *)
(* lastRefill = now, set at the request that finds the second over.        *)
(***************************************************************************)
AdmissionLowerBound ==
    Period > 0 =>
        \A w \in Windows : AdmittedIn(w[1], w[1] + w[2] * K) >= Rate * w[2] - Rate

\* No goroutine is inside Execute, no task is queued and no worker holds one.
Quiescent ==
    /\ \A g \in Goroutines : Idle(g)
    /\ workerCh = <<>>
    /\ \A w \in Workers : wtask[w] = NoTask

(***************************************************************************)
(* Spec section 4.8, async variant: the async handlers run after the       *)
(* synchronous chain finishes non-aborted, on a worker or, with the queue  *)
(* full, inline. Every async handler runs exactly once for each request    *)
(* whose chain completed, and never for an aborted one: no run finds its   *)
(* goroutine owed nothing for that handler, and once the goroutines,       *)
(* workerCh and the workers are all idle nothing is owed. AsyncPipeline.Execute's abort check, its      *)
(* dispatch loop with the inline fallback, and the workers' range loop.    *)
(***************************************************************************)
AsyncExactlyOnce ==
    /\ stray = 0
    /\ Quiescent => \A g \in Goroutines, j \in 1..Len(Async) : owed[g][j] = 0

(***************************************************************************)
(* An async handler such as Logger reads the method and path of the        *)
(* request it was dispatched for. A task carries the ctx pointer, and the  *)
(* goroutine reuses that ctx for its next request once Execute returns.    *)
(***************************************************************************)
AsyncReadsOwnRequest == ~misread

(***************************************************************************)
(* Spec sections 4.8 and 4.9: every request that went through Execute has  *)
(* had exactly one response written, whether the terminal handler answered *)
(* it or a middleware aborted it (RateLimiter with 429, CORS's preflight   *)
(* with 204). RateLimiter's ctx.JSON, CORS's Status(204), and the          *)
(* terminal handler's response.                                            *)
(***************************************************************************)
EveryRequestAnswered ==
    \A g \in Goroutines : Idle(g) /\ ran[g] # {} => answers[g] = 1

=============================================================================
