\* Two goroutines executing RateLimiter(1), CORS and a plain handler; two
\* clock ticks to the second, at most two requests a tick, for 4 s; Logger given to UseAsync, one worker and a channel of one task.
CONSTANTS
    g1 = g1
    g2 = g2
    w1 = w1
    NoTask = NoTask
    Goroutines <- MC_Goroutines
    Chain <- MC_Chain
    Methods <- MC_Methods
    Rate = 1
    K = 2
    MaxPerTick = 2
    Period = 0
    Async <- MC_Async
    Workers <- MC_Workers
    WorkerCap = 1
    Horizon = 8
SPECIFICATION Spec
CONSTRAINT TimeBound
INVARIANTS
    TypeOK
    AbortSkipsRest
    AdmissionUpperBound
    AsyncExactlyOnce
