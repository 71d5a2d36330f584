\* Two goroutines executing a plain handler with Logger given to UseAsync,
\* one worker and a channel of one task, for 1 s.
CONSTANTS
    g1 = g1
    g2 = g2
    w1 = w1
    NoTask = NoTask
    Goroutines <- MC_Goroutines
    Chain <- MC_PlainOnly
    Methods <- MC_Get
    Rate = 1
    K = 2
    MaxPerTick = 2
    Period = 0
    Async <- MC_Async
    Workers <- MC_Workers
    WorkerCap = 1
    Horizon = 2
SPECIFICATION Spec
CONSTRAINT TimeBound
INVARIANT
    AsyncReadsOwnRequest
