\* Two goroutines executing RateLimiter(1), CORS and a plain handler on
\* GET and OPTIONS requests, with no async handlers, for 1 s.
CONSTANTS
    g1 = g1
    g2 = g2
    w1 = w1
    NoTask = NoTask
    Goroutines <- MC_Goroutines
    Chain <- MC_Chain
    Methods <- MC_Methods
    Rate = 1
    K = 2
    MaxPerTick = 2
    Period = 0
    Async <- MC_NoAsync
    Workers <- MC_Workers
    WorkerCap = 1
    Horizon = 2
SPECIFICATION Spec
CONSTRAINT TimeBound
INVARIANT
    EveryRequestAnswered
