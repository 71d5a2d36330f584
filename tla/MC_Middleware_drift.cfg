\* RateLimiter(2) under a uniform load of one GET every 0.4 s (2.5 per
\* second, above the rate): five ticks to the second, one request every two
\* ticks, for 12 s.
CONSTANTS
    g1 = g1
    g2 = g2
    w1 = w1
    NoTask = NoTask
    Goroutines <- MC_Goroutines
    Chain <- MC_LimitOnly
    Methods <- MC_Get
    Rate = 2
    K = 5
    MaxPerTick = 1
    Period = 2
    Async <- MC_NoAsync
    Workers <- MC_Workers
    WorkerCap = 1
    Horizon = 61
SPECIFICATION Spec
CONSTRAINT TimeBound
INVARIANT
    AdmissionLowerBound
