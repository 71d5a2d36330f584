--------------------------- MODULE MC_Middleware ---------------------------
EXTENDS Middleware

CONSTANTS g1, g2, w1, Horizon

MC_Goroutines == {g1, g2}

\* RateLimiter first, then CORS, then a handler such as RequestID.
MC_Chain == <<"limit", "cors", "plain">>

MC_Methods == {"GET", "OPTIONS"}

\* A chain of RateLimiter alone, serving GET requests.
MC_LimitOnly == <<"limit">>

MC_Get == {"GET"}

\* A chain of one handler with no effect on control, such as RequestID.
MC_PlainOnly == <<"plain">>

\* One worker goroutine, and Logger and Metrics given to UseAsync.
MC_Workers == {w1}

MC_Async == <<"logger">>

MC_NoAsync == <<>>

\* The clock is explored up to Horizon ticks.
TimeBound == now <= Horizon

=============================================================================
