CONSTANTS
    a = a
    b = b
    NoClient = NoClient
    Clients <- MC_Clients
    MaxClients = 1
    RegCap = 2
    UnregCap = 6
    BcastCap = 2
    SendCap = 1
    MaxMsgs = 1
    MaxDirect = 1
SPECIFICATION Spec
INVARIANTS
    TypeOK
    ClosedClientsUnregistered
PROPERTY
    SlowClientsEventuallyDropped
\* An idle hub is every goroutine blocked on a channel: the system may stop.
CHECK_DEADLOCK FALSE
