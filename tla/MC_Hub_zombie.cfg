CONSTANTS
    a = a
    b = b
    NoClient = NoClient
    Clients <- MC_Clients
    MaxClients = 2
    RegCap = 2
    UnregCap = 8
    BcastCap = 2
    SendCap = 1
    MaxMsgs = 2
    MaxDirect = 1
SPECIFICATION Spec
PROPERTY
    DisconnectedClientsRemoved
\* An idle hub is every goroutine blocked on a channel: the system may stop.
CHECK_DEADLOCK FALSE
