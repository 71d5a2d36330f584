CONSTANTS
    c1 = c1
    c2 = c2
    c3 = c3
    NoConn = NoConn
    Nil = Nil
    Frag = Frag
    Bad = Bad
    Fds <- MC_Fds
    Conns <- MC_Conns
    BufCap = 2
    MaxSessions = 2
    MaxSends = 2
SPECIFICATION Spec
INVARIANTS
    TypeOK
    PollerMatchesTable
    LiveRecordsIntact
    ReaperTargetIntact
    NoReplyAfterClose
PROPERTY
    ConnectionsEventuallyClosed
