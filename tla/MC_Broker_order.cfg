CONSTANTS
    c1 = c1
    c2 = c2
    p1 = p1
    Nil = Nil
    Clients <- MC_Clients
    Id <- MC_Id
    Publishers <- MC_OnePublisher
    MaxClients = 2
    NewCap = 1
    DeadCap = 1
    MsgCap = 1
    Buf = 1
    MaxEvents = 2
    MaxTicks = 1
SPECIFICATION Spec
INVARIANT EventsInIdOrder
CHECK_DEADLOCK FALSE
