\* Two subscribers, one publisher numbering two events, one keepalive tick;
\* every channel holds one item, so each can be full.
CONSTANTS
    c1 = c1
    c2 = c2
    p1 = p1
    Nil = Nil
    Clients <- MC_Clients
    Id <- MC_Id
    Publishers <- MC_OnePublisher
    MaxClients = 2
    NewCap = 1
    DeadCap = 1
    MsgCap = 1
    Buf = 1
    MaxEvents = 2
    MaxTicks = 1
SPECIFICATION Spec
INVARIANT TypeOK
PROPERTY PublishesComplete
PROPERTY UnsubscribedClientsClosed
CHECK_DEADLOCK FALSE
