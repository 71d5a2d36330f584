CONSTANTS
    Kinds <- MC_BareKinds
    Routes <- MC_Routes
    SndCap = 8
    Ints <- MC_Ints
    MaxRequests = 1
    BufCap = 24
    Pipelined = FALSE
SPECIFICATION Spec
PROPERTY RequestsAnswered
CHECK_DEADLOCK FALSE
