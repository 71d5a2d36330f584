CONSTANTS
    Kinds <- MC_BodyKinds
    Routes <- MC_Routes
    SndCap = 8
    Ints <- MC_Ints
    MaxRequests = 1
    BufCap = 24
    Pipelined = FALSE
SPECIFICATION Spec
INVARIANT NoSynthesizedRequest
CHECK_DEADLOCK FALSE
