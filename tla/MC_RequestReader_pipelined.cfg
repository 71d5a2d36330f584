CONSTANTS
    Kinds <- MC_PipelinedKinds
    Routes <- MC_Routes
    SndCap = 8
    Ints <- MC_Ints
    MaxRequests = 2
    BufCap = 24
    Pipelined = TRUE
SPECIFICATION Spec
INVARIANT NoSynthesizedRequest
CHECK_DEADLOCK FALSE
