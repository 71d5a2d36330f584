CONSTANTS
    Kinds <- MC_Kinds
    Routes <- MC_Routes
    MaxRequests = 2
    BufCap = 24
    SndCap = 8
    Pipelined = FALSE
    Ints <- MC_Ints
SPECIFICATION Spec
INVARIANT TypeOK
INVARIANT NoSynthesizedRequest
INVARIANT ResponsesByteExact
PROPERTY RequestsAnswered
CHECK_DEADLOCK FALSE
