CONSTANTS
    t1 = t1
    t2 = t2
    t3 = t3
    Tasks <- MC_Tasks
    NumWorkers = 2
    QCap = 1
    UintBits = 4
    NoTask = NoTask
SPECIFICATION Spec
SYMMETRY MC_Symmetry
INVARIANT
    NoSendOnClosedChannel
