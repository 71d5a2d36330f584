CONSTANTS
    p1 = p1
    p2 = p2
    NoCaller = NoCaller
    Callers <- MC_Callers
    NoTarget = NoTarget
    Services <- MC_Services
    Targets <- MC_Targets
SPECIFICATION Spec
INVARIANTS
    TypeOK
    AnswersMatchRequests
    RepliesOnlyForDocumentedMethods
PROPERTY
    CallsReturn
\* Once every caller has returned, the client's receive loop and handleConn
\* block on reads of an idle connection: the system may stop.
CHECK_DEADLOCK FALSE
