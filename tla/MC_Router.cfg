CONSTANTS
    Methods = {"GET", "POST"}
    Patterns <- MC_Patterns
    Paths <- MC_Paths
    MaxRoutes = 3
SPECIFICATION Spec
INVARIANT TypeOK
INVARIANT StaticExact
CHECK_DEADLOCK FALSE
