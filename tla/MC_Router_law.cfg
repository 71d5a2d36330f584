CONSTANTS
    Methods = {"GET", "POST"}
    Patterns <- MC_Patterns
    Paths <- MC_Paths
    MaxRoutes = 2
SPECIFICATION Spec
INVARIANT RouteLaw
CHECK_DEADLOCK FALSE
