CONSTANTS
    Methods = {"GET", "POST"}
    Patterns <- MC_Patterns
    Paths <- MC_HighPaths
    NonAscii = {"x80"}
    MaxAdds = 4
    MaxFinds = 3
    Phased = TRUE
SPECIFICATION Spec
INVARIANT NoFindPanic
CHECK_DEADLOCK FALSE
