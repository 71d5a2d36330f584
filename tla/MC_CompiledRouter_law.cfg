CONSTANTS
    Methods = {"GET", "POST"}
    Patterns <- MC_Patterns
    Paths <- MC_Paths
    NonAscii = {"x80"}
    MaxAdds = 4
    MaxFinds = 3
    Phased = TRUE
SPECIFICATION Spec
INVARIANT FindSound
CHECK_DEADLOCK FALSE
