CONSTANTS
    Methods = {"GET", "POST"}
    Patterns <- MC_Patterns
    Paths <- MC_Paths
    NonAscii = {"x80"}
    MaxAdds = 4
    MaxFinds = 3
    Phased = FALSE
SPECIFICATION Spec
INVARIANT CacheCoherent
CHECK_DEADLOCK FALSE
