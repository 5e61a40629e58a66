\* Liveness: two processes, one vault file, one variable; no symmetry.
CONSTANTS
    None = None
    Procs = {p1, p2}
    Paths = {vault}
    Vars = {a}
    Values = {x}
    Origins = {o1}
SPECIFICATION FairSpec
PROPERTIES SavesEnd
