\* Two processes; two vault files with two creations and one variable, or one of
\* each with two variables.
CONSTANTS
    None = None
    Procs = {p1, p2}
    Paths = {vault, copy}
    Vars = {a, b}
    Values = {x}
    Origins = {o1, o2}
SYMMETRY Symmetry
SPECIFICATION BoundedSpec
INVARIANTS TypeOK LockDiscipline RetainedViewIsCurrent
PROPERTIES StoreChangesAreIsolated RefinesRegister VaultKeepsItsOrigin
