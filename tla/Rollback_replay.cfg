\* Two commands, two vaults in one rollback.toml, restores, old copies put back, the external counter.
CONSTANTS
    None = None
    Procs = {p1, p2}
    Paths = {vault, other}
    Synced = FALSE
    Monotonic = TRUE
    Replays = TRUE
    Restores = TRUE
    MaxSaves = 2
    MaxCopies = 1
SPECIFICATION BoundedSpec
SYMMETRY Symmetry
INVARIANTS RecordsStand
PROPERTIES RefusesOlder
