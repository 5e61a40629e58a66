\* Two commands, two vaults in one rollback.toml, all three baselines.
CONSTANTS
    None = None
    Procs = {p1, p2}
    Paths = {vault, other}
    Synced = TRUE
    Monotonic = TRUE
    Replays = FALSE
    Restores = FALSE
    MaxSaves = 2
    MaxCopies = 1
SPECIFICATION RecordsSpec
SYMMETRY Symmetry
INVARIANTS NoLockout
