\* The session registry, the bindings and shims, the reminders, the device seals,
\* the factors of operations, with two or three processes each; the restores of one.
CONSTANTS
  p1 = p1  p2 = p2  p3 = p3
  n1 = n1  n2 = n2  n3 = n3  n4 = n4
  Pids = {p1, p2}
  Tokens = {n1, n2, n3, n4}
  SessionVaults = {v1, v2}
  SessionProfiles = {a}
  Nobody = Nobody
  ShimProcs = {p1, p2}
  ShimProfiles = {n1, n2}
  ShimCommands = {c1, c2}
  ShimDirs <- NoDir
  Absent = Absent
  ReminderProcs = {p1, p2}
  ReminderVaults = {n1, n2}
  NoVault = NoVault
  Sealers = {p1, p2}
  SealedVaults = {v1, v2}
  SealBackends = {keychain, anyapp, tpm}
  WithFallback = {keychain}
  Recreated = {anyapp}
  Tpms = {tpm}
  Torn = Torn
  Secrets = {n1, n2, n3}
  NoSecret = NoSecret
  Callers = {p1, p2, p3}
  Operations = {o1}
  Keys = {n1, n2, n3}
  Tombstone = Tombstone
  Vacant = Vacant
  None = None
  Procs = {p3}
  Paths = {v1}
  Synced = FALSE
  Monotonic = FALSE
  Replays = FALSE
  Restores = TRUE
  MaxSaves = 3
  MaxCopies = 2
SPECIFICATION ProcessesSpec
SYMMETRY Symmetry
INVARIANTS LiveSessionsAreListed ShimsFollowBindings SettledRemindersAreRight SealsHold AnswersStand RestoredV2VaultsOpen
PROPERTIES SignalsOnlyWhatItChecked KillReachesItsScope OtherFilesStay SyncRepairs
