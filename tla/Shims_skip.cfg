\* One command at a time; a fragment may bind what bindings.toml binds.
CONSTANTS
  ShimProcs = {p1}
  ShimProfiles = {a, b}
  ShimCommands = {c1}
  ShimDirs <- CustomDir
  Absent = Absent
SPECIFICATION ShimSpec
INVARIANTS RunSkipsShims
