\* The last variable of a profile is unset in a vault with profile keys.
CONSTANTS
  Profiles = {p1}
  Vars = {x}
  Values = {1}
  Recipients = {r1}
  DataKeys = {k1}
  ProfileKeys = {e1, e2, e3}
  FactorIds = {i1, i2, i3}
  Passphrases = {a}
  NoPassphrase = NoPassphrase
  RemoteIds = {m1}
  Commands = {"unset", "policies"}
SPECIFICATION CommandsSpec
INVARIANT KeepsItsWord
