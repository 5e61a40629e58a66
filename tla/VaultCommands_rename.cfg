\* A profile with a passphrase of its own is renamed in a vault with a passphrase.
CONSTANTS
  Profiles = {p1, p2}
  Vars = {x}
  Values = {1}
  Recipients = {r1}
  DataKeys = {k1}
  ProfileKeys = {e1, e2, e3}
  FactorIds = {i1, i2, i3}
  Passphrases = {a}
  NoPassphrase = NoPassphrase
  RemoteIds = {m1}
  Commands = {"passphrase", "rename", "policies"}
SPECIFICATION CommandsSpec
INVARIANT EverythingOpens
