\* A remote factor is enabled for a vault with profile keys.
CONSTANTS
  Profiles = {p1}
  Vars = {x}
  Values = {1}
  Recipients = {r1}
  DataKeys = {k1}
  ProfileKeys = {e1, e2, e3}
  FactorIds = {i1, i2, i3}
  Passphrases = {a}
  NoPassphrase = NoPassphrase
  RemoteIds = {m1}
  Commands = {"remote-factor", "policies"}
SPECIFICATION CommandsSpec
INVARIANT EverythingOpens
