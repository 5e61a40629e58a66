\* Four settings of the commands that change a vault: see MC_Commands.
CONSTANTS
  p1 = p1  p2 = p2  x = x  r1 = r1  r2 = r2  k1 = k1  k2 = k2
  e1 = e1  e2 = e2  e3 = e3  i1 = i1  i2 = i2  i3 = i3  i4 = i4  i5 = i5
  a = a  b = b  m1 = m1  NoPassphrase = NoPassphrase
  Profiles = {p1, p2}
  Vars = {x, y}
  Values = {1}
  Recipients = {r1, r2}
  DataKeys = {k1}
  ProfileKeys = {e1}
  FactorIds = {i1, i2, i3, i4}
  Passphrases = {a}
  RemoteIds = {m1}
  Commands = {"recipients", "store", "unset", "rename", "passphrase", "device", "remote-factor"}
  SshKeys = {r1, r2}
  PluginKeys = {plugin}
  NativeKeys = {native}
  NoKey = NoKey
  Machines <- SomeMachines
  MaxRotations = 2
SPECIFICATION Spec
SYMMETRY Symmetry
INVARIANTS EverythingOpens KeepsItsWord OpensForTheGranted RotatesUnaided
PROPERTIES RekeyedWithItsFactors OneProfileAtATime PlainRefinesStore
