\* Policies, the passphrase cache, recovery shares, backups and remote requests; no symmetry.
CONSTANTS
  ops = ops
  PolicyProfiles = {p1, p2}
  CacheUsers = {u1, u2}
  Phrases = {a, b, blank}
  Blank = blank
  NoPhrase = NoPhrase
  Ttl = 2
  DataKeyBytes <- KeyBytes
  Draws <- DrawBytes
  SetIds <- OneSet
  ShareLabels <- LabelSeq
  MaxShares = 3
  MaxFiles = 3
  MaxSplits = 1
  MaxGeneration = 3
  MaxWrites = 4
  MaxCopies = 2
  RemoteUsers = {u1, u2}
  RemoteFactorIds = {f1}
  Adapters = {adapter1, adapter2}
  NoAdapter = NoAdapter
  Times = {0, 1}
  MaxRemoteGeneration = 2
SPECIFICATION Spec
INVARIANTS RepairableIsRepaired RepairPreviewIsExact ApplyAllEnforces
  CachedPhraseOpened
  SharesOpenTheirVault OneShareTellsNothing ReadyMeansRecoverable UsedSharesAreSpent
  ReplacedIsKept StatusAgrees
  ValidatedUnlocks
PROPERTIES StaleEntryEnds OneChangePerApproval
