---------------------------- MODULE Security_proofs ----------------------------
(***************************************************************************)
(* What `sshenv security` keeps in and around a vault, for any number of   *)
(* users, passphrases, copies, adapters and requests.                      *)
(*                                                                         *)
(* Cache: a command that reached "cache" has opened what it loaded with    *)
(* the passphrase it is about to remember, and what it loaded was, then,   *)
(* what opens the vault.                                                   *)
(*                                                                         *)
(* Backups: what was replaced last is the newest of the copies.            *)
(*                                                                         *)
(* Remote factor: whoever may save has loaded a vault without a factor, or *)
(* has an approval of the generation it loaded.                            *)
(*                                                                         *)
(* Policies: a v1 vault has no factors that its migration could lose, and  *)
(* `apply-all` undoes for one profile nothing it did for another.          *)
(***************************************************************************)
EXTENDS PassphraseCache, RemoteRequests, VaultBackups, ProfilePolicies, FoldLemmas

-----------------------------------------------------------------------------
(* The passphrase cache.                                                     *)

CachePhrases == Phrases \cup {NoPhrase}

UnlockingTypes == [at : {"rest", "obtain", "unlock", "cache"}, loaded : CachePhrases,
                   phrase : CachePhrases]

CacheTypes ==
  /\ vaultPhrase \in CachePhrases
  /\ everOpened \in SUBSET CachePhrases
  /\ cached \in [phrase : CachePhrases, left : 0 .. Ttl]
  /\ caching \in [on : BOOLEAN, usable : BOOLEAN]
  /\ unlocking \in [CacheUsers -> UnlockingTypes]

\* What opens the vault, and what a command loaded, did open it.
LoadedOpened ==
  /\ vaultPhrase \in everOpened /\ NoPhrase \in everOpened
  /\ \A u \in CacheUsers : unlocking[u].loaded \in everOpened

\* What is about to be remembered opened what was loaded.
RemembersWhatOpened ==
  \A u \in CacheUsers : unlocking[u].at = "cache" => unlocking[u].phrase = unlocking[u].loaded

CacheIInv == CacheTypes /\ LoadedOpened /\ RemembersWhatOpened /\ CachedPhraseOpened

LEMMA CacheInitIInv == CacheInit => CacheIInv
BY CacheAssumption
   DEF CacheInit, CacheIInv, CacheTypes, LoadedOpened, RemembersWhatOpened, CachedPhraseOpened,
       NoEntry, AtRest, UnlockingTypes, CachePhrases

\* A step that leaves the commands and what opened the vault alone, and caches
\* nothing new.
LEMMA CacheShrinksKeepsIInv ==
  ASSUME CacheIInv, UNCHANGED <<vaultPhrase, everOpened, unlocking>>,
         caching' \in [on : BOOLEAN, usable : BOOLEAN],
         cached' \in [phrase : {cached.phrase, NoPhrase}, left : 0 .. Ttl],
         cached'.phrase \in everOpened
  PROVE  CacheIInv'
BY DEF CacheIInv, CacheTypes, LoadedOpened, RemembersWhatOpened, CachedPhraseOpened, CachePhrases

\* A step of one command that caches nothing.
LEMMA UnlockingKeepsIInv ==
  ASSUME CacheIInv, NEW u \in CacheUsers, NEW new \in UnlockingTypes,
         unlocking' = [unlocking EXCEPT ![u] = new],
         new.loaded \in everOpened, new.at = "cache" => new.phrase = new.loaded,
         UNCHANGED <<vaultPhrase, everOpened, caching>>,
         cached' \in [phrase : CachePhrases, left : 0 .. Ttl],
         cached'.phrase \in everOpened
  PROVE  CacheIInv'
<1>1. unlocking \in [CacheUsers -> UnlockingTypes]
  BY DEF CacheIInv, CacheTypes
<1>2. /\ unlocking' \in [CacheUsers -> UnlockingTypes]
      /\ unlocking'[u] = new
      /\ \A w \in CacheUsers : w # u => unlocking'[w] = unlocking[w]
  BY <1>1
<1>3. CacheTypes'
  BY <1>2 DEF CacheIInv, CacheTypes
<1>4. LoadedOpened' /\ RemembersWhatOpened'
  BY <1>2 DEF CacheIInv, LoadedOpened, RemembersWhatOpened
<1> QED
  BY <1>3, <1>4 DEF CacheIInv, CachedPhraseOpened

LEMMA CacheStep == CacheIInv /\ [CacheNext]_cacheVars => CacheIInv'
<1> SUFFICES ASSUME CacheIInv, [CacheNext]_cacheVars PROVE CacheIInv'
  OBVIOUS
<1>1. /\ unlocking \in [CacheUsers -> UnlockingTypes]
      /\ cached \in [phrase : CachePhrases, left : 0 .. Ttl]
      /\ cached.phrase \in everOpened /\ NoPhrase \in everOpened
      /\ caching \in [on : BOOLEAN, usable : BOOLEAN]
  BY DEF CacheIInv, CacheTypes, CachedPhraseOpened, LoadedOpened
<1>2. AtRest \in UnlockingTypes /\ AtRest.loaded = NoPhrase /\ AtRest.at # "cache"
  BY DEF AtRest, UnlockingTypes, CachePhrases
<1>3. NoEntry \in [phrase : {cached.phrase, NoPhrase}, left : 0 .. Ttl] /\ NoEntry.phrase = NoPhrase
  BY CacheAssumption DEF NoEntry
<1>4. ASSUME NEW w \in Phrases \cup {NoPhrase}, ChangeVaultPhrase(w) PROVE CacheIInv'
  BY <1>4 DEF ChangeVaultPhrase, CacheIInv, CacheTypes, LoadedOpened, RemembersWhatOpened,
              CachedPhraseOpened, CachePhrases
<1>5. CASE EditConfig
  BY <1>1, <1>5, CacheShrinksKeepsIInv DEF EditConfig
<1>6. CASE ClearCache
  BY <1>1, <1>3, <1>6, CacheShrinksKeepsIInv DEF ClearCache
<1>7. CASE Tick
  <2>1. cached' \in [phrase : {cached.phrase, NoPhrase}, left : 0 .. Ttl] /\ cached'.phrase = cached.phrase
    BY <1>1, <1>7, CacheAssumption DEF Tick
  <2> QED
    BY <1>1, <1>7, <2>1, CacheShrinksKeepsIInv DEF Tick
<1>8. ASSUME NEW u \in CacheUsers, LoadVault(u) PROVE CacheIInv'
  <2> DEFINE new == [unlocking[u] EXCEPT !.at = "obtain", !.loaded = vaultPhrase]
  <2>1. new \in UnlockingTypes /\ new.loaded = vaultPhrase /\ new.at # "cache"
    BY <1>1 DEF UnlockingTypes, CacheIInv, CacheTypes
  <2>2. unlocking' = [unlocking EXCEPT ![u] = new] /\ vaultPhrase \in everOpened
    BY <1>8 DEF LoadVault, CacheIInv, LoadedOpened
  <2> HIDE DEF new
  <2> QED
    BY <1>1, <1>8, <2>1, <2>2, UnlockingKeepsIInv DEF LoadVault
<1>9. ASSUME NEW u \in CacheUsers, NEW w \in CachePhrases, Obtained(u, w),
             UNCHANGED <<vaultPhrase, everOpened, caching>>,
             cached' = cached \/ cached' = NoEntry
      PROVE  CacheIInv'
  <2> DEFINE new == [unlocking[u] EXCEPT !.at = "unlock", !.phrase = w]
  <2>1. new \in UnlockingTypes /\ new.loaded = unlocking[u].loaded /\ new.at # "cache"
    BY <1>1 DEF UnlockingTypes
  <2>2. unlocking' = [unlocking EXCEPT ![u] = new] /\ unlocking[u].loaded \in everOpened
    BY <1>9 DEF Obtained, CacheIInv, LoadedOpened
  <2>3. cached' \in [phrase : CachePhrases, left : 0 .. Ttl] /\ cached'.phrase \in everOpened
    BY <1>1, <1>3, <1>9 DEF CachePhrases
  <2> HIDE DEF new
  <2> QED
    BY <1>9, <2>1, <2>2, <2>3, UnlockingKeepsIInv
<1>10. ASSUME NEW u \in CacheUsers, ObtainFromEnvironment(u) PROVE CacheIInv'
  BY <1>9, <1>10 DEF ObtainFromEnvironment, CachePhrases
<1>11. ASSUME NEW u \in CacheUsers, ObtainFromCache(u) PROVE CacheIInv'
  BY <1>1, <1>9, <1>11 DEF ObtainFromCache
<1>12. ASSUME NEW u \in CacheUsers, Prompt(u) PROVE CacheIInv'
  BY <1>9, <1>12 DEF Prompt, CachePhrases
<1>13. ASSUME NEW u \in CacheUsers, Ended(u), UNCHANGED <<vaultPhrase, everOpened, caching>>,
              cached' \in [phrase : CachePhrases, left : 0 .. Ttl], cached'.phrase \in everOpened
       PROVE  CacheIInv'
  BY <1>1, <1>2, <1>13, UnlockingKeepsIInv DEF Ended
<1>14. ASSUME NEW u \in CacheUsers, GiveUp(u) PROVE CacheIInv'
  BY <1>1, <1>13, <1>14 DEF GiveUp
<1>15. ASSUME NEW u \in CacheUsers, Unlock(u) PROVE CacheIInv'
  <2>1. CASE unlocking[u].phrase = unlocking[u].loaded
    <3> DEFINE new == [unlocking[u] EXCEPT !.at = "cache"]
    <3>1. new \in UnlockingTypes /\ new.loaded = unlocking[u].loaded /\ new.phrase = new.loaded
      BY <1>1, <2>1 DEF UnlockingTypes
    <3>2. unlocking' = [unlocking EXCEPT ![u] = new] /\ unlocking[u].loaded \in everOpened
      BY <1>15, <2>1 DEF Unlock, CacheIInv, LoadedOpened
    <3> HIDE DEF new
    <3> QED
      BY <1>1, <1>15, <3>1, <3>2, UnlockingKeepsIInv DEF Unlock
  <2>2. CASE unlocking[u].phrase # unlocking[u].loaded
    BY <1>1, <1>13, <1>15, <2>2 DEF Unlock
  <2> QED
    BY <2>1, <2>2
<1>16. ASSUME NEW u \in CacheUsers, CachePhrase(u) PROVE CacheIInv'
  <2>1. unlocking[u].phrase \in CachePhrases /\ unlocking[u].phrase \in everOpened
    BY <1>1, <1>16 DEF CachePhrase, CacheIInv, RemembersWhatOpened, LoadedOpened, UnlockingTypes
  <2>2. cached' \in [phrase : CachePhrases, left : 0 .. Ttl] /\ cached'.phrase \in everOpened
    BY <1>1, <1>16, <2>1, CacheAssumption DEF CachePhrase
  <2> QED
    BY <1>13, <1>16, <2>2 DEF CachePhrase
<1>17. CASE UNCHANGED cacheVars
  BY <1>17 DEF cacheVars, CacheIInv, CacheTypes, LoadedOpened, RemembersWhatOpened, CachedPhraseOpened
<1> QED
  BY <1>4, <1>5, <1>6, <1>7, <1>8, <1>10, <1>11, <1>12, <1>14, <1>15, <1>16, <1>17 DEF CacheNext

(***************************************************************************)
(* The entry of the cache, the commands and the vault keep their types,    *)
(* and no entry lives longer than a whole time to live.                    *)
(***************************************************************************)
THEOREM CacheTyping == CacheSpec => []CacheTypes
<1>1. CacheIInv => CacheTypes
  BY DEF CacheIInv
<1> QED
  BY <1>1, CacheInitIInv, CacheStep, PTL DEF CacheSpec

(***************************************************************************)
(* What the passphrase cache holds did open the vault at some time: what   *)
(* failed to unlock is never written, by any number of overlapping         *)
(* commands, whatever the vault's passphrase was changed to meanwhile      *)
(* (cache_vault_passphrase_if_present runs after the unlock succeeded).    *)
(***************************************************************************)
THEOREM CachedPhrasesAlwaysOpened == CacheSpec => []CachedPhraseOpened
<1>1. CacheIInv => CachedPhraseOpened
  BY DEF CacheIInv
<1> QED
  BY <1>1, CacheInitIInv, CacheStep, PTL DEF CacheSpec

-----------------------------------------------------------------------------
(* Backups, restores and baselines.                                          *)

BackupFiles == [gen : 0 .. MaxGeneration, id : Nat]

BackupTypes ==
  /\ vault \in BackupFiles /\ replaced \in BackupFiles
  /\ backups \in Seq(BackupFiles)
  /\ localBase \in 0 .. MaxGeneration /\ syncedBase \in 0 .. MaxGeneration
  /\ synced \in BOOLEAN
  /\ writes \in Nat

\* A file that somebody damaged is not copied, so what was replaced is a file.
ReplacedIsNewest ==
  replaced # Damaged => Len(backups) > 0 /\ backups[Len(backups)] = replaced

BackupIInv == BackupTypes /\ ReplacedIsNewest

LEMMA BackupInitIInv == BackupInit => BackupIInv
BY BackupAssumption
   DEF BackupInit, BackupIInv, BackupTypes, ReplacedIsNewest, BackupFiles, File, Damaged

LEMMA NewerType ==
  ASSUME NEW m \in 0 .. MaxGeneration, NEW n \in 0 .. MaxGeneration
  PROVE  Newer(m, n) \in 0 .. MaxGeneration
BY DEF Newer

LEMMA RecordType ==
  ASSUME BackupTypes, NEW gen \in 0 .. MaxGeneration, Record(gen)
  PROVE  localBase' \in 0 .. MaxGeneration /\ syncedBase' \in 0 .. MaxGeneration
BY NewerType DEF BackupTypes, Record, Recorded

LEMMA SavedAsType ==
  ASSUME BackupTypes, SavedAs
  PROVE  /\ vault' \in BackupFiles /\ writes' \in Nat
         /\ localBase' \in 0 .. MaxGeneration /\ syncedBase' \in 0 .. MaxGeneration
<1>1. PICK gen \in IF vault.gen = 0 THEN {0, 1} ELSE {vault.gen + 1} :
             gen <= MaxGeneration /\ vault' = File(gen, writes + 1) /\ Record(gen)
  BY DEF SavedAs
<1>2. gen \in 0 .. MaxGeneration
  BY <1>1, BackupAssumption DEF BackupTypes, BackupFiles
<1>3. vault' \in BackupFiles /\ writes' \in Nat
  BY <1>1, <1>2 DEF BackupTypes, BackupFiles, File, SavedAs
<1> QED
  BY <1>1, <1>2, <1>3, RecordType

\* A file put at the end is the newest.
LEMMA AppendedIsNewest ==
  ASSUME BackupTypes
  PROVE  LET more == Append(backups, vault)
         IN  more \in Seq(BackupFiles) /\ Len(more) > 0 /\ more[Len(more)] = vault
BY DEF BackupTypes

\* What prune leaves ends in the newest, unless it may take everything.
LEMMA PruneKeepsTheNewest ==
  ASSUME BackupTypes, NEW keep \in Nat, PruneBackups(keep)
  PROVE  /\ backups' \in Seq(BackupFiles)
         /\ keep # 0 => Len(backups') > 0 /\ backups'[Len(backups')] = backups[Len(backups)]
<1>1. backups \in Seq(BackupFiles)
  BY DEF BackupTypes
<1>0. PICK n \in 0 .. Len(backups) : \E order \in [1 .. n -> DOMAIN backups] :
             /\ \A i, j \in 1 .. n : i < j => order[i] < order[j]
             /\ NewestOf(keep) \subseteq {order[i] : i \in 1 .. n}
             /\ backups' = [i \in 1 .. n |-> backups[order[i]]]
  BY DEF PruneBackups
<1>2. PICK order \in [1 .. n -> DOMAIN backups] :
             /\ \A i, j \in 1 .. n : i < j => order[i] < order[j]
             /\ NewestOf(keep) \subseteq {order[i] : i \in 1 .. n}
             /\ backups' = [i \in 1 .. n |-> backups[order[i]]]
  BY <1>0
<1>3. \A i \in 1 .. n : order[i] \in 1 .. Len(backups) /\ backups[order[i]] \in BackupFiles
  BY <1>1
<1>4. n \in Nat /\ Len(backups) \in Nat
  BY <1>1
<1>5. backups' \in Seq(BackupFiles) /\ Len(backups') = n
  BY <1>2, <1>3, <1>4
<1>6. ASSUME keep # 0 PROVE n > 0 /\ order[n] = Len(backups)
  <2>1. Len(backups) \in NewestOf(keep)
    BY <1>1, <1>4, <1>6 DEF NewestOf, PruneBackups
  <2>2. PICK k \in 1 .. n : order[k] = Len(backups)
    BY <1>2, <2>1
  <2>3. n \in 1 .. n /\ order[n] <= Len(backups)
    BY <1>3, <1>4
  <2>4. ~ (k < n)
    BY <1>2, <1>4, <2>2, <2>3, <1>3
  <2> QED
    BY <1>4, <2>2, <2>4
<1> QED
  BY <1>2, <1>5, <1>6

LEMMA BackupStep == BackupIInv /\ [BackupNext]_backupVars => BackupIInv'
<1> SUFFICES ASSUME BackupIInv, [BackupNext]_backupVars PROVE BackupIInv'
  OBVIOUS
<1>1. BackupTypes
  BY DEF BackupIInv
<1>2. CASE SaveVault
  BY <1>1, <1>2, SavedAsType DEF SaveVault, BackupIInv, BackupTypes, ReplacedIsNewest
<1>3. CASE OpenVault
  <2>1. vault.gen \in 0 .. MaxGeneration
    BY <1>1 DEF BackupTypes, BackupFiles
  <2> QED
    BY <1>1, <1>3, <2>1, RecordType DEF OpenVault, BackupIInv, BackupTypes, ReplacedIsNewest
<1>4. CASE BulkCommand
  <2>1. BackupTypes'
    BY <1>1, <1>4, SavedAsType, AppendedIsNewest DEF BulkCommand, BackupTypes
  <2>2. ReplacedIsNewest'
    BY <1>1, <1>4, AppendedIsNewest DEF BulkCommand, ReplacedIsNewest
  <2> QED
    BY <2>1, <2>2 DEF BackupIInv
<1>5. ASSUME NEW file \in ToSet(backups), RestoreBackup(file) PROVE BackupIInv'
  <2>1. file \in BackupFiles
    BY <1>1 DEF BackupTypes, ToSet
  <2>2. /\ file.gen \in 0 .. MaxGeneration /\ vault.gen \in 0 .. MaxGeneration
        /\ localBase \in 0 .. MaxGeneration /\ syncedBase \in 0 .. MaxGeneration
    BY <1>1, <2>1 DEF BackupTypes, BackupFiles
  <2>3. localBase' \in 0 .. MaxGeneration /\ syncedBase' \in 0 .. MaxGeneration
    BY <1>5, <2>2, NewerType DEF RestoreBackup, Recorded, BaselineRestored
  <2>4. BackupTypes'
    BY <1>1, <1>5, <2>1, <2>3, AppendedIsNewest DEF RestoreBackup, CopiedAside, BackupTypes
  <2>5. ReplacedIsNewest'
    BY <1>1, <1>5, AppendedIsNewest DEF RestoreBackup, CopiedAside, ReplacedIsNewest
  <2> QED
    BY <2>4, <2>5 DEF BackupIInv
<1>6. ASSUME NEW keep \in 0 .. MaxCopies, PruneBackups(keep) PROVE BackupIInv'
  <2>1. keep \in Nat
    BY BackupAssumption
  <2>2. Damaged \in BackupFiles
    BY BackupAssumption DEF Damaged, File, BackupFiles
  <2>3. BackupTypes'
    BY <1>1, <1>6, <2>1, <2>2, PruneKeepsTheNewest DEF PruneBackups, BackupTypes
  <2>4. ReplacedIsNewest'
    BY <1>1, <1>6, <2>1, PruneKeepsTheNewest DEF PruneBackups, BackupIInv, ReplacedIsNewest, Damaged, File
  <2> QED
    BY <2>3, <2>4 DEF BackupIInv
<1>7. ASSUME NEW file \in ToSet(backups) \cup {Damaged}, PutBack(file) PROVE BackupIInv'
  <2>1. Damaged \in BackupFiles
    BY BackupAssumption DEF Damaged, File, BackupFiles
  <2>2. \A f \in ToSet(backups) : f \in BackupFiles
    BY <1>1 DEF BackupTypes, ToSet
  <2> QED
    BY <1>7, <2>1, <2>2 DEF PutBack, BackupIInv, BackupTypes, ReplacedIsNewest
<1>8. ASSUME NEW document \in Checkpoints, SetCheckpoint(document) PROVE BackupIInv'
  BY <1>8 DEF SetCheckpoint, BackupIInv, BackupTypes, ReplacedIsNewest
<1>9. CASE UNCHANGED backupVars
  BY <1>9 DEF backupVars, BackupIInv, BackupTypes, ReplacedIsNewest
<1> QED
  BY <1>2, <1>3, <1>4, <1>5, <1>6, <1>7, <1>8, <1>9 DEF BackupNext

(***************************************************************************)
(* The vault, its copies and the two baselines keep their types: no        *)
(* command, restore or pruning makes a generation out of nothing.          *)
(***************************************************************************)
THEOREM BackupTyping == BackupSpec => []BackupTypes
<1>1. BackupIInv => BackupTypes
  BY DEF BackupIInv
<1> QED
  BY <1>1, BackupInitIInv, BackupStep, PTL DEF BackupSpec

(***************************************************************************)
(* What the last repair-all, apply-all or restore-backup replaced is still *)
(* among the copies, after any number of saves, restores and prunings that *)
(* leave a copy at all: it is the newest, and pruning takes the oldest.    *)
(***************************************************************************)
THEOREM ReplacedIsAlwaysKept == BackupSpec => []ReplacedIsKept
<1>1. BackupIInv => ReplacedIsKept
  <2> SUFFICES ASSUME BackupIInv, replaced # Damaged PROVE replaced \in ToSet(backups)
    BY DEF ReplacedIsKept
  <2>1. backups \in Seq(BackupFiles) /\ Len(backups) > 0 /\ backups[Len(backups)] = replaced
    BY DEF BackupIInv, BackupTypes, ReplacedIsNewest
  <2> QED
    BY <2>1 DEF ToSet
<1> QED
  BY <1>1, BackupInitIInv, BackupStep, PTL DEF BackupSpec

(***************************************************************************)
(* rollback-status suspects a v2 vault exactly when check_generation       *)
(* refuses it, with a synced baseline or without, and after a restore that *)
(* lowered one of the two: the newer of the baselines is what counts in    *)
(* both places.                                                            *)
(***************************************************************************)
THEOREM StatusAlwaysAgrees == BackupSpec => []StatusAgrees
<1>1. BackupIInv => StatusAgrees
  <2> SUFFICES ASSUME BackupIInv, vault.gen # 0
               PROVE  RollbackSuspected(vault.gen) <=> ~CheckGeneration(vault.gen)
    BY DEF StatusAgrees
  <2>1. vault.gen \in Nat /\ localBase \in Nat /\ syncedBase \in Nat /\ synced \in BOOLEAN
    BY BackupAssumption DEF BackupIInv, BackupTypes, BackupFiles
  <2>2. CASE synced
    BY <2>1, <2>2 DEF RollbackSuspected, CheckGeneration, Newer
  <2>3. CASE ~synced
    BY <2>1, <2>3 DEF RollbackSuspected, CheckGeneration, Newer
  <2> QED
    BY <2>2, <2>3
<1> QED
  BY <1>1, BackupInitIInv, BackupStep, PTL DEF BackupSpec

-----------------------------------------------------------------------------
(* Requests to the adapter of a remote factor.                               *)

RemoteVaults ==
  [gen : 0 .. MaxRemoteGeneration, remotes : SUBSET RemoteMetadata,
   factor : [id : RemoteFactorIds \cup {NoAdapter}, wrappedBy : Adapters \cup {NoAdapter}]]

AskingTypes == [at : {"rest", "ask", "open"}, loaded : RemoteVaults, approved : SUBSET Nat]

RemoteTypes == remoteVault \in RemoteVaults /\ asking \in [RemoteUsers -> AskingTypes]

\* The metadata of a factor is imported in the place of what there was.
OneFactorPerId == \A m, n \in remoteVault.remotes : m.id = n.id => m = n

\* Who may save has opened what it loaded with an approval for it.
OpensWithApproval ==
  \A u \in RemoteUsers :
    asking[u].at = "open" =>
      asking[u].loaded.factor = NoFactor \/ asking[u].loaded.gen \in asking[u].approved

RemoteIInv == RemoteTypes /\ OneFactorPerId /\ OpensWithApproval

LEMMA NewVaultType == NewVault \in RemoteVaults /\ Asking("rest", NewVault) \in AskingTypes
<1>1. NewVault \in RemoteVaults
  BY RemoteAssumption DEF NewVault, RemoteVaults, NoFactor
<1> QED
  BY <1>1 DEF Asking, AskingTypes

LEMMA RemoteInitIInv == RemoteInit => RemoteIInv
<1> SUFFICES ASSUME RemoteInit PROVE RemoteIInv
  OBVIOUS
<1>1. RemoteTypes
  BY NewVaultType DEF RemoteInit, RemoteTypes
<1>2. OneFactorPerId
  BY DEF RemoteInit, NewVault, OneFactorPerId
<1>3. OpensWithApproval
  BY DEF RemoteInit, Asking, OpensWithApproval
<1> QED
  BY <1>1, <1>2, <1>3 DEF RemoteIInv

\* A step of one process, which leaves the vault alone or is at rest after it.
LEMMA AskingKeepsIInv ==
  ASSUME RemoteIInv, NEW u \in RemoteUsers, NEW new \in AskingTypes,
         asking' = [asking EXCEPT ![u] = new],
         new.at = "open" => new.loaded.factor = NoFactor \/ new.loaded.gen \in new.approved,
         remoteVault' \in RemoteVaults, OneFactorPerId'
  PROVE  RemoteIInv'
<1>1. asking \in [RemoteUsers -> AskingTypes]
  BY DEF RemoteIInv, RemoteTypes
<1>2. /\ asking' \in [RemoteUsers -> AskingTypes]
      /\ asking'[u] = new
      /\ \A w \in RemoteUsers : w # u => asking'[w] = asking[w]
  BY <1>1
<1>3. RemoteTypes'
  BY <1>2 DEF RemoteTypes
<1>4. OpensWithApproval'
  BY <1>2 DEF RemoteIInv, OpensWithApproval
<1> QED
  BY <1>3, <1>4 DEF RemoteIInv

\* A save of a vault with one factor for each id.
LEMMA SavingKeepsIInv ==
  ASSUME RemoteIInv, NEW u \in RemoteUsers, NEW v \in RemoteVaults, SavesRemote(u, v),
         \A m, n \in v.remotes : m.id = n.id => m = n
  PROVE  RemoteIInv'
<1>1. asking[u].loaded.gen \in 0 .. MaxRemoteGeneration
  BY DEF RemoteIInv, RemoteTypes, AskingTypes, RemoteVaults
<1>2. asking[u].loaded.gen + 1 \in 0 .. MaxRemoteGeneration
  BY <1>1, RemoteAssumption DEF SavesRemote
<1>3. remoteVault' \in RemoteVaults /\ remoteVault'.remotes = v.remotes
  BY <1>2 DEF SavesRemote, RemoteVaults
<1>4. OneFactorPerId'
  BY <1>3 DEF OneFactorPerId
<1>5. asking' = [asking EXCEPT ![u] = Asking("rest", NewVault)] /\ Asking("rest", NewVault).at = "rest"
  BY DEF SavesRemote, Rests, Asking
<1> QED
  BY <1>3, <1>4, <1>5, NewVaultType, AskingKeepsIInv

\* What is saved replaces what was loaded, so that it has one factor for each id.
LEMMA LoadedHasOneFactorPerId ==
  ASSUME RemoteIInv, NEW u \in RemoteUsers, asking[u].loaded = remoteVault
  PROVE  /\ asking[u].loaded \in RemoteVaults
         /\ \A m, n \in asking[u].loaded.remotes : m.id = n.id => m = n
BY DEF RemoteIInv, RemoteTypes, OneFactorPerId

LEMMA WithMetadataKeepsTypes ==
  ASSUME NEW v \in RemoteVaults, NEW m \in RemoteMetadata,
         \A a, b \in v.remotes : a.id = b.id => a = b
  PROVE  /\ WithMetadata(v, m) \in RemoteVaults
         /\ \A a, b \in WithMetadata(v, m).remotes : a.id = b.id => a = b
<1>1. WithMetadata(v, m) = [v EXCEPT !.remotes = {n \in v.remotes : n.id # m.id} \cup {m}]
  BY DEF WithMetadata
<1>2. WithMetadata(v, m).remotes = {n \in v.remotes : n.id # m.id} \cup {m}
  BY <1>1 DEF RemoteVaults
<1>3. WithMetadata(v, m) \in RemoteVaults
  BY <1>1 DEF RemoteVaults
<1> QED
  BY <1>2, <1>3

LEMMA RemoteStep == RemoteIInv /\ [RemoteNext]_remoteVars => RemoteIInv'
<1> SUFFICES ASSUME RemoteIInv, [RemoteNext]_remoteVars PROVE RemoteIInv'
  OBVIOUS
<1> USE DEF RemoteIInv
<1>1. /\ remoteVault \in RemoteVaults /\ asking \in [RemoteUsers -> AskingTypes]
      /\ remoteVault' = remoteVault => OneFactorPerId'
  BY DEF RemoteTypes, OneFactorPerId
<1>2. ASSUME NEW u \in RemoteUsers, LoadRemote(u) PROVE RemoteIInv'
  <2>1. Asking("ask", remoteVault) \in AskingTypes /\ Asking("ask", remoteVault).at # "open"
    BY <1>1 DEF Asking, AskingTypes
  <2> QED
    BY <1>1, <1>2, <2>1, AskingKeepsIInv DEF LoadRemote
<1>3. ASSUME NEW u \in RemoteUsers, NotAsked(u) PROVE RemoteIInv'
  <2> DEFINE new == [asking[u] EXCEPT !.at = "open"]
  <2>1. new \in AskingTypes /\ new.loaded.factor = NoFactor
    BY <1>1, <1>3 DEF AskingTypes, NotAsked
  <2>2. asking' = [asking EXCEPT ![u] = new]
    BY <1>3 DEF NotAsked
  <2> HIDE DEF new
  <2> QED
    BY <1>1, <1>3, <2>1, <2>2, AskingKeepsIInv DEF NotAsked
<1>4. ASSUME NEW u \in RemoteUsers, EndRemote(u) PROVE RemoteIInv'
  <2>1. Asking("rest", NewVault).at # "open"
    BY DEF Asking
  <2> QED
    BY <1>1, <1>4, <2>1, NewVaultType, AskingKeepsIInv DEF EndRemote, Rests
<1>5. ASSUME NEW u \in RemoteUsers, NEW r \in Requests, NEW now \in Times, Ask(u, r, now)
      PROVE  RemoteIInv'
  <2> DEFINE new == [asking[u] EXCEPT !.at = "open", !.approved = {r.generation.n}]
  <2>1. r.generation.n = asking[u].loaded.gen /\ asking[u].loaded.gen \in Nat
    BY <1>1, <1>5 DEF Ask, RequestAccepted, NamesGeneration, AskingTypes, RemoteVaults
  <2>2. new \in AskingTypes /\ new.loaded.gen \in new.approved
    BY <1>1, <2>1 DEF AskingTypes
  <2>3. asking' = [asking EXCEPT ![u] = new]
    BY <1>1, <1>5 DEF Ask
  <2>4. remoteVault' = remoteVault
    BY <1>5 DEF Ask
  <2> HIDE DEF new
  <2> QED
    BY <1>1, <2>2, <2>3, <2>4, AskingKeepsIInv
<1>6. ASSUME NEW u \in RemoteUsers, SaveOther(u) PROVE RemoteIInv'
  BY <1>6, LoadedHasOneFactorPerId, SavingKeepsIInv DEF SaveOther, SavesRemote
<1>7. ASSUME NEW u \in RemoteUsers, NEW id \in RemoteFactorIds, RemoveMetadata(u, id) PROVE RemoteIInv'
  <2> DEFINE old == asking[u].loaded
             v   == [old EXCEPT !.remotes = {m \in @ : m.id # id}]
  <2>1. old \in RemoteVaults /\ \A m, n \in old.remotes : m.id = n.id => m = n
    BY <1>7, LoadedHasOneFactorPerId DEF RemoveMetadata, SavesRemote
  <2>2. v \in RemoteVaults /\ v.remotes \subseteq old.remotes
    BY <2>1 DEF RemoteVaults
  <2> QED
    BY <1>7, <2>1, <2>2, SavingKeepsIInv DEF RemoveMetadata
<1>8. ASSUME NEW u \in RemoteUsers, NEW m \in RemoteMetadata, ImportMetadata(u, m) PROVE RemoteIInv'
  <2>1. asking[u].loaded = remoteVault
    BY <1>8 DEF ImportMetadata, SavesRemote
  <2> QED
    BY <1>8, <2>1, LoadedHasOneFactorPerId, WithMetadataKeepsTypes, SavingKeepsIInv DEF ImportMetadata
<1>9. ASSUME NEW u \in RemoteUsers, NEW m \in RemoteMetadata, EnableAdapter(u, m) PROVE RemoteIInv'
  <2> DEFINE w == WithMetadata(asking[u].loaded, m)
             v == [w EXCEPT !.factor = [id |-> m.id, wrappedBy |-> m.adapter]]
  <2>1. asking[u].loaded = remoteVault
    BY <1>9 DEF EnableAdapter, SavesRemote
  <2>2. w \in RemoteVaults /\ \A a, b \in w.remotes : a.id = b.id => a = b
    BY <2>1, LoadedHasOneFactorPerId, WithMetadataKeepsTypes
  <2>3. [id |-> m.id, wrappedBy |-> m.adapter]
          \in [id : RemoteFactorIds \cup {NoAdapter}, wrappedBy : Adapters \cup {NoAdapter}]
    BY DEF RemoteMetadata
  <2>4. SavesRemote(u, v)
    BY <1>9 DEF EnableAdapter
  <2> HIDE DEF w
  <2>5. v \in RemoteVaults /\ v.remotes = w.remotes
    BY <2>2, <2>3 DEF RemoteVaults
  <2> HIDE DEF v
  <2> QED
    BY <2>2, <2>4, <2>5, SavingKeepsIInv
<1>10. CASE UNCHANGED remoteVars
  BY <1>10 DEF remoteVars, RemoteTypes, OneFactorPerId, OpensWithApproval
<1> QED
  BY <1>2, <1>3, <1>4, <1>5, <1>6, <1>7, <1>8, <1>9, <1>10 DEF RemoteNext

(***************************************************************************)
(* The metadata in the vault and the processes keep their types, and no    *)
(* step makes two factors of one id.                                       *)
(***************************************************************************)
THEOREM RemoteTyping == RemoteSpec => [](RemoteTypes /\ OneFactorPerId)
<1>1. RemoteIInv => RemoteTypes /\ OneFactorPerId
  BY DEF RemoteIInv
<1> QED
  BY <1>1, RemoteInitIInv, RemoteStep, PTL DEF RemoteSpec

\* Only a save changes the vault, and it replaces what its process had loaded.
LEMMA OnlySavesChange ==
  ASSUME RemoteIInv, [RemoteNext]_remoteVars, remoteVault' # remoteVault
  PROVE  \E u \in RemoteUsers :
           /\ asking[u].at = "open" /\ asking[u].loaded = remoteVault
           /\ asking'[u].at = "rest"
<1>1. PICK u \in RemoteUsers : \E v : SavesRemote(u, v)
  BY DEF RemoteNext, remoteVars, LoadRemote, NotAsked, EndRemote, Ask, SaveOther, RemoveMetadata,
         ImportMetadata, EnableAdapter
<1>2. asking[u].at = "open" /\ asking[u].loaded = remoteVault
  BY <1>1 DEF SavesRemote
<1>3. asking' = [asking EXCEPT ![u] = Asking("rest", NewVault)]
  BY <1>1 DEF SavesRemote, Rests
<1>4. asking'[u].at = "rest"
  BY <1>3 DEF RemoteIInv, RemoteTypes, Asking
<1> QED
  BY <1>2, <1>4

(***************************************************************************)
(* An approval of an adapter is good for one change of the vault: a vault  *)
(* with a remote factor is replaced by a process whose request named the   *)
(* generation it replaces, and that process has to ask again.  It takes    *)
(* both the generation check of remote_factor_key and the comparison of    *)
(* save_vault with what was loaded.                                        *)
(***************************************************************************)
THEOREM AnApprovalIsForOneChange == RemoteSpec => OneChangePerApproval
<1>1. RemoteIInv /\ [RemoteNext]_remoteVars =>
        (remoteVault' # remoteVault /\ remoteVault.factor # NoFactor =>
           \E u \in RemoteUsers :
             /\ asking[u].at = "open" /\ asking'[u].at = "rest"
             /\ remoteVault.gen \in asking[u].approved)
  BY OnlySavesChange DEF RemoteIInv, OpensWithApproval
<1> QED
  BY <1>1, RemoteInitIInv, RemoteStep, PTL DEF RemoteSpec, OneChangePerApproval

(***************************************************************************)
(* What `remote validate-request --expected-generation` calls valid, and   *)
(* what `remote request-template` writes, an unlock accepts at that time:  *)
(* three pieces of code read the generation in three ways, and agree on    *)
(* the form in which it is written.                                        *)
(***************************************************************************)
THEOREM ValidatedAlwaysUnlocks == RemoteSpec => []ValidatedUnlocks
<1>1. ValidatedUnlocks
  <2> SUFFICES ASSUME NEW m \in remoteVault.remotes, m.id = remoteVault.factor.id, HasBackend(m),
                      NEW now \in Times
               PROVE  /\ \A r \in Requests :
                           Validated(m, r, remoteVault.gen, now) => RequestAccepted(remoteVault, r, now)
                      /\ RequestAccepted(remoteVault, Template(m, remoteVault.gen, now), now)
    BY DEF ValidatedUnlocks
  <2>1. \A r \in Requests :
          Validated(m, r, remoteVault.gen, now) => RequestAccepted(remoteVault, r, now)
    BY DEF Validated, ExpectedGeneration, RequestAccepted, NamesGeneration, Written
  <2>2. ValidRequest(m, Template(m, remoteVault.gen, now), now)
    BY RemoteAssumption DEF ValidRequest, Template, Written
  <2>3. NamesGeneration(Template(m, remoteVault.gen, now), remoteVault.gen)
    BY DEF NamesGeneration, Template, Written
  <2> QED
    BY <2>1, <2>2, <2>3 DEF RequestAccepted
<1> QED
  BY <1>1, PTL

-----------------------------------------------------------------------------
(* Profile policies.                                                         *)

Policies   == [preset : Presets, required : SUBSET Kinds, meta : SUBSET Kinds]
PolicyMaps == UNION {[P -> Policies] : P \in SUBSET PolicyProfiles}

\* What is on the disk: finitely many profiles, and no profile keys, factors or shares
\* before the vault is a v2 one.  Migration clears them, so a plan made for a v1
\* vault would be wrong if they could be there.
SoundVaults ==
  {w \in VaultRecords :
     /\ IsFiniteSet(PolicyNames(w))
     /\ w.version = 1 => ~w.keys /\ w.factors = {} /\ ~w.shares}

PolicyIInv == backend \in BOOLEAN /\ stored \in SoundVaults

\* The types of the fields of a vault.
LEMMA VaultTypes ==
  ASSUME NEW w \in VaultRecords
  PROVE  /\ w.version \in {1, 2} /\ w.keys \in BOOLEAN /\ w.factors \in SUBSET Kinds
         /\ w.shares \in BOOLEAN /\ w.names \in SUBSET PolicyProfiles
         /\ w.entries \in SUBSET PolicyProfiles
         /\ DOMAIN w.policies \in SUBSET PolicyProfiles
         /\ \A q \in DOMAIN w.policies : w.policies[q] \in Policies
<1>1. PICK P \in SUBSET PolicyProfiles : w.policies \in [P -> Policies]
  BY DEF VaultRecords, Policies
<1> QED BY <1>1 DEF VaultRecords

\* Every profile has a policy, the default one if the vault has none for it.
LEMMA PolicyOfType ==
  ASSUME NEW w \in VaultRecords, NEW p
  PROVE  PolicyOf(w, p) \in Policies
BY VaultTypes DEF PolicyOf, DefaultPolicy, Policies, Presets

\* Two vaults with the same files and keys, which may differ in the policy of p.
SameBut(x, w, p) ==
  /\ x.names = w.names /\ x.entries = w.entries
  /\ x.factors = w.factors /\ x.shares = w.shares
  /\ DOMAIN w.policies \subseteq DOMAIN x.policies
  /\ DOMAIN x.policies \subseteq DOMAIN w.policies \cup {p}
  /\ \A q \in DOMAIN w.policies : q # p => x.policies[q] = w.policies[q]

\* A change of one policy leaves a sound vault sound.
LEMMA SameButSound ==
  ASSUME NEW w \in SoundVaults, NEW x \in VaultRecords, NEW p, SameBut(x, w, p),
         x.version = 1 => w.version = 1 /\ x.keys = w.keys
  PROVE  x \in SoundVaults
<1>1. PolicyNames(x) \subseteq PolicyNames(w) \cup {p}
  BY DEF SameBut, PolicyNames
<1>2. IsFiniteSet(PolicyNames(w) \cup {p})
  BY FS_AddElement DEF SoundVaults
<1>3. IsFiniteSet(PolicyNames(x))
  BY <1>1, <1>2, FS_Subset
<1> QED BY <1>3 DEF SoundVaults, SameBut

\* WithPolicy sets the policy of one profile and nothing else.
LEMMA WithPolicyIs ==
  ASSUME NEW w \in SoundVaults, NEW p \in PolicyProfiles, NEW policy \in Policies,
         NEW x, x = WithPolicy(w, p, policy)
  PROVE  /\ x \in SoundVaults /\ SameBut(x, w, p) /\ x.version = w.version /\ x.keys = w.keys
         /\ p \in DOMAIN x.policies /\ x.policies[p] = policy
<1>0. w \in VaultRecords
  BY DEF SoundVaults
<1> DEFINE D == DOMAIN w.policies \cup {p}
           m == [q \in D |-> IF q = p THEN policy ELSE w.policies[q]]
<1>1. x = [w EXCEPT !.policies = m]
  BY DEF WithPolicy
<1>2. DOMAIN w.policies \in SUBSET PolicyProfiles /\ \A q \in DOMAIN w.policies : w.policies[q] \in Policies
  BY <1>0, VaultTypes
<1>3. D \in SUBSET PolicyProfiles /\ m \in [D -> Policies]
  BY <1>2
<1>4. DOMAIN m = D /\ \A q \in D : m[q] = IF q = p THEN policy ELSE w.policies[q]
  OBVIOUS
<1>5. m \in PolicyMaps
  BY <1>3 DEF PolicyMaps
<1> HIDE DEF m
<1>6. /\ x \in VaultRecords /\ x.policies = m /\ x.names = w.names /\ x.entries = w.entries
      /\ x.factors = w.factors /\ x.shares = w.shares /\ x.version = w.version /\ x.keys = w.keys
  BY <1>0, <1>1, <1>5 DEF VaultRecords, PolicyMaps, Policies
<1>7. SameBut(x, w, p)
  BY <1>4, <1>6 DEF SameBut
<1>8. p \in DOMAIN x.policies /\ x.policies[p] = policy
  BY <1>4, <1>6
<1> QED
  BY <1>6, <1>7, <1>8, SameButSound

-----------------------------------------------------------------------------
(* The steps of a command.                                                   *)

\* The policy that a preset gives to a profile.
Chosen(w, p, preset) ==
  IF preset = "standard" THEN DefaultPolicy ELSE [PolicyOf(w, p) EXCEPT !.preset = preset]

\* It is a policy, of that preset.
LEMMA ChosenIs ==
  ASSUME NEW w \in SoundVaults, NEW p, NEW preset \in Presets
  PROVE  Chosen(w, p, preset) \in Policies /\ Chosen(w, p, preset).preset = preset
<1>1. PolicyOf(w, p) \in Policies
  BY PolicyOfType DEF SoundVaults
<1> QED BY <1>1 DEF Chosen, Policies, DefaultPolicy, Presets

\* Giving a profile its preset changes its policy alone, and needs it unlocked.
LEMMA PresetStep ==
  ASSUME NEW w \in SoundVaults, NEW p, NEW preset \in Presets, NEW x \in Preset(w, p, preset)
  PROVE  /\ p \in w.names /\ p \in PolicyProfiles
         /\ x \in SoundVaults /\ SameBut(x, w, p) /\ x.version = w.version /\ x.keys = w.keys
         /\ p \in DOMAIN x.policies /\ x.policies[p] = Chosen(w, p, preset)
<1>1. p \in w.names /\ x = WithPolicy(w, p, Chosen(w, p, preset))
  BY DEF Preset, Chosen
<1>2. p \in PolicyProfiles
  BY <1>1 DEF SoundVaults, VaultRecords
<1> QED BY <1>1, <1>2, ChosenIs, WithPolicyIs

\* What a step that binds factors does to a policy: what the profile needed and
\* had it still has, and it needs nothing more that it has not.
Bound(x, w, p) ==
  LET new == PolicyOf(x, p)
      old == PolicyOf(w, p)
  IN  /\ new.preset = old.preset
      /\ old.meta \subseteq new.meta
      /\ new.required \ new.meta \subseteq old.required \ old.meta

\* So do two such steps.
LEMMA BoundTwice ==
  ASSUME NEW u, NEW w, NEW x, NEW p, Bound(w, u, p), Bound(x, w, p)
  PROVE  Bound(x, u, p)
BY DEF Bound

\* Two changes of one policy are one.
LEMMA SameButTwice ==
  ASSUME NEW u, NEW w, NEW x, NEW p, SameBut(w, u, p), SameBut(x, w, p)
  PROVE  SameBut(x, u, p)
BY DEF SameBut

\* A vault that profiles with factors can be in.
Keyed(w, p) == w.version = 2 /\ w.keys /\ p \in w.names

\* ProfileRequires binds its factor.
LEMMA RequireStep ==
  ASSUME NEW w \in SoundVaults, NEW p, NEW kind \in Kinds, NEW x \in ProfileRequires(w, p, kind)
  PROVE  /\ x \in SoundVaults /\ Keyed(x, p) /\ SameBut(x, w, p) /\ Bound(x, w, p)
         /\ kind \in PolicyOf(x, p).meta
<1> DEFINE old == PolicyOf(w, p)
           policy == [old EXCEPT !.required = @ \cup {kind}, !.meta = @ \cup {kind}]
<1>1. Editable(w, p) /\ x = WithPolicy(w, p, policy)
  BY DEF ProfileRequires, When
<1>2. p \in PolicyProfiles
  BY <1>1 DEF SoundVaults, VaultRecords, Editable
<1>3. old \in Policies
  BY PolicyOfType DEF SoundVaults
<1>4. /\ policy \in Policies /\ policy.preset = old.preset
      /\ policy.required = old.required \cup {kind} /\ policy.meta = old.meta \cup {kind}
  BY <1>3 DEF Policies
<1> HIDE DEF policy
<1>5. /\ x \in SoundVaults /\ SameBut(x, w, p) /\ x.version = w.version /\ x.keys = w.keys
      /\ p \in DOMAIN x.policies /\ x.policies[p] = policy
  BY <1>1, <1>2, <1>4, WithPolicyIs
<1>6. PolicyOf(x, p) = policy
  BY <1>5 DEF PolicyOf
<1>7. Keyed(x, p)
  BY <1>1, <1>5 DEF Keyed, Editable, SameBut
<1>8. Bound(x, w, p)
  BY <1>4, <1>6 DEF Bound
<1> QED BY <1>4, <1>5, <1>6, <1>7, <1>8

\* A step that changes nothing.
LEMMA StandStill ==
  ASSUME NEW w, NEW p
  PROVE  SameBut(w, w, p) /\ Bound(w, w, p)
BY DEF SameBut, Bound

\* Migration and profile keys change no policy, and lose no factor of the vault: a v1
\* vault has none.
LEMMA BaseStep ==
  ASSUME NEW w \in SoundVaults, NEW p, NEW actions, NEW resolved, NEW x \in WithBase(w, actions, resolved)
  PROVE  /\ x \in SoundVaults /\ SameBut(x, w, p) /\ Bound(x, w, p)
         /\ w.version = 2 => x.version = 2
         /\ w.keys => x.keys
<1>0. w \in VaultRecords /\ (w.version = 1 => ~w.keys /\ w.factors = {} /\ ~w.shares)
  BY DEF SoundVaults
<1>1. PICK m \in (IF "MigrateToV2" \in actions THEN Migrated(w, resolved) ELSE {w}) :
        x = [m EXCEPT !.keys = @ \/ ("EnableProfileKeyMode" \in actions /\ m.version = 2)]
  BY DEF WithBase
<1>2. /\ m \in VaultRecords
      /\ m.names = w.names /\ m.entries = w.entries /\ m.policies = w.policies
      /\ m.factors = w.factors /\ m.shares = w.shares /\ m.keys = w.keys
      /\ m.version = w.version \/ m.version = 2
  <2>1. CASE m = w
    BY <1>0, <2>1
  <2>2. CASE m # w
    <3>1. w.version = 1 /\ m = [w EXCEPT !.version = 2, !.keys = FALSE, !.factors = {}, !.shares = FALSE]
      BY <1>0, <1>1, <2>2 DEF Migrated, When, VaultRecords
    <3> QED BY <1>0, <3>1 DEF VaultRecords
  <2> QED BY <2>1, <2>2
<1>3. /\ x \in VaultRecords
      /\ x.names = w.names /\ x.entries = w.entries /\ x.policies = w.policies
      /\ x.factors = w.factors /\ x.shares = w.shares /\ x.version = m.version
      /\ m.keys => x.keys
      /\ x.version = 1 => x.keys = w.keys
  <2> DEFINE k == m.keys \/ ("EnableProfileKeyMode" \in actions /\ m.version = 2)
  <2>1. k \in BOOLEAN /\ x = [m EXCEPT !.keys = k]
    BY <1>1, <1>2 DEF VaultRecords
  <2>2. (m.keys => k) /\ (m.version = 1 => k = m.keys)
    <3>1. m.keys \in BOOLEAN
      BY <1>2 DEF VaultRecords
    <3>2. m.version = 1 => ~(m.version = 2)
      OBVIOUS
    <3> QED BY <3>1, <3>2, Zenon
  <2> HIDE DEF k
  <2> QED BY <1>2, <2>1, <2>2 DEF VaultRecords
<1>4. SameBut(x, w, p) /\ Bound(x, w, p)
  BY <1>3 DEF SameBut, Bound, PolicyOf
<1> QED BY <1>2, <1>3, <1>4, SameButSound

\* The passphrase is bound when the plan says so, unless it was.
LEMMA PassphraseStep ==
  ASSUME NEW w \in SoundVaults, NEW p, NEW actions, NEW pass,
         NEW x \in WithPassphrase(w, p, actions, pass), Keyed(w, p)
  PROVE  /\ x \in SoundVaults /\ Keyed(x, p) /\ SameBut(x, w, p) /\ Bound(x, w, p)
         /\ "BindPassphrase" \in actions => "passphrase" \in PolicyOf(x, p).meta
<1>1. CASE x = w /\ ("BindPassphrase" \notin actions \/ "passphrase" \in PolicyOf(w, p).meta)
  BY <1>1, StandStill
<1>2. CASE x \in ProfileRequires(w, p, "passphrase")
  BY <1>2, RequireStep DEF Kinds
<1> QED BY <1>1, <1>2 DEF WithPassphrase

\* So is the device seal, in a build that has a backend.
LEMMA DeviceSealStep ==
  ASSUME NEW w \in SoundVaults, NEW p, NEW actions,
         NEW x \in WithDeviceSeal(w, p, actions), Keyed(w, p)
  PROVE  /\ x \in SoundVaults /\ Keyed(x, p) /\ SameBut(x, w, p) /\ Bound(x, w, p)
         /\ "BindDeviceSeal" \in actions /\ backend => "device-seal" \in PolicyOf(x, p).meta
<1>1. CASE x = w /\ ("BindDeviceSeal" \notin actions \/ "device-seal" \in PolicyOf(w, p).meta \/ ~backend)
  BY <1>1, StandStill
<1>2. CASE x \in ProfileRequires(w, p, "device-seal")
  BY <1>2, RequireStep DEF Kinds
<1> QED BY <1>1, <1>2 DEF WithDeviceSeal

\* What the actions of a plan have bound in the end.
Binding(x, p, actions) ==
  /\ "BindPassphrase" \in actions => "passphrase" \in PolicyOf(x, p).meta
  /\ "BindDeviceSeal" \in actions /\ backend => "device-seal" \in PolicyOf(x, p).meta

\* Carrying out the actions of a plan binds what they bind.
LEMMA AppliedStep ==
  ASSUME NEW w \in SoundVaults, NEW p, NEW actions, NEW pass, NEW resolved,
         NEW x \in Applied(w, p, actions, pass, resolved)
  PROVE  /\ x \in SoundVaults /\ Keyed(x, p) /\ SameBut(x, w, p) /\ Bound(x, w, p)
         /\ Binding(x, p, actions)
<1>1. PICK u \in WithBase(w, actions, resolved) :
        Editable(u, p) /\ \E y \in WithPassphrase(u, p, actions, pass) : x \in WithDeviceSeal(y, p, actions)
  BY DEF Applied
<1>2. PICK y \in WithPassphrase(u, p, actions, pass) : x \in WithDeviceSeal(y, p, actions)
  BY <1>1
<1>3. u \in SoundVaults /\ SameBut(u, w, p) /\ Bound(u, w, p)
  BY BaseStep
<1>4. Keyed(u, p)
  BY <1>1 DEF Keyed, Editable
<1>5. /\ y \in SoundVaults /\ Keyed(y, p) /\ SameBut(y, u, p) /\ Bound(y, u, p)
      /\ "BindPassphrase" \in actions => "passphrase" \in PolicyOf(y, p).meta
  BY <1>3, <1>4, PassphraseStep
<1>6. /\ x \in SoundVaults /\ Keyed(x, p) /\ SameBut(x, y, p) /\ Bound(x, y, p)
      /\ "BindDeviceSeal" \in actions /\ backend => "device-seal" \in PolicyOf(x, p).meta
  BY <1>2, <1>5, DeviceSealStep
<1>7. Binding(x, p, actions)
  BY <1>5, <1>6 DEF Binding, Bound
<1>8. SameBut(x, w, p) /\ Bound(x, w, p)
  BY <1>3, <1>5, <1>6, SameButTwice, BoundTwice
<1> QED BY <1>6, <1>7, <1>8

-----------------------------------------------------------------------------
(* The planner.                                                              *)

\* What a profile still needs: factors that are required and met nowhere, and
\* factors of its preset that are not bound.
Needs(w, p) ==
  IF p \notin DOMAIN w.policies THEN {}
  ELSE (w.policies[p].required \ (w.policies[p].meta \cup w.factors))
         \cup (Expected(w.policies[p].preset) \ w.policies[p].meta)

\* A profile of the team preset has recovery shares.
Shared(w, p) == p \in DOMAIN w.policies /\ w.policies[p].preset = "team" => w.shares

\* A plan that is not stuck binds what the profile needs.
LEMMA PlanBindsNeeds ==
  ASSUME NEW w \in VaultRecords, NEW p, PlanOf(w, p).stuck = {}
  PROVE  /\ Shared(w, p)
         /\ \A k \in Needs(w, p) :
              k \in Kinds /\ Bind(k) \in PlanOf(w, p).actions /\ (k = "device-seal" => backend)
<1> DEFINE policy == w.policies[p]
<1>1. PlanOf(w, p).stuck = {f \in Findings(w, p) : Unrepairable(f)}
  BY DEF PlanOf
<1>2. {Bind(f.kind) : f \in {g \in Findings(w, p) : g.kind # "none" /\ ~Unrepairable(g)}}
        \subseteq PlanOf(w, p).actions
  BY DEF PlanOf
<1>3. \A f \in Findings(w, p) : ~Unrepairable(f)
  BY <1>1
<1>4. Shared(w, p)
  <2> SUFFICES ASSUME p \in DOMAIN w.policies, policy.preset = "team", ~w.shares PROVE FALSE
    BY DEF Shared
  <2>1. Finding("team-without-shares", "none") \in Findings(w, p)
    BY DEF Findings, When
  <2> QED BY <1>3, <2>1 DEF Unrepairable, Finding
<1>5. ASSUME NEW k \in Needs(w, p)
      PROVE  k \in Kinds /\ Bind(k) \in PlanOf(w, p).actions /\ (k = "device-seal" => backend)
  <2>1. p \in DOMAIN w.policies
    BY DEF Needs
  <2>2. policy \in Policies
    BY <2>1, VaultTypes
  <2>3. k \in Kinds
    BY <2>1, <2>2 DEF Needs, Policies, Expected, When, Kinds
  <2>4. PICK code \in {"unsatisfied", "missing-binding"} : Finding(code, k) \in Findings(w, p)
    <3>1. CASE k \in policy.required \ (policy.meta \cup w.factors)
      <4>1. Finding("unsatisfied", k) \in Findings(w, p)
        BY <2>1, <3>1 DEF Findings
      <4> QED BY <4>1
    <3>2. CASE k \in Expected(policy.preset) \ policy.meta
      <4>1. Finding("missing-binding", k) \in Findings(w, p)
        BY <2>1, <3>2 DEF Findings
      <4> QED BY <4>1
    <3> QED BY <2>1, <3>1, <3>2 DEF Needs
  <2> DEFINE f == Finding(code, k)
  <2>5. f \in Findings(w, p) /\ ~Unrepairable(f) /\ f.kind = k /\ k # "none"
    BY <1>3, <2>3, <2>4 DEF Finding, Kinds
  <2>6. k = "device-seal" => backend
    BY <2>5 DEF Unrepairable
  <2>7. Bind(k) \in PlanOf(w, p).actions
    <3> HIDE DEF f
    <3> QED BY <1>2, <2>5
  <2> QED BY <2>3, <2>6, <2>7
<1> QED BY <1>4, <1>5

\* A profile that needs nothing, in a vault with profile keys, has an empty plan.
LEMMA NothingToPlan ==
  ASSUME NEW w \in VaultRecords, NEW p \in w.entries, w.version = 2, w.keys,
         Needs(w, p) = {}, Shared(w, p)
  PROVE  PlanOf(w, p).consistent
<1>1. Findings(w, p) = {}
  BY DEF Findings, Needs, Shared, When, Exists
<1>2. When(w.version = 1, "MigrateToV2") = {} /\ When(~w.keys, "EnableProfileKeyMode") = {}
  BY DEF When
<1>3. \A f \in Findings(w, p) : FALSE
  BY <1>1
<1>4. When(\E f \in Findings(w, p) : f.code = "missing-entry", "RegenerateProfileEntry") = {}
  BY <1>3 DEF When
<1>5. {Bind(f.kind) : f \in {g \in Findings(w, p) : g.kind # "none" /\ ~Unrepairable(g)}} = {}
  BY <1>3
<1>6. Binds({}) = {} /\ When(Binds({}) # {} \/ "RegenerateProfileEntry" \in {}, "RotateProfileKey") = {}
  BY DEF Binds, When
<1>7. {f \in Findings(w, p) : Unrepairable(f)} = {}
  BY <1>3
<1> DEFINE required == When(w.version = 1, "MigrateToV2")
                    \cup When(~w.keys, "EnableProfileKeyMode")
                    \cup When(\E f \in Findings(w, p) : f.code = "missing-entry", "RegenerateProfileEntry")
                    \cup {Bind(f.kind) : f \in {g \in Findings(w, p) : g.kind # "none" /\ ~Unrepairable(g)}}
           actions == required \cup When(Binds(required) # {} \/ "RegenerateProfileEntry" \in required,
                                     "RotateProfileKey")
<1>8. required = {}
  BY <1>2, <1>4, <1>5
<1>9. actions = {}
  <2> HIDE DEF required
  <2> QED BY <1>6, <1>8
<1> HIDE DEF actions
<1>10. PlanOf(w, p).consistent = (actions = {} /\ {f \in Findings(w, p) : Unrepairable(f)} = {})
  BY DEF PlanOf, actions
<1> QED BY <1>7, <1>9, <1>10

\* A plan makes the vault one in which a profile can have factors.
LEMMA PlanMigrates ==
  ASSUME NEW w, NEW p
  PROVE  /\ w.version = 1 => "MigrateToV2" \in PlanOf(w, p).actions
         /\ ~w.keys => "EnableProfileKeyMode" \in PlanOf(w, p).actions
BY DEF PlanOf, When

\* What is said of a profile does not depend on which profiles are unlocked.
LEMMA SameStatus ==
  ASSUME NEW w, NEW x, NEW p,
         x.names \cup x.entries = w.names \cup w.entries, x.entries = w.entries,
         x.policies = w.policies, x.version = w.version, x.keys = w.keys,
         x.factors = w.factors, x.shares = w.shares
  PROVE  Status(x, p) = Status(w, p)
<1>1. Findings(x, p) = Findings(w, p)
  BY DEF Findings, Exists
<1>2. PlanOf(x, p) = PlanOf(w, p)
  BY <1>1 DEF PlanOf
<1>3. Hinted(x, p) = Hinted(w, p)
  BY <1>1 DEF Hinted
<1>4. PolicyOf(x, p) = PolicyOf(w, p) /\ \A k : Source(x, p, k) = Source(w, p, k)
  BY DEF PolicyOf, Source
<1> QED BY <1>1, <1>2, <1>3, <1>4, Zenon DEF Status

\* Unlocking adds names and leaves the rest.
LEMMA UnlockedIs ==
  ASSUME NEW w \in VaultRecords, NEW x, NEW E \in SUBSET w.entries,
         x = [w EXCEPT !.names = @ \cup E]
  PROVE  /\ x \in VaultRecords
         /\ x.names = w.names \cup E /\ x.names \cup x.entries = w.names \cup w.entries
         /\ x.entries = w.entries
         /\ x.policies = w.policies /\ x.version = w.version /\ x.keys = w.keys
         /\ x.factors = w.factors /\ x.shares = w.shares
<1>1. w.names \cup E \in SUBSET PolicyProfiles
  BY DEF VaultRecords
<1> DEFINE N == w.names \cup E
<1>2. x = [w EXCEPT !.names = N]
  OBVIOUS
<1> HIDE DEF N
<1>3. /\ x \in VaultRecords /\ x.names = N /\ x.entries = w.entries
      /\ x.policies = w.policies /\ x.version = w.version /\ x.keys = w.keys
      /\ x.factors = w.factors /\ x.shares = w.shares
  BY <1>1, <1>2 DEF VaultRecords, N
<1> QED BY <1>3 DEF N

\* When all that a profile needs is bound it needs nothing any more.
LEMMA BoundMeetsNeeds ==
  ASSUME NEW w \in SoundVaults, NEW p, NEW actions, NEW x \in SoundVaults,
         SameBut(x, w, p), Bound(x, w, p), Binding(x, p, actions), Shared(w, p),
         \A k \in Needs(w, p) : k \in Kinds /\ Bind(k) \in actions /\ (k = "device-seal" => backend)
  PROVE  Needs(x, p) = {} /\ Shared(x, p)
<1> DEFINE new == PolicyOf(x, p)
           old == PolicyOf(w, p)
<1>1. p \in DOMAIN x.policies => new = x.policies[p]
  BY DEF PolicyOf
<1>2. IF p \in DOMAIN w.policies THEN old = w.policies[p] ELSE old = DefaultPolicy
  BY DEF PolicyOf
<1>3. /\ new.preset = old.preset /\ old.meta \subseteq new.meta
      /\ new.required \ new.meta \subseteq old.required \ old.meta
  BY DEF Bound
<1>4. x.factors = w.factors /\ x.shares = w.shares
  BY DEF SameBut
<1>5. Shared(x, p)
  <2>1. old.preset = "team" => w.shares
    BY <1>2 DEF Shared, DefaultPolicy
  <2> QED BY <1>1, <1>3, <1>4, <2>1 DEF Shared
<1>6. ASSUME NEW k \in Needs(x, p) PROVE FALSE
  <2>1. p \in DOMAIN x.policies
    BY DEF Needs
  <2>2. \/ k \in new.required \ (new.meta \cup x.factors)
        \/ k \in Expected(new.preset) \ new.meta
    BY <1>1, <2>1 DEF Needs
  <2>3. k \notin new.meta /\ (k \in old.required \ (old.meta \cup w.factors) \/ k \in Expected(old.preset) \ old.meta)
    BY <1>3, <1>4, <2>2
  <2>4. p \in DOMAIN w.policies
    BY <1>2, <2>3 DEF DefaultPolicy, Expected, When
  <2>5. k \in Needs(w, p)
    BY <1>2, <2>3, <2>4 DEF Needs
  <2>6. k \in Kinds /\ Bind(k) \in actions /\ (k = "device-seal" => backend)
    BY <2>5
  <2>7. k \in new.meta
    BY <2>6 DEF Binding, Bind, Kinds
  <2> QED BY <2>3, <2>7
<1> QED BY <1>5, <1>6

-----------------------------------------------------------------------------
(* Loading and saving.                                                       *)

\* A vault is sound in memory too.
LEMMA UnlockedSound ==
  ASSUME NEW w \in SoundVaults, NEW x, NEW E \in SUBSET w.entries,
         x = [w EXCEPT !.names = @ \cup E]
  PROVE  x \in SoundVaults
<1>1. /\ x \in VaultRecords /\ x.names \cup x.entries = w.names \cup w.entries
      /\ x.policies = w.policies /\ x.version = w.version /\ x.keys = w.keys
      /\ x.factors = w.factors /\ x.shares = w.shares
  BY UnlockedIs DEF SoundVaults
<1>2. PolicyNames(x) = PolicyNames(w)
  BY <1>1 DEF PolicyNames
<1> QED BY <1>1, <1>2 DEF SoundVaults

\* With profile keys a save makes every profile an entry, and changes nothing else.
LEMMA EncodedIs ==
  ASSUME NEW w \in SoundVaults, NEW x, x = Encoded(w)
  PROVE  /\ x \in SoundVaults
         /\ x.names \cup x.entries = w.names \cup w.entries
         /\ w.keys => x.names = {} /\ x.entries = w.names \cup w.entries
         /\ x.policies = w.policies /\ x.version = w.version /\ x.keys = w.keys
         /\ x.factors = w.factors /\ x.shares = w.shares
<1>0. w \in VaultRecords
  BY DEF SoundVaults
<1> DEFINE E == w.entries \cup w.names
<1>1. E \in SUBSET PolicyProfiles
  BY <1>0 DEF VaultRecords
<1>2. IF w.keys THEN x = [w EXCEPT !.entries = E, !.names = {}] ELSE x = w
  BY DEF Encoded
<1> HIDE DEF E
<1>3. /\ x \in VaultRecords
      /\ IF w.keys THEN x.names = {} /\ x.entries = E ELSE x.names = w.names /\ x.entries = w.entries
      /\ x.policies = w.policies /\ x.version = w.version /\ x.keys = w.keys
      /\ x.factors = w.factors /\ x.shares = w.shares
  <2>1. CASE w.keys
    <3>1. x = [w EXCEPT !.entries = E, !.names = {}]
      BY <1>2, <2>1
    <3> QED BY <1>0, <1>1, <2>1, <3>1 DEF VaultRecords
  <2>2. CASE ~w.keys
    BY <1>0, <1>2, <2>2
  <2> QED BY <2>1, <2>2
<1>4. x.names \cup x.entries = w.names \cup w.entries
  BY <1>3 DEF E
<1>5. PolicyNames(x) = PolicyNames(w)
  BY <1>3, <1>4 DEF PolicyNames
<1>6. x \in SoundVaults
  BY <1>3, <1>5 DEF SoundVaults
<1> QED BY <1>3, <1>4, <1>6 DEF E

-----------------------------------------------------------------------------
(* One profile.                                                              *)

\* One profile unlocked.
LEMMA ProfileUnlockedIs ==
  ASSUME NEW w \in SoundVaults, NEW p, NEW x, x = ProfileUnlocked(w, p)
  PROVE  /\ x \in SoundVaults
         /\ x.names = w.names \cup (w.entries \cap {p})
         /\ x.names \cup x.entries = w.names \cup w.entries
         /\ x.entries = w.entries
         /\ x.policies = w.policies /\ x.version = w.version /\ x.keys = w.keys
         /\ x.factors = w.factors /\ x.shares = w.shares
<1> DEFINE E == w.entries \cap {p}
<1>1. E \in SUBSET w.entries /\ x = [w EXCEPT !.names = @ \cup E] /\ w \in VaultRecords
  BY DEF ProfileUnlocked, SoundVaults
<1> HIDE DEF E
<1>2. /\ x.names = w.names \cup E /\ x.names \cup x.entries = w.names \cup w.entries
      /\ x.entries = w.entries
      /\ x.policies = w.policies /\ x.version = w.version /\ x.keys = w.keys
      /\ x.factors = w.factors /\ x.shares = w.shares
  BY <1>1, UnlockedIs
<1>3. x \in SoundVaults
  BY <1>1, UnlockedSound
<1> QED BY <1>2, <1>3 DEF E

\* All profiles unlocked.
LEMMA FullUnlockedIs ==
  ASSUME NEW w \in SoundVaults, NEW x, x = FullUnlocked(w)
  PROVE  /\ x \in SoundVaults
         /\ x.names = w.names \cup w.entries
         /\ x.names \cup x.entries = w.names \cup w.entries
         /\ x.entries = w.entries
         /\ x.policies = w.policies /\ x.version = w.version /\ x.keys = w.keys
         /\ x.factors = w.factors /\ x.shares = w.shares
<1> DEFINE E == w.entries
<1>1. E \in SUBSET w.entries /\ x = [w EXCEPT !.names = @ \cup E] /\ w \in VaultRecords
  BY DEF FullUnlocked, SoundVaults
<1> HIDE DEF E
<1>2. /\ x.names = w.names \cup E /\ x.names \cup x.entries = w.names \cup w.entries
      /\ x.entries = w.entries
      /\ x.policies = w.policies /\ x.version = w.version /\ x.keys = w.keys
      /\ x.factors = w.factors /\ x.shares = w.shares
  BY <1>1, UnlockedIs
<1>3. x \in SoundVaults
  BY <1>1, UnlockedSound
<1> QED BY <1>2, <1>3 DEF E

\* `repair` leaves a sound vault.
LEMMA RepairStep ==
  ASSUME NEW d \in SoundVaults, NEW p, NEW pass, NEW resolved, NEW x \in AfterRepair(d, p, pass, resolved)
  PROVE  x \in SoundVaults
<1> DEFINE v == ProfileUnlocked(d, p)
<1>1. v \in SoundVaults
  BY ProfileUnlockedIs
<1>2. PICK w \in Applied(v, p, PlanOf(v, p).actions, pass, resolved) : x = Encoded(w)
  BY DEF AfterRepair
<1> HIDE DEF v
<1>3. w \in SoundVaults
  BY <1>1, <1>2, AppliedStep
<1> QED BY <1>2, <1>3, EncodedIs

\* `apply` leaves a sound vault.
LEMMA ApplyStep ==
  ASSUME NEW d \in SoundVaults, NEW p, NEW preset \in Presets, NEW pass, NEW resolved, NEW strict,
         NEW x \in AfterApply(d, p, preset, pass, resolved, strict)
  PROVE  x \in SoundVaults
<1> DEFINE v == ProfileUnlocked(d, p)
<1>1. v \in SoundVaults
  BY ProfileUnlockedIs
<1> DEFINE PlannedActions(plan) ==
             plan.actions \cup (IF pass = "given" /\ "passphrase" \in Expected(preset)
                                THEN {"BindPassphrase", "RotateProfileKey"} ELSE {})
           After(plan) == UNION {Applied(w, p, PlannedActions(plan), pass, resolved) :
                                   w \in Preset(v, p, preset)}
           Results(plan) ==
             {IF PlannedActions(plan) = {} /\ plan.consistent THEN d ELSE Encoded(w) : w \in After(plan)}
           Plans == {q \in ApplyPlan(v, p, preset) : InputsGiven({q}, pass, resolved, strict)}
<1>2. x = d \/ \E actions : \E w \in Preset(v, p, preset) :
                 \E y \in Applied(w, p, actions, pass, resolved) : x = Encoded(y)
  <2>1. AfterApply(d, p, preset, pass, resolved, strict) = UNION {Results(plan) : plan \in Plans}
    BY Zenon DEF AfterApply
  <2>2. PICK plan \in Plans : x \in Results(plan)
    <3> HIDE DEF Results, Plans
    <3> QED BY <2>1
  <2> HIDE DEF Plans
  <2>3. PICK y \in After(plan) : x = d \/ x = Encoded(y)
    <3> HIDE DEF After, PlannedActions
    <3> QED BY <2>2
  <2>4. PICK w \in Preset(v, p, preset) : y \in Applied(w, p, PlannedActions(plan), pass, resolved)
    <3> HIDE DEF PlannedActions
    <3> QED BY <2>3
  <2> HIDE DEF PlannedActions
  <2> QED BY <2>3, <2>4
<1> HIDE DEF Results, Plans, After, PlannedActions
<1>3. CASE x = d
  BY <1>3
<1>4. CASE x # d
  <2>1. PICK actions : \E w \in Preset(v, p, preset) :
                 \E y \in Applied(w, p, actions, pass, resolved) : x = Encoded(y)
    BY <1>2, <1>4
  <2>2. PICK w \in Preset(v, p, preset) : \E y \in Applied(w, p, actions, pass, resolved) : x = Encoded(y)
    BY <2>1
  <2>3. PICK y \in Applied(w, p, actions, pass, resolved) : x = Encoded(y)
    BY <2>2
  <2> HIDE DEF v
  <2>4. w \in SoundVaults
    BY <1>1, <2>2, PresetStep
  <2>5. y \in SoundVaults
    BY <2>3, <2>4, AppliedStep
  <2> QED BY <2>3, <2>5, EncodedIs
<1> QED BY <1>3, <1>4

-----------------------------------------------------------------------------
(* Every profile.                                                            *)

\* What a step may leave of a vault at the turn of a profile, and the vaults that
\* there may be after the turns of each set of profiles.
TurnsIn(St, S, V) == St \in [V \X S -> SUBSET V]
TurnsOf(it, S, V, v, St) ==
  /\ it \in [SUBSET S -> SUBSET V]
  /\ \A s \in SUBSET S :
       it[s] = IF s = {} THEN {v} ELSE UNION {St[<<w, Picked(s)>>] : w \in it[Rest(s)]}

\* There is such a function, when a step leaves vaults of V in V.
LEMMA TurnsExist ==
  ASSUME NEW S, IsFiniteSet(S), NEW V, NEW v \in V, NEW St, TurnsIn(St, S, V)
  PROVE  \E it : TurnsOf(it, S, V, v, St)
<1> DEFINE W == SUBSET V
           F == [x \in S \X W |-> UNION {St[<<w, x[1]>>] : w \in x[2]}]
<1>1. StepsIn(F, S, W)
  <2>1. St \in [V \X S -> SUBSET V]
    BY DEF TurnsIn
  <2> QED BY <2>1, ZenonT(40) DEF StepsIn
<1>2. {v} \in W
  OBVIOUS
<1>3. PICK it \in [SUBSET S -> W] : \A s \in SUBSET S : it[s] = Folded(it, s, {v}, F)
  <2> DEFINE base == {v}
  <2>1. base \in W
    OBVIOUS
  <2> HIDE DEF W, F, base
  <2>2. \E it : FoldOf(it, S, W, base, F)
    BY <1>1, <2>1, FoldExists
  <2> QED BY <2>2 DEF FoldOf, base
<1>4. ASSUME NEW s \in SUBSET S
      PROVE  it[s] = IF s = {} THEN {v} ELSE UNION {St[<<w, Picked(s)>>] : w \in it[Rest(s)]}
  <2>1. CASE s = {}
    BY <1>3, <2>1 DEF Folded
  <2>2. CASE s # {}
    <3>1. Picked(s) \in s
      BY <2>2 DEF Picked
    <3>2. Picked(s) \in S /\ Rest(s) \in SUBSET S
      BY <3>1 DEF Rest
    <3>3. it[Rest(s)] \in W
      BY <3>2
    <3>4. <<Picked(s), it[Rest(s)]>> \in S \X W
      BY <3>2, <3>3
    <3>5. F[<<Picked(s), it[Rest(s)]>>] = UNION {St[<<w, Picked(s)>>] : w \in it[Rest(s)]}
      BY <3>4
    <3>6. it[s] = F[<<Picked(s), it[Rest(s)]>>]
      BY <1>3, <2>2 DEF Folded
    <3> QED BY <2>2, <3>5, <3>6
  <2> QED BY <2>1, <2>2
<1> QED BY <1>4 DEF TurnsOf

\* The team preset, given to one profile after the other, leaves a sound vault.
LEMMA TeamStep ==
  ASSUME NEW d \in SoundVaults, NEW x \in AfterTeam(d)
  PROVE  x \in SoundVaults
<1> DEFINE v == FullUnlocked(d)
           S == PolicyNames(v)
           plans == [p \in S |-> p]
           Rec(it) == it = [s \in SUBSET S |->
                              IF s = {} THEN {v}
                              ELSE UNION {Preset(w, Picked(s), "team") : w \in it[Rest(s)]}]
           It == CHOOSE it : Rec(it)
<1>1. v \in SoundVaults
  BY FullUnlockedIs
<1>2. IsFiniteSet(S)
  BY <1>1 DEF SoundVaults
<1>3. PICK w \in AppliedInTurn(v, plans, LAMBDA u, p : Preset(u, p, "team")) : x = Encoded(w)
  BY Zenon DEF AfterTeam
<1>4. AppliedInTurn(v, plans, LAMBDA u, p : Preset(u, p, "team")) = It[DOMAIN plans]
  BY DEF AppliedInTurn, FoldSet, MapThenFoldSet, Picked, Rest
<1>5. DOMAIN plans = S
  OBVIOUS
<1> HIDE DEF v, S, plans
<1>6. \E it : Rec(it)
  <2> DEFINE St == [wp \in SoundVaults \X S |-> Preset(wp[1], wp[2], "team")]
  <2>1. TurnsIn(St, S, SoundVaults)
    BY PresetStep DEF Presets, TurnsIn
  <2>2. PICK it \in [SUBSET S -> SUBSET SoundVaults] : \A s \in SUBSET S :
           it[s] = IF s = {} THEN {v} ELSE UNION {St[<<u, Picked(s)>>] : u \in it[Rest(s)]}
    <3> HIDE DEF St
    <3>1. \E it : TurnsOf(it, S, SoundVaults, v, St)
      BY <1>1, <1>2, <2>1, TurnsExist
    <3> QED BY <3>1 DEF TurnsOf
  <2>3. ASSUME NEW s \in SUBSET S, s # {}
        PROVE  UNION {St[<<u, Picked(s)>>] : u \in it[Rest(s)]}
                 = UNION {Preset(u, Picked(s), "team") : u \in it[Rest(s)]}
    <3>1. Picked(s) \in s
      BY <2>3 DEF Picked
    <3>2. it[Rest(s)] \subseteq SoundVaults /\ Picked(s) \in S
      BY <2>2, <3>1 DEF Rest
    <3> QED BY <3>2
  <2>4. it = [s \in SUBSET S |->
                IF s = {} THEN {v} ELSE UNION {Preset(u, Picked(s), "team") : u \in it[Rest(s)]}]
    <3>1. \A s \in SUBSET S : it[s] = IF s = {} THEN {v} ELSE UNION {Preset(u, Picked(s), "team") : u \in it[Rest(s)]}
      <4> HIDE DEF St
      <4> QED BY <2>2, <2>3
    <3>2. it = [s \in SUBSET S |-> it[s]]
      BY ONLY <2>2
    <3> QED BY ONLY <3>1, <3>2
  <2> QED BY <2>4, Zenon
<1>7. Rec(It)
  <2> HIDE DEF Rec
  <2> QED BY <1>6
<1> HIDE DEF It
<1>8. \A s \in SUBSET S :
        It[s] = IF s = {} THEN {v} ELSE UNION {Preset(u, Picked(s), "team") : u \in It[Rest(s)]}
  BY <1>7
<1> DEFINE G == {s \in SUBSET S : It[s] \subseteq SoundVaults}
<1>9. G \in SUBSET SUBSET S /\ {} \in G
  BY <1>1, <1>8
<1>10. ASSUME NEW s \in SUBSET S, s # {}, Rest(s) \in G PROVE s \in G
  <2> SUFFICES ASSUME NEW y \in It[s] PROVE y \in SoundVaults
    OBVIOUS
  <2>1. PICK u \in It[Rest(s)] : y \in Preset(u, Picked(s), "team")
    <3>1. It[s] = UNION {Preset(u, Picked(s), "team") : u \in It[Rest(s)]}
      BY <1>8, <1>10
    <3> HIDE DEF G
    <3> QED BY <3>1
  <2>2. u \in SoundVaults
    BY <1>10
  <2> QED BY <2>1, <2>2, PresetStep DEF Presets
<1>11. G = SUBSET S
  <2> HIDE DEF G
  <2> QED BY <1>2, <1>9, <1>10, FoldInduction
<1>12. w \in SoundVaults
  BY <1>3, <1>4, <1>5, <1>11
<1> QED BY <1>3, <1>12, EncodedIs

\* `repair-all` leaves a sound vault.
LEMMA RepairAllStep ==
  ASSUME NEW d \in SoundVaults, NEW pass, NEW resolved, NEW strict,
         NEW x \in AfterRepairAll(d, pass, resolved, strict)
  PROVE  x \in SoundVaults
<1> DEFINE v == FullUnlocked(d)
           S == DOMAIN v.policies
           plans  == RepairAllPlans(v)
           phrase == BulkPassphrase(plans, pass)
           Step(w, p) == Applied(w, p, plans[p].actions, phrase, resolved)
           Rec(it) == it = [s \in SUBSET S |->
                              IF s = {} THEN {v}
                              ELSE UNION {Step(w, Picked(s)) : w \in it[Rest(s)]}]
           It == CHOOSE it : Rec(it)
<1>1. v \in SoundVaults
  BY FullUnlockedIs
<1>2. IsFiniteSet(S)
  <2>1. IsFiniteSet(PolicyNames(v)) /\ S \subseteq PolicyNames(v)
    BY <1>1 DEF SoundVaults, PolicyNames
  <2> QED BY <2>1, FS_Subset
<1>3. PICK w \in AppliedInTurn(v, plans, Step) : x = Encoded(w)
  BY Zenon DEF AfterRepairAll
<1>5. DOMAIN plans = S
  BY DEF RepairAllPlans
<1>4. AppliedInTurn(v, plans, Step) = It[S]
  BY <1>5 DEF AppliedInTurn, FoldSet, MapThenFoldSet, Picked, Rest
<1> HIDE DEF v, S, plans, phrase
<1>6. \E it : Rec(it)
  <2> DEFINE St == [wp \in SoundVaults \X S |-> Step(wp[1], wp[2])]
  <2>1. TurnsIn(St, S, SoundVaults)
    BY AppliedStep DEF TurnsIn
  <2> HIDE DEF Step
  <2>2. PICK it \in [SUBSET S -> SUBSET SoundVaults] : \A s \in SUBSET S :
           it[s] = IF s = {} THEN {v} ELSE UNION {St[<<u, Picked(s)>>] : u \in it[Rest(s)]}
    <3> HIDE DEF St
    <3>1. \E it : TurnsOf(it, S, SoundVaults, v, St)
      BY <1>1, <1>2, <2>1, TurnsExist
    <3> QED BY <3>1 DEF TurnsOf
  <2>3. ASSUME NEW s \in SUBSET S, s # {}
        PROVE  UNION {St[<<u, Picked(s)>>] : u \in it[Rest(s)]}
                 = UNION {Step(u, Picked(s)) : u \in it[Rest(s)]}
    <3>1. Picked(s) \in s
      BY <2>3 DEF Picked
    <3>2. it[Rest(s)] \subseteq SoundVaults /\ Picked(s) \in S
      BY <2>2, <3>1 DEF Rest
    <3> QED BY <3>2
  <2>4. it = [s \in SUBSET S |->
                IF s = {} THEN {v} ELSE UNION {Step(u, Picked(s)) : u \in it[Rest(s)]}]
    <3>1. \A s \in SUBSET S : it[s] = IF s = {} THEN {v} ELSE UNION {Step(u, Picked(s)) : u \in it[Rest(s)]}
      <4> HIDE DEF St
      <4> QED BY <2>2, <2>3
    <3>2. it = [s \in SUBSET S |-> it[s]]
      BY ONLY <2>2
    <3> QED BY ONLY <3>1, <3>2
  <2> QED BY <2>4, Zenon
<1>7. Rec(It)
  <2> HIDE DEF Rec
  <2> QED BY <1>6
<1> HIDE DEF It
<1>8. \A s \in SUBSET S :
        It[s] = IF s = {} THEN {v} ELSE UNION {Step(u, Picked(s)) : u \in It[Rest(s)]}
  <2> HIDE DEF Step
  <2> QED BY <1>7
<1> DEFINE G == {s \in SUBSET S : It[s] \subseteq SoundVaults}
<1>9. G \in SUBSET SUBSET S /\ {} \in G
  BY <1>1, <1>8
<1>10. ASSUME NEW s \in SUBSET S, s # {}, Rest(s) \in G PROVE s \in G
  <2> SUFFICES ASSUME NEW y \in It[s] PROVE y \in SoundVaults
    OBVIOUS
  <2>1. PICK u \in It[Rest(s)] : y \in Step(u, Picked(s))
    <3> HIDE DEF Step
    <3>1. It[s] = UNION {Step(u, Picked(s)) : u \in It[Rest(s)]}
      BY <1>8, <1>10
    <3> HIDE DEF G
    <3> QED BY <3>1
  <2>2. u \in SoundVaults
    BY <1>10
  <2> QED BY <2>1, <2>2, AppliedStep
<1>11. G = SUBSET S
  <2> HIDE DEF G
  <2> QED BY <1>2, <1>9, <1>10, FoldInduction
<1>12. w \in SoundVaults
  BY <1>3, <1>4, <1>11
<1> QED BY <1>3, <1>12, EncodedIs

\* A change of one policy changes what the others need as little as it changes them.
LEMMA OthersStay ==
  ASSUME NEW w, NEW x, NEW p, SameBut(x, w, p), NEW q, q # p
  PROVE  /\ q \in DOMAIN x.policies <=> q \in DOMAIN w.policies
         /\ q \in DOMAIN w.policies => x.policies[q] = w.policies[q]
         /\ PolicyOf(x, q) = PolicyOf(w, q)
         /\ Needs(x, q) = Needs(w, q)
         /\ Shared(x, q) <=> Shared(w, q)
<1>1. /\ q \in DOMAIN x.policies <=> q \in DOMAIN w.policies
      /\ q \in DOMAIN w.policies => x.policies[q] = w.policies[q]
      /\ x.factors = w.factors /\ x.shares = w.shares
  BY DEF SameBut
<1> QED BY <1>1 DEF PolicyOf, Needs, Shared

\* The plans of `apply-all` are all made before the first turn, each from the vault
\* as it was loaded; they bind what any vault needs in which that profile has the
\* policy planned for and the factors of the vault are the same.
LEMMA PlannedForAll ==
  ASSUME NEW v \in SoundVaults, NEW preset \in Presets, NEW plans \in ApplyAllPlans(v, preset),
         NEW p \in PolicyNames(v), plans[p].stuck = {}
  PROVE  /\ p \in v.names
         /\ \A z \in SoundVaults :
              /\ p \in DOMAIN z.policies /\ z.policies[p] = Chosen(v, p, preset)
              /\ z.factors = v.factors /\ z.shares = v.shares
              => /\ Shared(z, p)
                 /\ \A k \in Needs(z, p) :
                      k \in Kinds /\ Bind(k) \in plans[p].actions /\ (k = "device-seal" => backend)
<1>1. /\ \A q \in PolicyNames(v) : Preset(v, q, preset) # {}
      /\ plans = [q \in PolicyNames(v) |-> CHOOSE plan \in ApplyPlan(v, q, preset) : TRUE]
  BY DEF ApplyAllPlans
<1>2. PICK y \in Preset(v, p, preset) : TRUE
  BY <1>1
<1>3. ApplyPlan(v, p, preset) # {}
  BY <1>2 DEF ApplyPlan
<1>4. plans[p] \in ApplyPlan(v, p, preset)
  BY <1>1, <1>3
<1>5. PICK w \in Preset(v, p, preset) :
        plans[p] = Adding(PlanOf(w, p), When(preset \in {"standard", "paranoid"}, "RotateProfileKey"))
  BY <1>4 DEF ApplyPlan
<1>6. /\ p \in v.names /\ w \in SoundVaults /\ SameBut(w, v, p)
      /\ p \in DOMAIN w.policies /\ w.policies[p] = Chosen(v, p, preset)
  BY PresetStep
<1>7. PlanOf(w, p).actions \subseteq plans[p].actions /\ PlanOf(w, p).stuck = plans[p].stuck
  <2>1. PICK a, stuck, c : PlanOf(w, p) = [actions |-> a, stuck |-> stuck, consistent |-> c]
    BY ZenonT(40) DEF PlanOf
  <2> DEFINE more == When(preset \in {"standard", "paranoid"}, "RotateProfileKey")
  <2>2. plans[p] = [[actions |-> a, stuck |-> stuck, consistent |-> c] EXCEPT !.actions = @ \cup more]
    BY <1>5, <2>1 DEF Adding
  <2> HIDE DEF more
  <2> QED BY <2>1, <2>2
<1>8. w \in VaultRecords
  BY <1>6 DEF SoundVaults
<1>9. /\ Shared(w, p)
      /\ \A k \in Needs(w, p) :
           k \in Kinds /\ Bind(k) \in plans[p].actions /\ (k = "device-seal" => backend)
  BY <1>7, <1>8, PlanBindsNeeds
<1>10. w.factors = v.factors /\ w.shares = v.shares
  BY <1>6 DEF SameBut
<1> QED BY <1>6, <1>9, <1>10 DEF Needs, Shared

\* After the profiles of s: the same profiles and factors, and whoever had a turn
\* has what the preset asks for.
EnforcedFor(w, v, s, preset) ==
  /\ w \in SoundVaults
  /\ w.names = v.names /\ w.entries = v.entries
  /\ w.factors = v.factors /\ w.shares = v.shares
  /\ DOMAIN w.policies \subseteq PolicyNames(v)
  /\ \A q : q \notin s => PolicyOf(w, q) = PolicyOf(v, q)
  /\ \A q \in s : PolicyOf(w, q).preset = preset /\ Needs(w, q) = {} /\ Shared(w, q)
  /\ s # {} => w.version = 2 /\ w.keys

\* A turn undoes none of the turns before it.
LEMMA EnforcedNext ==
  ASSUME NEW v \in SoundVaults, NEW preset \in Presets, NEW plans \in ApplyAllPlans(v, preset),
         NEW s \in SUBSET PolicyNames(v), NEW p \in PolicyNames(v), p \notin s,
         plans[p].stuck = {}, NEW w, EnforcedFor(w, v, s, preset),
         NEW z \in Preset(w, p, preset),
         NEW actions, plans[p].actions \subseteq actions, NEW pass, NEW resolved,
         NEW x \in Applied(z, p, actions, pass, resolved)
  PROVE  EnforcedFor(x, v, s \cup {p}, preset)
<1>1. w \in SoundVaults /\ PolicyOf(w, p) = PolicyOf(v, p) /\ w.factors = v.factors /\ w.shares = v.shares
  BY DEF EnforcedFor
<1>2. /\ z \in SoundVaults /\ SameBut(z, w, p)
      /\ p \in DOMAIN z.policies /\ z.policies[p] = Chosen(w, p, preset)
  BY <1>1, PresetStep
<1>3. Chosen(w, p, preset) = Chosen(v, p, preset) /\ z.factors = v.factors /\ z.shares = v.shares
  BY <1>1, <1>2 DEF Chosen, SameBut
<1>4. /\ Shared(z, p)
      /\ \A k \in Needs(z, p) :
           k \in Kinds /\ Bind(k) \in actions /\ (k = "device-seal" => backend)
  BY <1>2, <1>3, PlannedForAll
<1>5. /\ x \in SoundVaults /\ Keyed(x, p) /\ SameBut(x, z, p) /\ Bound(x, z, p)
      /\ Binding(x, p, actions)
  BY <1>2, AppliedStep
<1>6. Needs(x, p) = {} /\ Shared(x, p)
  BY <1>2, <1>4, <1>5, BoundMeetsNeeds
<1>7. PolicyOf(x, p).preset = preset
  <2>1. PolicyOf(z, p) = Chosen(w, p, preset)
    BY <1>2 DEF PolicyOf
  <2> QED BY <1>1, <1>5, <2>1, ChosenIs DEF Bound
<1>8. SameBut(x, w, p)
  BY <1>2, <1>5, SameButTwice
<1>9. ASSUME NEW q, q # p
      PROVE  /\ PolicyOf(x, q) = PolicyOf(w, q) /\ Needs(x, q) = Needs(w, q)
             /\ Shared(x, q) <=> Shared(w, q)
  BY <1>8, <1>9, OthersStay
<1>10. \A q : q \notin s \cup {p} => PolicyOf(x, q) = PolicyOf(v, q)
  BY <1>9 DEF EnforcedFor
<1>11. \A q \in s \cup {p} : PolicyOf(x, q).preset = preset /\ Needs(x, q) = {} /\ Shared(x, q)
  BY <1>6, <1>7, <1>9 DEF EnforcedFor
<1>12. /\ x.names = v.names /\ x.entries = v.entries
       /\ x.factors = v.factors /\ x.shares = v.shares
       /\ DOMAIN x.policies \subseteq PolicyNames(v)
  BY <1>8 DEF EnforcedFor, SameBut
<1> QED BY <1>5, <1>10, <1>11, <1>12 DEF EnforcedFor, Keyed

\* `apply-all` leaves a sound vault, where every profile has the preset and lacks
\* nothing.
LEMMA ApplyAllStep ==
  ASSUME NEW d \in SoundVaults, NEW preset \in Presets, NEW pass, NEW resolved, NEW strict,
         NEW x \in AfterApplyAll(d, preset, pass, resolved, strict)
  PROVE  /\ x \in SoundVaults
         /\ \A p \in PolicyNames(x) :
              PolicyOf(x, p).preset = preset /\ PlanOf(FullUnlocked(x), p).consistent
<1> DEFINE v == FullUnlocked(d)
           S == PolicyNames(v)
           phraseFor(plans) == BulkPassphrase(plans, pass)
           ActionsOf(plans, p) ==
              plans[p].actions
                \cup (IF preset \in {"portable", "paranoid"} /\ phraseFor(plans) = "given"
                      THEN {"BindPassphrase", "RotateProfileKey"} ELSE {})
           StepOf(plans, w, p) == UNION {Applied(u, p, ActionsOf(plans, p), phraseFor(plans), resolved) :
                                           u \in Preset(w, p, preset)}
<1>1. v \in SoundVaults /\ v.names \cup v.entries = d.names \cup d.entries /\ v.policies = d.policies
      /\ v.names = d.names \cup d.entries
  BY FullUnlockedIs
<1>2. PICK plans \in ApplyAllPlans(v, preset) :
        /\ \A p \in DOMAIN plans : plans[p].stuck = {}
        /\ x \in {IF DOMAIN plans = {} THEN d ELSE Encoded(w) :
                    w \in AppliedInTurn(v, plans, LAMBDA w, p : StepOf(plans, w, p))}
  BY Zenon DEF AfterApplyAll
<1> DEFINE actions(p) == ActionsOf(plans, p)
           phrase == phraseFor(plans)
           Step(w, p) == UNION {Applied(u, p, actions(p), phrase, resolved) : u \in Preset(w, p, preset)}
           Rec(it) == it = [s \in SUBSET S |->
                              IF s = {} THEN {v}
                              ELSE UNION {Step(w, Picked(s)) : w \in it[Rest(s)]}]
           It == CHOOSE it : Rec(it)
<1>3. DOMAIN plans = S
  BY DEF ApplyAllPlans
<1>4. AppliedInTurn(v, plans, LAMBDA w, p : StepOf(plans, w, p)) = It[S]
  BY <1>3 DEF AppliedInTurn, FoldSet, MapThenFoldSet, Picked, Rest
<1>5. IF S = {} THEN x = d ELSE \E w \in It[S] : x = Encoded(w)
  <2> HIDE DEF It, S, v
  <2> QED BY <1>2, <1>3, <1>4
<1>6. IsFiniteSet(S)
  BY <1>1 DEF SoundVaults
<1>7. PolicyNames(d) = S
  BY <1>1 DEF PolicyNames
<1>8. \A p : plans[p].actions \subseteq actions(p)
  OBVIOUS
<1>9. ASSUME S = {} PROVE x \in SoundVaults /\ PolicyNames(x) = {}
  BY <1>5, <1>7, <1>9
<1> HIDE DEF v, S, actions, phrase
<1>10. ASSUME NEW u \in SoundVaults, NEW p PROVE Step(u, p) \subseteq SoundVaults
  <2> SUFFICES ASSUME NEW z \in Preset(u, p, preset), NEW y \in Applied(z, p, actions(p), phrase, resolved)
               PROVE  y \in SoundVaults
    OBVIOUS
  <2>1. z \in SoundVaults
    BY PresetStep
  <2> QED BY <2>1, AppliedStep
<1>11. \E it : Rec(it)
  <2> DEFINE St == [wp \in SoundVaults \X S |-> Step(wp[1], wp[2])]
  <2> HIDE DEF Step
  <2>1. TurnsIn(St, S, SoundVaults)
    BY <1>10 DEF TurnsIn
  <2>2. PICK it \in [SUBSET S -> SUBSET SoundVaults] : \A s \in SUBSET S :
           it[s] = IF s = {} THEN {v} ELSE UNION {St[<<u, Picked(s)>>] : u \in it[Rest(s)]}
    <3> HIDE DEF St
    <3>1. \E it : TurnsOf(it, S, SoundVaults, v, St)
      BY <1>1, <1>6, <2>1, TurnsExist
    <3> QED BY <3>1 DEF TurnsOf
  <2>3. ASSUME NEW s \in SUBSET S, s # {}
        PROVE  UNION {St[<<u, Picked(s)>>] : u \in it[Rest(s)]}
                 = UNION {Step(u, Picked(s)) : u \in it[Rest(s)]}
    <3>1. Picked(s) \in s
      BY <2>3 DEF Picked
    <3>2. it[Rest(s)] \subseteq SoundVaults /\ Picked(s) \in S
      BY <2>2, <3>1 DEF Rest
    <3> QED BY <3>2
  <2>4. it = [s \in SUBSET S |->
                IF s = {} THEN {v} ELSE UNION {Step(u, Picked(s)) : u \in it[Rest(s)]}]
    <3>1. \A s \in SUBSET S : it[s] = IF s = {} THEN {v} ELSE UNION {Step(u, Picked(s)) : u \in it[Rest(s)]}
      <4> HIDE DEF St
      <4> QED BY <2>2, <2>3
    <3>2. it = [s \in SUBSET S |-> it[s]]
      BY ONLY <2>2
    <3> QED BY ONLY <3>1, <3>2
  <2> QED BY <2>4, Zenon
<1>12. Rec(It)
  <2> HIDE DEF Rec
  <2> QED BY <1>11
<1> HIDE DEF It
<1>13. \A s \in SUBSET S :
         It[s] = IF s = {} THEN {v} ELSE UNION {Step(u, Picked(s)) : u \in It[Rest(s)]}
  <2> HIDE DEF Step
  <2> QED BY <1>12
<1> DEFINE G == {s \in SUBSET S : \A w \in It[s] : EnforcedFor(w, v, s, preset)}
<1>14. G \in SUBSET SUBSET S /\ {} \in G
  <2>1. EnforcedFor(v, v, {}, preset)
    BY <1>1 DEF EnforcedFor, PolicyNames
  <2>2. It[{}] = {v}
    BY <1>13
  <2> QED BY <2>1, <2>2
<1>15. ASSUME NEW s \in SUBSET S, s # {}, Rest(s) \in G PROVE s \in G
  <2> SUFFICES ASSUME NEW y \in It[s] PROVE EnforcedFor(y, v, s, preset)
    OBVIOUS
  <2> DEFINE p == Picked(s)
  <2>1. PICK u \in It[Rest(s)] : y \in Step(u, p)
    <3> HIDE DEF Step
    <3>1. It[s] = UNION {Step(w, p) : w \in It[Rest(s)]}
      BY <1>13, <1>15
    <3> HIDE DEF G, p
    <3> QED BY <3>1
  <2>2. EnforcedFor(u, v, Rest(s), preset)
    BY <1>15
  <2>3. p \in s /\ p \notin Rest(s) /\ Rest(s) \cup {p} = s
    BY <1>15 DEF Picked, Rest
  <2> HIDE DEF p, G
  <2>4. PICK z \in Preset(u, p, preset) : y \in Applied(z, p, actions(p), phrase, resolved)
    BY <2>1
  <2>5. p \in PolicyNames(v) /\ Rest(s) \in SUBSET PolicyNames(v) /\ plans[p].stuck = {}
    BY <1>2, <1>3, <2>3 DEF S
  <2>6. EnforcedFor(y, v, Rest(s) \cup {p}, preset)
    BY <1>1, <1>8, <2>2, <2>3, <2>4, <2>5, EnforcedNext
  <2> QED BY <2>3, <2>6
<1>16. G = SUBSET S
  <2> HIDE DEF G
  <2> QED BY <1>6, <1>14, <1>15, FoldInduction
<1>17. ASSUME S # {}, NEW w \in It[S], x = Encoded(w), NEW p \in PolicyNames(x)
       PROVE  PolicyOf(x, p).preset = preset /\ PlanOf(FullUnlocked(x), p).consistent
  <2>1. EnforcedFor(w, v, S, preset) /\ w.version = 2 /\ w.keys /\ w \in SoundVaults
    BY <1>16, <1>17 DEF EnforcedFor
  <2>2. /\ x \in SoundVaults /\ x.names = {} /\ x.entries = w.names \cup w.entries
        /\ x.policies = w.policies /\ x.version = 2 /\ x.keys
        /\ x.factors = w.factors /\ x.shares = w.shares
    BY <1>17, <2>1, EncodedIs
  <2>3. p \in S
    BY <2>1, <2>2 DEF EnforcedFor, PolicyNames, S
  <2>4. p \in v.names
    BY <1>1, <1>2, <1>3, <2>3, PlannedForAll DEF S
  <2>5. p \in x.entries
    BY <2>1, <2>2, <2>4 DEF EnforcedFor
  <2>6. PolicyOf(w, p).preset = preset /\ Needs(w, p) = {} /\ Shared(w, p)
    BY <2>1, <2>3 DEF EnforcedFor
  <2> DEFINE f == FullUnlocked(x)
  <2>7. /\ f \in SoundVaults /\ f.entries = x.entries /\ f.policies = x.policies
        /\ f.version = x.version /\ f.keys = x.keys /\ f.factors = x.factors /\ f.shares = x.shares
    <3>1. f = FullUnlocked(x)
      OBVIOUS
    <3>2. x \in SoundVaults
      BY <2>2
    <3> HIDE DEF f
    <3> QED BY ONLY <3>1, <3>2, FullUnlockedIs
  <2> HIDE DEF f
  <2>8. PolicyOf(x, p).preset = preset /\ Needs(f, p) = {} /\ Shared(f, p)
    BY <2>2, <2>6, <2>7 DEF PolicyOf, Needs, Shared
  <2>9. PlanOf(f, p).consistent
    BY <2>2, <2>5, <2>7, <2>8, NothingToPlan DEF SoundVaults
  <2> QED BY <2>8, <2>9 DEF f
<1>18. ASSUME S # {} PROVE x \in SoundVaults
  <2>1. PICK w \in It[S] : x = Encoded(w)
    BY <1>5, <1>18
  <2>2. w \in SoundVaults
    BY <1>16, <2>1 DEF EnforcedFor
  <2> QED BY <2>1, <2>2, EncodedIs
<1> QED
  BY <1>5, <1>9, <1>17, <1>18

-----------------------------------------------------------------------------
(* The specification.                                                        *)

\* A new vault is sound.
LEMMA PolicyInitIInv == PolicyInit => PolicyIInv
<1> SUFFICES ASSUME PolicyInit PROVE stored \in SoundVaults
  BY DEF PolicyInit, PolicyIInv
<1>1. /\ stored = [version |-> 1, keys |-> FALSE, factors |-> {}, shares |-> FALSE,
                   names |-> {}, entries |-> {}, policies |-> <<>>]
      /\ stored.policies = <<>>
  BY DEF PolicyInit
<1>2. <<>> \in [{} -> Policies]
  OBVIOUS
<1>3. <<>> \in PolicyMaps
  BY <1>2 DEF PolicyMaps
<1>4. stored \in VaultRecords
  BY <1>1, <1>3 DEF VaultRecords, PolicyMaps, Policies
<1>5. PolicyNames(stored) = {}
  BY <1>1 DEF PolicyNames
<1> QED BY <1>1, <1>4, <1>5, FS_EmptySet DEF SoundVaults

\* A change of fields that adds at most one name.
LEMMA ChangedSound ==
  ASSUME NEW w \in SoundVaults, NEW x \in VaultRecords, NEW p,
         PolicyNames(x) \subseteq PolicyNames(w) \cup {p},
         x.version = 1 => ~x.keys /\ x.factors = {} /\ ~x.shares
  PROVE  x \in SoundVaults
<1>1. IsFiniteSet(PolicyNames(w) \cup {p})
  BY FS_AddElement DEF SoundVaults
<1>2. IsFiniteSet(PolicyNames(x))
  BY <1>1, FS_Subset
<1> QED BY <1>2 DEF SoundVaults

\* Migration leaves a sound vault.
LEMMA MigratedStep ==
  ASSUME NEW w \in SoundVaults, NEW resolved, NEW x \in Migrated(w, resolved)
  PROVE  x \in SoundVaults /\ x.version = 2 /\ PolicyNames(x) = PolicyNames(w)
<1>0. w \in VaultRecords
  BY DEF SoundVaults
<1>1. CASE w.version = 2
  BY <1>1 DEF Migrated
<1>2. CASE w.version # 2
  <2>1. x = [w EXCEPT !.version = 2, !.keys = FALSE, !.factors = {}, !.shares = FALSE]
    BY <1>2 DEF Migrated, When
  <2>2. /\ x \in VaultRecords /\ x.version = 2
        /\ x.names = w.names /\ x.entries = w.entries /\ x.policies = w.policies
    BY <1>0, <2>1 DEF VaultRecords
  <2>3. PolicyNames(x) = PolicyNames(w)
    BY <2>2 DEF PolicyNames
  <2> QED BY <2>2, <2>3 DEF SoundVaults
<1> QED BY <1>1, <1>2

\* One field of a v2 vault is set, or profiles are locked, unlocked or made.
LEMMA SetFieldSound ==
  ASSUME NEW w \in SoundVaults, NEW x, NEW p,
         \/ w.version = 2 /\ \E b \in BOOLEAN : x = [w EXCEPT !.keys = b]
         \/ w.version = 2 /\ \E b \in BOOLEAN : x = [w EXCEPT !.shares = b]
         \/ w.version = 2 /\ \E F \in SUBSET Kinds : x = [w EXCEPT !.factors = F]
         \/ \E N \in SUBSET PolicyProfiles : N \subseteq w.names \cup {p} /\ x = [w EXCEPT !.names = N]
  PROVE  x \in SoundVaults
<1>0. w \in VaultRecords /\ (w.version = 1 => ~w.keys /\ w.factors = {} /\ ~w.shares)
  BY DEF SoundVaults
<1>1. /\ x \in VaultRecords /\ x.version = w.version
      /\ x.names \subseteq w.names \cup {p} /\ x.entries = w.entries /\ x.policies = w.policies
      /\ w.version = 1 => x.keys = w.keys /\ x.factors = w.factors /\ x.shares = w.shares
  <2>1. CASE w.version = 2 /\ \E b \in BOOLEAN : x = [w EXCEPT !.keys = b]
    BY <1>0, <2>1 DEF VaultRecords
  <2>2. CASE w.version = 2 /\ \E b \in BOOLEAN : x = [w EXCEPT !.shares = b]
    BY <1>0, <2>2 DEF VaultRecords
  <2>3. CASE w.version = 2 /\ \E F \in SUBSET Kinds : x = [w EXCEPT !.factors = F]
    BY <1>0, <2>3 DEF VaultRecords
  <2>4. CASE \E N \in SUBSET PolicyProfiles : N \subseteq w.names \cup {p} /\ x = [w EXCEPT !.names = N]
    BY <1>0, <2>4 DEF VaultRecords
  <2> QED BY <2>1, <2>2, <2>3, <2>4
<1>2. PolicyNames(x) \subseteq PolicyNames(w) \cup {p}
  BY <1>1 DEF PolicyNames
<1> QED BY <1>0, <1>1, <1>2, ChangedSound

\* A removal, of the policy too.
LEMMA RemoveStep ==
  ASSUME NEW w \in SoundVaults, NEW p, NEW x,
         x = [w EXCEPT !.names = @ \ {p}, !.entries = @ \ {p},
                       !.policies = Restrict(@, DOMAIN @ \ {p})]
  PROVE  x \in SoundVaults
<1>0. w \in VaultRecords /\ (w.version = 1 => ~w.keys /\ w.factors = {} /\ ~w.shares)
  BY DEF SoundVaults
<1> DEFINE D == DOMAIN w.policies \ {p}
           m == Restrict(w.policies, D)
<1>1. DOMAIN w.policies \in SUBSET PolicyProfiles /\ \A q \in DOMAIN w.policies : w.policies[q] \in Policies
  BY <1>0, VaultTypes
<1>2. m = [q \in D |-> w.policies[q]]
  BY DEF Restrict
<1>3. m \in [D -> Policies] /\ D \in SUBSET PolicyProfiles
  BY <1>1, <1>2
<1>4. m \in PolicyMaps /\ DOMAIN m = D
  BY <1>3 DEF PolicyMaps
<1> DEFINE N == w.names \ {p}
           E == w.entries \ {p}
<1>5. /\ x = [w EXCEPT !.names = N, !.entries = E, !.policies = m]
      /\ N \in SUBSET PolicyProfiles /\ E \in SUBSET PolicyProfiles
  BY <1>0 DEF VaultRecords
<1> HIDE DEF m, N, E
<1>6. /\ x \in VaultRecords /\ x.version = w.version
      /\ x.names = N /\ x.entries = E /\ x.policies = m
      /\ x.keys = w.keys /\ x.factors = w.factors /\ x.shares = w.shares
  BY <1>0, <1>4, <1>5 DEF VaultRecords, PolicyMaps, Policies
<1>7. PolicyNames(x) \subseteq PolicyNames(w) \cup {p}
  BY <1>4, <1>6 DEF PolicyNames, N, E
<1> QED BY <1>0, <1>6, <1>7, ChangedSound

\* A command that sets the policy of one profile.
LEMMA SetPolicyStep ==
  ASSUME NEW d \in SoundVaults, NEW p \in PolicyProfiles, NEW policy \in Policies, NEW x,
         x = Encoded(WithPolicy(ProfileUnlocked(d, p), p, policy))
  PROVE  x \in SoundVaults
<1> DEFINE v == ProfileUnlocked(d, p)
           w == WithPolicy(v, p, policy)
<1>1. v \in SoundVaults
  BY ProfileUnlockedIs
<1> HIDE DEF v
<1>2. w \in SoundVaults
  BY <1>1, WithPolicyIs
<1> HIDE DEF w
<1>3. x = Encoded(w)
  BY DEF v, w
<1> QED BY <1>2, <1>3, EncodedIs

\* Every command leaves a sound vault.
LEMMA PolicyStep == PolicyIInv /\ [PolicyNext]_policyVars => PolicyIInv'
<1> SUFFICES ASSUME PolicyIInv, [PolicyNext]_policyVars PROVE PolicyIInv'
  OBVIOUS
<1>0. /\ stored \in SoundVaults /\ stored \in VaultRecords /\ backend \in BOOLEAN
      /\ stored.version = 1 => ~stored.keys /\ stored.factors = {} /\ ~stored.shares
  BY DEF PolicyIInv, SoundVaults
<1> DEFINE Sound == stored' \in SoundVaults /\ UNCHANGED backend
<1>1. ASSUME Sound PROVE PolicyIInv'
  <2>1. SoundVaults' = SoundVaults
    BY DEF SoundVaults, VaultRecords, PolicyNames
  <2> QED BY <1>0, <1>1, <2>1 DEF PolicyIInv
<1> SUFFICES Sound
  BY <1>1
<1>2. ASSUME NEW p \in PolicyProfiles
      PROVE  ProfileUnlocked(stored, p) \in SoundVaults /\ PolicyOf(ProfileUnlocked(stored, p), p) \in Policies
  <2> DEFINE v == ProfileUnlocked(stored, p)
  <2>1. v \in SoundVaults
    BY <1>0, ProfileUnlockedIs
  <2> HIDE DEF v
  <2>2. PolicyOf(v, p) \in Policies
    BY <2>1, PolicyOfType DEF SoundVaults
  <2> QED BY <2>1, <2>2 DEF v
<1>3. CASE UNCHANGED policyVars
  BY <1>0, <1>3 DEF policyVars
<1>4. CASE MigrateVault
  BY <1>0, <1>4, MigratedStep DEF MigrateVault, Saves
<1>5. CASE ImportOrRemoveShares
  <2>1. stored.version = 2 /\ stored' = [stored EXCEPT !.shares = ~@] /\ UNCHANGED backend
    BY <1>5 DEF ImportOrRemoveShares, Saves
  <2> DEFINE b == ~stored.shares
  <2>2. b \in BOOLEAN /\ stored' = [stored EXCEPT !.shares = b]
    BY <1>0, <2>1 DEF VaultRecords
  <2> HIDE DEF b
  <2> QED BY <1>0, <2>1, <2>2, SetFieldSound
<1>6. CASE MigrateProfiles
  <2> DEFINE v == FullUnlocked(stored)
             w == [v EXCEPT !.keys = TRUE]
  <2>1. stored.version = 2 /\ stored' = Encoded(w) /\ UNCHANGED backend
    BY <1>6 DEF MigrateProfiles, Saves
  <2>2. v \in SoundVaults /\ v.version = 2
    BY <1>0, <2>1, FullUnlockedIs
  <2> HIDE DEF v
  <2>3. w \in SoundVaults
    BY <2>2, SetFieldSound
  <2> HIDE DEF w
  <2> QED BY <2>1, <2>3, EncodedIs
<1>7. CASE RepairAll
  <2>1. PICK pass \in Passphrase, resolved \in BOOLEAN, strict \in BOOLEAN :
          Saves(AfterRepairAll(stored, pass, resolved, strict))
    BY <1>7 DEF RepairAll
  <2> QED BY <1>0, <2>1, RepairAllStep DEF Saves
<1>8. ASSUME NEW kind \in Kinds, ChangeVaultFactor(kind) PROVE Sound
  <2>1. /\ stored.version = 2 /\ UNCHANGED backend
        /\ \/ stored' = [stored EXCEPT !.factors = @ \cup {kind}]
           \/ stored' = [stored EXCEPT !.factors = @ \ {kind}]
    BY <1>8 DEF ChangeVaultFactor, Saves
  <2>2. stored.factors \cup {kind} \in SUBSET Kinds /\ stored.factors \ {kind} \in SUBSET Kinds
    BY <1>0 DEF VaultRecords
  <2>3. \E F \in SUBSET Kinds : stored' = [stored EXCEPT !.factors = F]
    BY <2>1, <2>2
  <2> QED BY <1>0, <2>1, <2>3, SetFieldSound
<1>9. ASSUME NEW preset \in Presets, ApplyAll(preset) PROVE Sound
  <2>1. PICK pass \in Passphrase, resolved \in BOOLEAN, strict \in BOOLEAN :
          Saves(AfterApplyAll(stored, preset, pass, resolved, strict))
    BY <1>9 DEF ApplyAll
  <2> QED BY <1>0, <2>1, ApplyAllStep DEF Saves
<1>10. ASSUME NEW preset \in Presets, Harden(preset) PROVE Sound
  <2>1. CASE Saves(AfterTeam(stored))
    BY <1>0, <2>1, TeamStep DEF Saves
  <2>2. CASE ~Saves(AfterTeam(stored))
    <3> DEFINE d == FullUnlocked(stored)
    <3>1. PICK v \in Migrated(d, TRUE) : Saves({Encoded([v EXCEPT !.factors = @ \cup Expected(preset)])})
      BY <1>10, <2>2 DEF Harden
    <3>2. d \in SoundVaults
      BY <1>0, FullUnlockedIs
    <3> HIDE DEF d
    <3>3. v \in SoundVaults /\ v.version = 2
      BY <3>1, <3>2, MigratedStep
    <3> DEFINE F == v.factors \cup Expected(preset)
               w == [v EXCEPT !.factors = F]
    <3>4. F \in SUBSET Kinds
      BY <3>3 DEF SoundVaults, VaultRecords, Expected, When, Kinds
    <3>5. stored' = Encoded(w) /\ UNCHANGED backend
      BY <3>1 DEF Saves
    <3> HIDE DEF F
    <3>6. w \in SoundVaults
      BY <3>3, <3>4, SetFieldSound
    <3> HIDE DEF w
    <3> QED BY <3>5, <3>6, EncodedIs
  <2> QED BY <2>1, <2>2
<1>11. ASSUME NEW p \in PolicyProfiles, AddProfile(p) PROVE Sound
  <2> DEFINE v == ProfileUnlocked(stored, p)
             N == v.names \cup {p}
             w == [v EXCEPT !.names = N]
  <2>1. stored' = Encoded(w) /\ UNCHANGED backend
    BY <1>11 DEF AddProfile, Saves
  <2>2. v \in SoundVaults
    BY <1>2
  <2> HIDE DEF v
  <2>3. N \in SUBSET PolicyProfiles /\ N \subseteq v.names \cup {p}
    BY <2>2 DEF SoundVaults, VaultRecords
  <2> HIDE DEF N
  <2>4. w \in SoundVaults
    BY <2>2, <2>3, SetFieldSound
  <2> HIDE DEF w
  <2> QED BY <2>1, <2>4, EncodedIs
<1>12. ASSUME NEW p \in PolicyProfiles, UnsetLast(p) PROVE Sound
  <2> DEFINE N == stored.names \ {p}
  <2>1. stored' = [stored EXCEPT !.names = N] /\ UNCHANGED backend
    BY <1>12 DEF UnsetLast, Saves
  <2>2. N \in SUBSET PolicyProfiles /\ N \subseteq stored.names \cup {p}
    BY <1>0 DEF VaultRecords
  <2> HIDE DEF N
  <2> QED BY <1>0, <2>1, <2>2, SetFieldSound
<1>13. ASSUME NEW p \in PolicyProfiles, RemoveProfile(p) PROVE Sound
  <2>1. /\ stored' = [stored EXCEPT !.names = @ \ {p}, !.entries = @ \ {p},
                                    !.policies = Restrict(@, DOMAIN @ \ {p})]
        /\ UNCHANGED backend
    BY <1>13, Zenon DEF RemoveProfile, Saves
  <2> QED BY <1>0, <2>1, RemoveStep
<1>14. ASSUME NEW p \in PolicyProfiles, NEW preset \in Presets, SetPreset(p, preset) PROVE Sound
  <2> DEFINE v == ProfileUnlocked(stored, p)
             policy == [PolicyOf(v, p) EXCEPT !.preset = preset]
  <2>1. stored' = Encoded(WithPolicy(v, p, policy)) /\ UNCHANGED backend
    BY <1>14 DEF SetPreset, Saves
  <2>2. policy \in Policies
    BY <1>2 DEF Policies
  <2> HIDE DEF policy
  <2> QED BY <1>0, <2>1, <2>2, SetPolicyStep
<1>15. ASSUME NEW p \in PolicyProfiles, ClearRequirements(p) PROVE Sound
  <2> DEFINE v == ProfileUnlocked(stored, p)
             policy == [PolicyOf(v, p) EXCEPT !.meta = {}, !.required = {}]
  <2>1. stored' = Encoded(WithPolicy(v, p, policy)) /\ UNCHANGED backend
    BY <1>15 DEF ClearRequirements, Saves
  <2>2. policy \in Policies
    BY <1>2 DEF Policies
  <2> HIDE DEF policy
  <2> QED BY <1>0, <2>1, <2>2, SetPolicyStep
<1>16. ASSUME NEW p \in PolicyProfiles, NEW kind \in Kinds, DisableForProfile(p, kind) PROVE Sound
  <2> DEFINE v == ProfileUnlocked(stored, p)
             policy == [PolicyOf(v, p) EXCEPT !.meta = @ \ {kind}, !.required = @ \ {kind}]
  <2>1. stored' = Encoded(WithPolicy(v, p, policy)) /\ UNCHANGED backend
    BY <1>16 DEF DisableForProfile, Saves
  <2>2. policy \in Policies
    <3> DEFINE old == PolicyOf(v, p)
               M == old.meta \ {kind}
               R == old.required \ {kind}
    <3>1. old \in Policies
      BY <1>2
    <3> HIDE DEF old
    <3>2. M \in SUBSET Kinds /\ R \in SUBSET Kinds
      BY <3>1 DEF Policies
    <3> HIDE DEF M, R
    <3>3. [old EXCEPT !.meta = M, !.required = R] \in Policies
      BY <3>1, <3>2 DEF Policies
    <3> QED BY <3>3 DEF old, M, R
  <2> HIDE DEF policy
  <2> QED BY <1>0, <2>1, <2>2, SetPolicyStep
<1>17. ASSUME NEW p \in PolicyProfiles, NEW kind \in Kinds, RequireForProfile(p, kind) PROVE Sound
  <2> DEFINE v == ProfileUnlocked(stored, p)
  <2>1. v \in SoundVaults
    BY <1>2
  <2>2. PICK w \in ProfileRequires(v, p, kind) : stored' = Encoded(w) /\ UNCHANGED backend
    BY <1>17 DEF RequireForProfile, Saves
  <2> HIDE DEF v
  <2>3. w \in SoundVaults
    BY <2>1, <2>2, RequireStep
  <2> QED BY <2>2, <2>3, EncodedIs
<1>18. ASSUME NEW p \in PolicyProfiles, Repair(p) PROVE Sound
  <2>1. PICK pass \in Passphrase, resolved \in BOOLEAN : Saves(AfterRepair(stored, p, pass, resolved))
    BY <1>18 DEF Repair
  <2> QED BY <1>0, <2>1, RepairStep DEF Saves
<1>19. ASSUME NEW p \in PolicyProfiles, NEW preset \in Presets, Apply(p, preset) PROVE Sound
  <2>1. PICK pass \in Passphrase, resolved \in BOOLEAN, strict \in BOOLEAN :
          Saves(AfterApply(stored, p, preset, pass, resolved, strict))
    BY <1>19 DEF Apply
  <2> QED BY <1>0, <2>1, ApplyStep DEF Saves
<1> QED
  BY <1>3, <1>4, <1>5, <1>6, <1>7, <1>8, <1>9, <1>10, <1>11, <1>12, <1>13, <1>14, <1>15, <1>16,
     <1>17, <1>18, <1>19 DEF PolicyNext

\* The vault is sound at all times.
LEMMA AlwaysPolicyIInv == PolicySpec => []PolicyIInv
BY PolicyInitIInv, PolicyStep, PTL DEF PolicySpec

(***************************************************************************)
(* The vault file is of its type, whatever commands change policies.       *)
(***************************************************************************)
THEOREM PolicyTyping == PolicySpec => [](backend \in BOOLEAN /\ stored \in VaultRecords)
<1>1. PolicyIInv => backend \in BOOLEAN /\ stored \in VaultRecords
  BY DEF PolicyIInv, SoundVaults
<1> QED BY <1>1, AlwaysPolicyIInv, PTL

(***************************************************************************)
(* What `status`, `check` and `repair-all --dry-run` say from the metadata *)
(* is what a repair will find, which profiles it has unlocked makes no     *)
(* difference.                                                             *)
(***************************************************************************)
THEOREM PreviewsAreExact == PolicySpec => []RepairPreviewIsExact
<1>1. PolicyIInv => RepairPreviewIsExact
  <2> SUFFICES ASSUME PolicyIInv PROVE RepairPreviewIsExact
    OBVIOUS
  <2>1. stored \in SoundVaults
    BY DEF PolicyIInv
  <2> DEFINE v == FullUnlocked(stored)
  <2>2. /\ v.names \cup v.entries = stored.names \cup stored.entries /\ v.entries = stored.entries
        /\ v.policies = stored.policies /\ v.version = stored.version /\ v.keys = stored.keys
        /\ v.factors = stored.factors /\ v.shares = stored.shares
    BY <2>1, FullUnlockedIs
  <2> HIDE DEF v
  <2>3. PolicyNames(v) = PolicyNames(stored) /\ \A p : Status(v, p) = Status(stored, p)
    BY <2>2, SameStatus DEF PolicyNames
  <2>4. CheckOf(stored) = CheckOf(v)
    BY <2>3 DEF CheckOf
  <2>5. ASSUME NEW p \in PolicyNames(stored)
        PROVE  Status(ProfileUnlocked(stored, p), p) = Status(stored, p)
    <3> DEFINE w == ProfileUnlocked(stored, p)
    <3>1. /\ w.names \cup w.entries = stored.names \cup stored.entries /\ w.entries = stored.entries
          /\ w.policies = stored.policies /\ w.version = stored.version /\ w.keys = stored.keys
          /\ w.factors = stored.factors /\ w.shares = stored.shares
      BY <2>1, ProfileUnlockedIs
    <3> HIDE DEF w
    <3>2. Status(w, p) = Status(stored, p)
      BY <3>1, SameStatus
    <3> QED BY <3>2 DEF w
  <2> QED BY <2>4, <2>5 DEF v, RepairPreviewIsExact, MetadataUnlocked
<1> QED BY <1>1, AlwaysPolicyIInv, PTL

(***************************************************************************)
(* What `profile-policy repair` calls repairable it repairs, a v1 vault    *)
(* included, and a second repair finds nothing to do.                      *)
(***************************************************************************)
THEOREM RepairsRepair == PolicySpec => []RepairableIsRepaired
<1>1. PolicyIInv => RepairableIsRepaired
  <2> SUFFICES ASSUME PolicyIInv, NEW p \in stored.names \cup stored.entries,
                      PlanOf(ProfileUnlocked(stored, p), p).stuck = {}
               PROVE  /\ AfterRepair(stored, p, "asked", TRUE) # {}
                      /\ \A d \in AfterRepair(stored, p, "asked", TRUE) :
                           PlanOf(ProfileUnlocked(d, p), p).consistent
    BY DEF RepairableIsRepaired
  <2> DEFINE v == ProfileUnlocked(stored, p)
             actions == PlanOf(v, p).actions
             results == Applied(v, p, actions, "asked", TRUE)
  <2>0. stored \in SoundVaults
    BY DEF PolicyIInv
  <2>1. v \in SoundVaults /\ v \in VaultRecords /\ p \in v.names
    <3>1. v \in SoundVaults /\ v.names = stored.names \cup (stored.entries \cap {p})
      BY <2>0, ProfileUnlockedIs
    <3> QED BY <3>1 DEF SoundVaults
  <2>2. AfterRepair(stored, p, "asked", TRUE) = {Encoded(w) : w \in results}
    <3>1. InputsGiven({PlanOf(v, p)}, "asked", TRUE, FALSE)
      BY DEF InputsGiven
    <3> QED BY <3>1, Zenon DEF AfterRepair
  <2>3. PlanOf(v, p).stuck = {}
    OBVIOUS
  <2> HIDE DEF v
  <2>4. /\ Shared(v, p)
        /\ \A k \in Needs(v, p) : k \in Kinds /\ Bind(k) \in actions /\ (k = "device-seal" => backend)
    BY <2>1, <2>3, PlanBindsNeeds
  <2>5. /\ v.version = 1 => "MigrateToV2" \in actions
        /\ ~v.keys => "EnableProfileKeyMode" \in actions
    BY PlanMigrates
  <2> HIDE DEF actions
  <2>6. ASSUME NEW w \in results PROVE PlanOf(ProfileUnlocked(Encoded(w), p), p).consistent
    <3> DEFINE x == Encoded(w)
               f == ProfileUnlocked(x, p)
    <3>1. /\ w \in SoundVaults /\ Keyed(w, p) /\ SameBut(w, v, p) /\ Bound(w, v, p)
          /\ Binding(w, p, actions)
      BY <2>1, AppliedStep
    <3>2. Needs(w, p) = {} /\ Shared(w, p)
      BY <2>1, <2>4, <3>1, BoundMeetsNeeds
    <3>3. /\ x \in SoundVaults /\ x.entries = w.names \cup w.entries
          /\ x.policies = w.policies /\ x.version = w.version /\ x.keys = w.keys
          /\ x.factors = w.factors /\ x.shares = w.shares
      BY <3>1, EncodedIs DEF Keyed
    <3> HIDE DEF x
    <3>4. /\ f \in SoundVaults /\ f.entries = x.entries
          /\ f.policies = x.policies /\ f.version = x.version /\ f.keys = x.keys
          /\ f.factors = x.factors /\ f.shares = x.shares
      BY <3>3, ProfileUnlockedIs
    <3> HIDE DEF f
    <3>5. Needs(f, p) = {} /\ Shared(f, p) /\ p \in f.entries /\ f.version = 2 /\ f.keys
      BY <3>1, <3>2, <3>3, <3>4 DEF Needs, Shared, Keyed
    <3>6. PlanOf(f, p).consistent
      BY <3>4, <3>5, NothingToPlan DEF SoundVaults
    <3> QED BY <3>6 DEF f, x
  <2>7. results # {}
    <3>1. PICK u \in WithBase(v, actions, TRUE) : Editable(u, p)
      <4>1. CASE v.version = 2
        <5> DEFINE k == v.keys \/ ("EnableProfileKeyMode" \in actions /\ v.version = 2)
                   u == [v EXCEPT !.keys = k]
        <5>1. k
          BY <2>5, <4>1
        <5>2. v \in IF "MigrateToV2" \in actions THEN Migrated(v, TRUE) ELSE {v}
          BY <4>1 DEF Migrated
        <5>3. u \in WithBase(v, actions, TRUE)
          BY <5>2, Zenon DEF WithBase
        <5> HIDE DEF k
        <5>4. u.version = 2 /\ u.keys /\ u.names = v.names
          BY <2>1, <4>1, <5>1 DEF VaultRecords
        <5> HIDE DEF u
        <5> QED BY <2>1, <5>3, <5>4 DEF Editable
      <4>2. CASE v.version # 2
        <5> DEFINE m == [v EXCEPT !.version = 2, !.keys = FALSE, !.factors = {}, !.shares = FALSE]
                   k == m.keys \/ ("EnableProfileKeyMode" \in actions /\ m.version = 2)
                   u == [m EXCEPT !.keys = k]
        <5>1. v.version = 1 /\ ~v.keys
          BY <2>1, <4>2 DEF SoundVaults, VaultRecords
        <5>2. m \in IF "MigrateToV2" \in actions THEN Migrated(v, TRUE) ELSE {v}
          BY <2>5, <4>2, <5>1 DEF Migrated, When
        <5>3. m \in VaultRecords /\ m.version = 2 /\ m.names = v.names
          BY <2>1 DEF VaultRecords
        <5> HIDE DEF m
        <5>4. k
          BY <2>5, <5>1, <5>3
        <5>5. u \in WithBase(v, actions, TRUE)
          BY <5>2, Zenon DEF WithBase
        <5> HIDE DEF k
        <5>6. u.version = 2 /\ u.keys /\ u.names = v.names
          BY <5>3, <5>4 DEF VaultRecords
        <5> HIDE DEF u
        <5> QED BY <2>1, <5>5, <5>6 DEF Editable
      <4> QED BY <4>1, <4>2
    <3>2. u \in SoundVaults /\ Keyed(u, p)
      BY <2>1, <3>1, BaseStep DEF Keyed, Editable
    <3>3. PICK y \in WithPassphrase(u, p, actions, "asked") : TRUE
      BY <3>1 DEF WithPassphrase, ProfileRequires, When
    <3>4. y \in SoundVaults /\ Keyed(y, p)
      BY <3>2, <3>3, PassphraseStep
    <3>5. PICK x \in WithDeviceSeal(y, p, actions) : TRUE
      BY <3>4 DEF WithDeviceSeal, ProfileRequires, When, Editable, Keyed
    <3>6. x \in results
      <4> DEFINE Sealed(b) == UNION {WithDeviceSeal(w, p, actions) :
                                       w \in WithPassphrase(b, p, actions, "asked")}
      <4>1. x \in Sealed(u)
        BY <3>3, <3>5
      <4> HIDE DEF Sealed
      <4>2. x \in UNION {Sealed(b) : b \in {c \in WithBase(v, actions, TRUE) : Editable(c, p)}}
        BY <3>1, <4>1
      <4> QED BY <4>2 DEF Sealed, Applied
    <3> QED BY <3>6
  <2> HIDE DEF results
  <2> QED BY <2>2, <2>6, <2>7
<1> QED BY <1>1, AlwaysPolicyIInv, PTL

(***************************************************************************)
(* When `profile-policy apply-all` succeeds every profile has the preset   *)
(* and all it asks for, for any number of profiles.                        *)
(***************************************************************************)
THEOREM PresetsAreEnforced == PolicySpec => []ApplyAllEnforces
<1>1. PolicyIInv => ApplyAllEnforces
  BY ApplyAllStep DEF PolicyIInv, ApplyAllEnforces
<1> QED BY <1>1, AlwaysPolicyIInv, PTL
=============================================================================
