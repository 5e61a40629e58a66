# sshenv in TLA+

sshenv keeps environment variables in an encrypted vault file, opened with SSH
keys and, optionally, further factors, and runs commands with them. This
directory is a TLA+ model of the program: modules, TLC configurations and proofs
checked by TLAPS. Paths below are relative to the repository (`src/`).

## The system

| component | state | operations | what makes it correct |
|---|---|---|---|
| vault file and writer lock (`packages/vault/src/lib.rs`) | the file, `<vault>.lock`, per open vault the digest of what it was loaded from | load, save, save_as_new, VaultWriter | a save replaces only the content it was based on; no lock is leaked; a vault is never replaced by another |
| `SshenvStore` (same file) | none: each call is one load-change-save | init, insert if absent, set, unset, replace_profile | a call changes its own variables and no others; insert never overwrites |
| codec, factors, profile keys (same file) | data key, payload key factors, per profile an entry under its own key | unlock (full, metadata, profile), encode, rotate, migrate | what was saved can be opened again by whom it should, after every sequence of commands |
| profile map (`packages/vault/models`) | variables, entries and policies per profile | set, unset, remove, rename, set policy | a command has the effect it reports |
| CLI vault commands (`packages/cli/src/commands`) | none | set, unset, rm, rename, recipients, rotate-key, migrate-vault, `security ...` | as above, and the rollback baselines agree with the vault |
| profile-policy planner (vault `lib.rs`, cli `security.rs`) | none | validate, plan, repair, presets, apply-all, repair-all | what is called repairable is repaired, and a second repair finds nothing |
| recipients and identities (`vault/src/recipient.rs`, `identity.rs`, `commands/recipient.rs`, `rekey.rs`) | the recipients of a vault with their public keys; key files of machines | discover, wrap, unwrap, add, remove, rotate | the vault opens for whom it was shared with and for nobody else |
| rollback protection (`cli/src/rollback.rs`) | `rollback.toml`, a synced file, an external counter | check, record, set | older vaults are refused; the current one never is |
| backups, restores, checkpoints (cli `security.rs`, `rollback_checkpoint.rs`) | backup files beside the vault, a signed checkpoint in the environment | backup, verify, prune, restore, status | a restored vault opens; what it replaced is kept |
| sessions (`cli/src/session_registry.rs`, `commands/sessions.rs`, `commands/run.rs`) | `sessions.toml` under a lock; live processes | register, list, kill | only the recorded process is signalled; no live session is forgotten |
| shims and bindings (`packages/shims`, `commands/shims.rs`) | `bindings.toml`, `bindings.d`, the shim directory | bind, unbind, rename, sync, profile rename | shims agree with the bindings; other files are left alone |
| security reminders (`cli/src/security_state.rs`) | `security-state.toml` | mark, clear | a removed recipient's reminder lasts until a rotation |
| passphrase cache (`cli/src/passphrase_cache.rs`) | the platform key store | get, put, clear | nothing that never opened the vault is kept; what opens it no more goes away |
| recovery shares (`vault/src/recovery.rs`, cli `security.rs`) | share sets in the metadata, share files | split, combine, import, remove, plan, recover | a threshold of one set, and nothing less, opens the vault |
| device seal (`vault/src/device.rs`) | a secret per backend and its fallback file | create, derive | vaults sealed with a secret stay open to it |
| operation factors (`vault/src/device.rs`) | a Keychain record per operation | provision, create, retrieve, reconcile | no two callers are told different things of one operation |
| remote factor (`vault/src/remote.rs`, cli `security.rs`) | remote metadata, a wrapped factor key; request files | import, remove, enable, request, validate | an approval is good for one change |
| crypto, locked memory, hardening, config, doctor | none to speak of | | not modelled, see below |

Interaction: every command is a process of its own. Processes meet only in files
and key stores: the vault (compare-and-swap under a lock), `rollback.toml`, `bindings.toml` and
`security-state.toml` (read, changed and written back without a lock),
`sessions.toml` (under a lock), the Keychain and its relatives. Nothing is
signalled between processes but by
`sessions kill`. What is hard is therefore the interleaving of
read-change-write sequences, deaths between two files, and long legal sequences
of commands on the nested encryption of a vault. `PROJECT.json` lists these
hazards at their lines.

## Modules

* `VaultRegister`: what the library promises of a vault file, a compare-and-swap
  register per path.
* `VaultFile`: users of vault files, `Vault`, `VaultWriter` and `SshenvStore`, one
  action per step between which another process can run. `vault[p]`, `digest[p]` are a
  process's open `Vault` and its `source_digest`; `save[p]`, `pc[p]` the arguments
  and the position of `save_with_expected_digest`; `writer[path]` the owner of the
  flock; `retained[p]` its `VaultWriter`. A digest is the content it is the digest
  of: `crypto.rs` encrypts with a fixed nonce, so equal data has equal bytes.
  A failing step (`Fail`), a failing chmod after the rename
  (`PublishUnrestricted`) and the death of a process (`Crash`) may come at any point.
* `VaultFile_proofs`: its theorems.
* `Rollback`: commands that check and record generations, step by step, with the
  opening and saving of the vault around them. The save itself is one step, which
  `VaultFile` justifies: it refines `VaultRegister`, whose swap is one step.
  `restore-backup` is not so protected and has its steps apart. The external
  counter is modelled by its contract in `rollback.rs`: it keeps the largest
  generation it was told.
* `RollbackRecords`: `Rollback` with the history variable `settled`, the records that were in
  `rollback.toml` when no command was half-way through it.
* `Rollback_proofs`: the theorems of both.
* `ProfileStore`: what a vault promises its user, a map from profiles to variables
  with set, unset, remove and rename (`ProfileMap`).
* `VaultCodec`: a vault file as the fields another unlock reads, the three ways of
  unlocking it into a `Vault`, and encoding. A key is the term it is derived from:
  the payload key is the data key with the list of factor keys chained onto it, an
  entry records the payload key its profile key is wrapped under and the factor
  keys it is bound to, and opens with exactly these. `keys` is
  `payload_key_factors`, `pkeys` `profile_factor_keys`, `rotations`
  `profile_key_rotations`. Unlocking yields the set of possible `Vault`s, over the
  recipients whose private key is at hand and the passphrases typed; a wrong
  passphrase gives another key, and the ciphertext does not open.
* `VaultCommands`: one action per command on `disk`, the vault file: unlock it one
  of the three ways, change the `Vault`, `Saved`. A command is one step because a save
  replaces exactly the file it was loaded from (`VaultFile!RefinesRegister`) and
  fails otherwise; the generation is left to `Rollback`. `told` is a history
  variable: the variables as the successful commands reported them, by the
  operations of `ProfileStore`. `Commands` says which commands are in use, so
  that a run can leave some out; preset names, wording and share sets are
  abstracted. What is drawn at random differs from everything of its kind in the file.
* `RecipientKeys`: what `VaultCodec` takes as given, whose private keys are at hand.
  `keyring` is the vault's recipients and data key with the public key lines each
  version of the file keeps; a machine is the private keys its files and plugins
  hold, `.pub` files that may be missing or another key's, encryption, a person at
  the prompt, and the hardening setting. Machines and keys named on the command line are inputs of
  each command. `granted` is a history variable: the keys that commands have let in.
* `ProfilePolicies`: what the planner sees of a vault (`stored`: version, profile
  keys, kinds of vault factors, profiles that are unlocked or only entries,
  policies), the three unlocks as maps on it, findings, plans and every command
  that carries one out. A command that may fail or ask has the set of files it
  can leave (`After...`).
* `PassphraseCache`: one vault's entry in the cache, its expiry as ticks, and
  commands that load, obtain a passphrase, unlock and renew in steps of their own.
* `Shamir`, `RecoveryShares`: arithmetic in GF(256) on bytes as sets of bit positions,
  splitting and combining, and the sets, envelopes and files around them. `splits`
  are the splits made, `listed` the metadata in the vault, `keyAge` how often the
  data key was rotated, `used` the splits a vault was recovered with.
* `VaultBackups`: the files beside a vault and what may refuse it, one command after
  another.
* `RemoteRequests`: the vault's remote metadata and factor, and processes that ask
  the adapter for the factor key with a request file of some generation and expiry,
  and save. `asking[u].approved` are the generations its requests named.
* `Sessions`: what runs under each pid, `sessions.toml` and its lock. A process has a pid, which is
  used again, and a start token, which is not; `run` registers and then becomes the
  program. `proc[p].done` are the tokens a kill signalled.
* `Shims`: `bindings.toml`, the fragment, what each file of the shim directory is,
  and commands that read, write and sync in steps. `trusted` is a history variable:
  commands came one at a time, none died half way, or a sync put things right.
* `Reminders`: the vaults whose key a removed recipient knows (`exposed`), and the
  unlocked file of reminders that is to say so.
* `DeviceSeal`: what each backend keeps of its secret, and the seals of vaults made of it. A
  sealing reads the secret or makes one, stores it in the steps of its backend and saves the
  vault; it may fail or die between any two. `WithFallback`: the Keychain, with a file that
  is truncated and then written. `Recreated`: the any-application Keychain, whose item is deleted and
  created again; an item of the same name cannot be created twice. `Tpms`: a tpm2 command is one step
  or leaves something torn; the primary key is the same each time it is made.
  The other backends (the device-only Keychain, the Secret Service, the Secure Enclave command,
  DPAPI and the local file) replace the secret at once, as the Keychain does when it is in reach.
  The broker takes the steps of the process that asks it. `contested` is a
  history variable: the secrets that a sealing passed over, that is, could not read before it made
  another, and those made or read while others were being stored.
* `OperationFactors`: the Keychain records of operations and
  the steps of the calls on them. `answers` is a history variable.
* `VaultFile_proofs`, `Rollback_proofs`, `VaultCommands_proofs`, `RecipientKeys_proofs`,
  `RecoveryShares_proofs` (with `Shamir`), `Processes_proofs` (`Sessions`, `Shims`, `Reminders`,
  `DeviceSeal`, `OperationFactors`), `Security_proofs` (`PassphraseCache`, `VaultBackups`,
  `RemoteRequests`, `ProfilePolicies`): the theorems of the modules of their names or in brackets.
  `FoldLemmas`: induction over sets and numbers, and folds over a finite set, for the last of
  these and for `RecoveryShares_proofs`.
* `MC_VaultFile`, `MC_Rollback`, `MC_VaultCommands`, `MC_Shims`: instances, symmetry
  sets and bounds for TLC. `MC_Commands`, `MC_Security`, `MC_Processes`: several
  components in one run (`MC_Commands` extends `VaultCommands`, which is its setting "plain",
  and has two more instances of it). A variable `setting` or `part`, chosen in the
  initial state and never changed, says whose steps a behaviour takes; the
  variables of the others stay at one initial state. The components put together have no state
  in common there, so that their product would show nothing more.

## Runs

| run | instance | shows |
|---|---|---|
| `VaultFile` | 2 processes; 2 files with 1 variable and 2 creations, or 1 file with 2 variables | `TypeOK`, `LockDiscipline`, `RetainedViewIsCurrent`, `StoreChangesAreIsolated`, `RefinesRegister`, `VaultKeepsItsOrigin` |
| `VaultFile_live` | 2 processes, 1 vault | `SavesEnd` under `FairSpec` |
| `Rollback_shared` | 2 commands, 2 vaults, all baselines, 2 saves | `NoLockout` |
| `Rollback_replay` | 2 commands, 2 vaults, counter, restores, old copies put back, 2 saves | `RefusesOlder`, `RecordsStand` |
| `Commands`, "factors" | 2 recipients, 1 profile, 2 passphrases, all commands but rename, unset and remote | `EverythingOpens`, `RekeyedWithItsFactors` |
| `Commands`, "profiles" | 2 profiles with policies, the store, no vault factors | `KeepsItsWord`, `EverythingOpens`, `OneProfileAtATime` |
| `Commands`, "plain" | 2 profiles, 2 variables, no profile keys, remote factors | `EverythingOpens`, `PlainRefinesStore` |
| `Commands`, "recipients" | 4 keys (2 SSH, a plugin's, a native one), machines with up to two key files, 2 rotations | `OpensForTheGranted`, `RotatesUnaided` |
| `Processes` | sessions: 2 pids, 4 tokens; shims: 2 commands bound, 2 profiles; reminders: 2 vaults; seals: 2 processes, 2 vaults, 3 secrets, a backend with a fallback file, one that is deleted first and a TPM; operations: 3 callers, 1 operation, 3 keys; restores: 1 command at a time on a vault, `rollback.toml` only, 3 saves, 2 copies by hand | `LiveSessionsAreListed`, `SignalsOnlyWhatItChecked`, `KillReachesItsScope`; `ShimsFollowBindings`, `OtherFilesStay`, `SyncRepairs`; `SettledRemindersAreRight`; `SealsHold`; `AnswersStand`; `RestoredV2VaultsOpen` |
| `Security` | policies: 2 profiles; cache: 2 commands, 3 passphrases, 2 ticks; shares: 1 set of up to 3 shares, 1 split; backups: 3 generations, 4 files written, 2 backups; remote: 2 processes, 2 generations | `RepairableIsRepaired`, `RepairPreviewIsExact`, `ApplyAllEnforces`; `CachedPhraseOpened`, `StaleEntryEnds`; `SharesOpenTheirVault`, `OneShareTellsNothing`, `ReadyMeansRecoverable`, `UsedSharesAreSpent`; `ReplacedIsKept`, `StatusAgrees`; `ValidatedUnlocks`, `OneChangePerApproval` |
| `VaultCommands_rename` | rename with profile and vault passphrases | violated: `EverythingOpens` |
| `VaultCommands_unset` | unset with profile keys | violated: `KeepsItsWord` |
| `VaultCommands_remote` | a remote factor with profile keys | violated: `EverythingOpens` |
| `ProfilePolicies_apply` | `profile-policy apply` of a preset with nothing to repair | violated: `ApplyIsKept` |
| `Shims_skip` | a shim directory of one's own and conflicting bindings | violated: `RunSkipsShims` |

Bounds. `VaultFile` has no counters: its state space is finite in the sizes of its
constants. Two processes are enough for one to overtake the other; that a third
changes nothing about the lock is what the theorems say. A second
path matters only for saves to another path and for retained writers, a second
variable only for isolation, so `Within` of `MC_VaultFile` allows either and not
both at once. `Within` of `MC_Rollback` lets one of the two vaults be copied and restored, which is
enough for a restore to overlap a command on the other. `Rollback` counts saves up to `MaxSaves` and
copies up to `MaxCopies`; two saves are enough for a command to be overtaken
and for an old copy, a newer vault and a record of it to coexist; one process alone makes three. `VaultCommands` has no counters
either. What is drawn at random comes from small pools out of which it differs
from what the file holds: two data keys, as a rotation needs one that is not in
use; one profile key more than there are profiles; five factor ids, as a vault with two factors
and a profile with two of its own can still make a fifth (four without
profile factors or without two of the vault's are enough). Two profiles are enough for
one to be locked while the other changes. A data key in `RecoveryShares` is one byte because each
byte is shared on its own; the arithmetic is on all of GF(256), and `OneShareTellsNothing`
looks at every draw. Three shares are the fewest with a threshold of two that leaves one out; there
are labels that occur twice. `VaultBackups` starts with a file and writes three more, between which
they are copied and restored as often as the two backups at a time allow. Two generations are enough for a request of the past
to meet a vault of today. Four tokens let each of two pids be used again.

Symmetry. Constants are symmetric only where no operator tells them apart and no
liveness property is checked (`VaultFile_live` and `Security` have none). In
`MC_Processes` the names n1 to n4 are those of another thing in each component, of
which all behaviours of a run see one only, and p3 is left out of the
permutations as it is the process that restores. A property that compares two states does so for one permutation
of both.

Violations. `VaultCommands_rename`: the factor keys of a profile
stay under its old name, so a rename binds its entry to the vault's passphrase
while the policy names the profile's. `VaultCommands_unset`: unsetting the last
variable of a profile leaves its entry, and the save copies it back.
`VaultCommands_remote`: enabling a remote factor after unlocking the metadata only
leaves the entries wrapped under the old payload key. The passing runs leave out
exactly these combinations: "profiles" has renames but no vault factors (there a rename
of a profile with factors fails at the save and changes nothing), "plain" has
unset and remote factors but no profile keys. `ProfilePolicies_apply`: `apply` saves when
its plan had something to do, not when the preset changed. `Shims_skip`: an
error of the merge of the bindings counts as no bindings when `run` looks for the directory
to skip. The passing runs have `ApplyAllEnforces` of the command that saves
always, and no property on the executable `run` finds.

What does not hold and is not among the runs, because a small change of a passing run shows it
or because nothing in the repository says otherwise:

* What a command records in `rollback.toml` while another is half-way through the file can be lost: each
  takes the larger of what it read and its own generation, and the slower one writes the smaller, or
  writes the other vault's record as it read it. `RecordsStand` is about what was there before they
  overlapped: none of that is lowered but by a restore of the vault. With two processes, or without the condition on
  copies, `RestoredV2VaultsOpen` fails (the restore of a v1 backup leaves the
  baseline of the v2 vault in place, and after the next migration every command is
  refused). A save between the pre-restore copy and the overwrite is in no backup.
* `remote remove` takes away the metadata of an enabled factor, and the vault opens no
  more. No setting has both. An import under an id in use, with another adapter, does
  the same.
* Without `contested` `SealsHold` fails: any error of reading a device secret is answered with a
  new one, and storing it replaces the old one, or leaves none if it fails after the deletion of
  the item. Two first sealings do the same to each other. `SealsHold` says that nothing else is lost:
  a vault that no longer opens was sealed with a secret that was passed over or stored beside
  another. A TPM that is reset, which voids its context, is not modelled.
* A reminder is lost to an overlapping command on another vault, and a restore
  that brings back an exposed key leaves none: `SettledRemindersAreRight` is about
  vaults whose last command had the file for itself.
* After `restore-backup` a checkpoint of a newer generation still refuses the vault, although
  `rollback plan` says "unless explicitly restored".
* Removing recipients may leave none that the command line can use (a native age
  key).
* `MigrateVault` on a vault that is v2 already (the library's function; the commands
  do not call it so) resets its policies; a policy left over for a profile
  that is gone makes repair-all and apply-all fail; a stale cached passphrase
  is not answered by a prompt. The models do what the code does there.

Fairness. `VaultFile_live`: a save that has its lock goes on (`WF` on its
steps: nothing in them waits). flock is granted to a waiter if it becomes free
again and again (`SF` on `Acquire`), which is what the kernels' wait queues do. A
`VaultWriter` is dropped again and again reachable, "retained for a bounded
read/modify/publish transaction" (`SF` on `WriterDrop`). Nothing is assumed
of `Fail` and `Crash`. `Security`: time passes (`CacheFairness`, `WF` on `Tick`);
nothing is assumed of commands, so that `StaleEntryEnds` holds although they may try the
stale entry as often as they like.

## Proofs

A theorem holds for every value of the constants that the `ASSUME`s of its module
allow; TLC evaluates them in the runs. They say that the values that stand for "none"
are none of the others (`None`, `NoKey`, `NoPassphrase`, `NoPhrase`, `NoSecret`, `Torn`,
`NoAdapter`, `NoVault`, `Nobody`, `Tombstone`, `Vacant`, `Absent`), that options are
Booleans and bounds natural numbers, that the times of `RemoteRequests` are natural
numbers and the time to live of the cache one above zero, that machines, shim directories and
backends of each kind are of their types, no backend of two kinds, and for recovery shares that no two data keys of a
vault are the same and that shares are numbered by a byte, as their type is `u8`. Hypotheses beyond these
are part of a theorem's statement. No theorem is about a bound: `MaxSaves`, `MaxCopies`,
`MaxGeneration`, `MaxRotations`, `MaxFiles`, `MaxSplits` may be any number.

Each proof has the same shape: an inductive invariant, one lemma per action, and a
temporal step at the end. The property of the run is seldom inductive; what
is added is what the processes or the file must remember for it:

* `VaultFile_proofs`. `IInv` strengthens `LockDiscipline` and
  `RetainedViewIsCurrent` with what relates the parts of a process
  (`ProcessesAreCoherent`), with what a save expects (`ExpectationsAreGrounded`,
  `JobsAreOnCourse`) and with `ComparisonStands`: between its comparison and its
  rename a process holds the lock, so the file is still what it compared. That is
  what makes the rename a compare-and-swap: theorems `LockSafety`,
  `RetainedViewSafety`, `StoreIsolation`, `OriginStability` and `Refinement`.
* `Rollback_proofs`. `Lockout`: `NoLockout` is inductive together with
  `CommandsAreBehind` (whatever a command holds in memory, its snapshot of the whole
  file included, the vault on disk has caught up with), where no old copy is put
  back. `Refusal`: with the external counter, `recorded <= counter` is invariant
  (`CounterIsAhead`), so the last check refuses any vault older than a
  completed record, whatever happened to the files. `RecordsAlwaysStand`, for any number of
  commands and restores that overlap: whoever is half-way through `rollback.toml` holds, in what it read
  and in what it is to record, nothing below `settled` (`HoldsNothingBelow`), and `settled` catches
  up with the file only when nobody is. `RestoredVaultsOpen`: with one command at a time (`OneAtATime`; with two it fails, see above), what it has read
  of `rollback.toml` (`ReadsTheBase`) and, where nobody else puts copies back, of the vault
  (`ReadsTheVault`) is still there when it writes.
* `VaultCommands_proofs`, the largest, is about the commands on the nested encryption of a vault.
  - `FileStaysWell`: the file keeps its type and its fields agree (`FileIsWell`). A
    policy requires exactly the kinds it has factors for (`PolicyIsWhole`), factors come one of a
    kind, version 1 has no factors, entries come with profile keys only, and then
    the variables are nowhere else. No invariant below is inductive without it: the
    keys of a profile are looked up by kind, so two of a kind would bind
    to the wrong one.
  - What the three unlocks make of such a file is described once, by `Opened`: fields of the file, entries that
    opened, and the keys derived from the passphrase that was typed. From it each command is shown to be
    one of three kinds of step: one on the vault's side (`VaultSide`: recipients, data key,
    vault factors), one on some profiles (`ProfileSide`, `EntrySide`, and `Tells` for
    what it reports) or the one that turns profile keys on (`KeysSide`)
    (lemma `EveryCommandStep`). The theorems look at these three kinds, not at each command.
  - `VaultsOpen`: `EverythingOpens` is inductive with `FileIsWell`, by way of
    what the `Vault` in memory holds: `MemoryFits` after unlocking (the keys are those
    the metadata names; for a locked profile nothing is known but its entry) and
    `KeysFit` before encoding, which encoding needs to produce entries
    that open. Three commands do lose keys, depending on when they
    are run, and the theorem is about the histories without such a step (`KeepsKeys`): a
    rename in a vault with profile keys while the profile and the vault name factors of one kind
    (the run `VaultCommands_rename`), a remote factor enabled over entries (the run
    `VaultCommands_remote`), and `remote remove` of metadata that a factor names, described
    above. Any other rename, import, removal or remote factor is allowed. The rename of a
    profile that requires a kind of factor the vault has none of cannot be saved, so it loses nothing.
  - `CommandsKeepTheirWord`, `CommandsRefineStore`: the file is the map of `told`,
    and every command one operation of `ProfileStore` or none, in the histories where unset does not take
    the last variable of a profile with an entry (`UnsetsLeaveSome`; the run
    `VaultCommands_unset` has that step). The refinement
    also leaves out `replace_profile`, which the abstract map does not have. TLC checks
    the refinement without profile keys (`PlainRefinesStore`), the proof has both.
  - `CommandsReplaceOneEntry` needs no hypothesis, `CommandsRekey` only that remote factors are not
    enabled over entries: that command changes the payload key after a metadata unlock, with
    the entries as they were.
  - `SafeCommandsOpen`, `SafeUnsetsKeepTheirWord`, `SafeUnsetsRefineStore` and `SafeCommandsRekey` are the
    same without a condition on steps, for the sets of commands that never take such a
    step; those the passing runs use are among them.
* `RecipientKeys_proofs`. `WrappedForTheGranted`: the entries of the file are exactly those of
  the keys that were let in, each with its line in version 2. `AlwaysOpensForTheGranted` and
  `AlwaysRotatesUnaided` follow from it and from what a machine can use.
* `Processes_proofs`. Sessions: the lock is held from opening the file to the end of the
  command (`HoldsTheLock`), therefore what was read is what is there (`ReadsWhatIsThere`) and
  what is saved has every session that runs (`SavesTheLive`); a kill has of its scope
  nothing left out (`LeavesNoneOut`), and between check and signal a pid has the process
  that was checked, none, or a later one (`CheckedOrLate`): `LiveSessionsAreAlwaysListed`,
  `OnlyTheCheckedIsSignalled`, `AKillReachesItsScope`.
  Operations and seals: `AnswersStand` is inductive by itself with the types, because a record is added only where
  there is none and an answer is what was read last. `SealsAlwaysHold`: a secret
  that is in a seal, saved or about to be, and not contested is where its backend looks for it, and
  nobody is about to store another (`SealsAreHeld`); that is inductive with what storing must keep up:
  who stores a secret that is not contested is alone at the backend (`StoresAlone`), and what
  an item of the Keychain hides in the fallback file is contested (`HiddenIsContested`).
  Reminders and shims: `SettledRemindersAreAlwaysRight`: whoever is about to write the file without a lock
  has read what is right of every vault that is settled (`ViewsAreRight`).
  `ShimsAlwaysFollowBindings`: the only command at work, trusted, writes what is bound and has written
  what it has not left to do (`AloneWritesWhatIsBound`); `SyncAlwaysRepairs` needs no trust,
  `OtherFilesAlwaysStay` no invariant but the types.
* `Security_proofs`. `CachedPhrasesAlwaysOpened`: what is about to be remembered opened what
  was loaded (`RemembersWhatOpened`), though not what is there now. `ReplacedIsAlwaysKept`:
  what was replaced is the newest copy (`ReplacedIsNewest`); pruning takes from
  the other end. `AnApprovalIsForOneChange`: who may save has an approval of
  the generation it loaded (`OpensWithApproval`), and `ValidatedAlwaysUnlocks` as ids of metadata are unique
  (`OneFactorPerId`). `PreviewsAreExact` needs only that what status finds does not
  depend on what is unlocked. `RepairsRepair` and `PresetsAreEnforced` need the vaults to be
  sound (`SoundVaults`): a v1 vault has no profile keys and no factors that its migration could
  lose. `apply-all` makes its plans before the first turn, so that the invariant of its turns
  says that none undoes an earlier one (`EnforcedFor`). The turns are a fold over any
  finite set of profiles.
* `RecoveryShares_proofs`. The state has a small invariant (`ShareInv`): splits are of their type and
  no younger than the vault's key, and older than it when a vault with its recipients' lines was
  recovered with them. What the properties rest on is arithmetic, and is proved from the bits up:
  - `Xor` makes bytes a group and `Double` adds, so `Mul`, a sum of doublings, adds on both
    sides; that a doubling may be taken out of either factor gives commutativity and
    associativity. What adds, and is right at the eight single bits, is right
    at every byte (`BasisInduction`), so that no case is split over 256 values.
  - `InverseOf`: squaring adds; eight squarings of the byte {1} give it back, hence of every byte;
    so the product of seven squarings that `gf_inv` computes, times the byte, is its own square and
    not 0: it is 1.
  - `SharesGiveTheSecret`: interpolation at 0 (`Interpolated`) adds, takes out constant factors,
    and gives a constant back (`InterpolatedOne`, by the smallest set of points where it would
    not). A value that is interpolated alike with one point more is interpolated to
    0 after one more factor x (`InterpolatedTimesX`); so Horner's rule, one coefficient at a
    time, ends in the secret (`InterpolatedRows`).
  - `SharesAlwaysOpen`, `ReadyIsRecoverable`: the envelopes of a split have different indices, those of
    different labels too. The hypothesis `OneWordIds`, that no id of a share set has a colon
    in it, is needed: nothing in the code refuses such an id, `encode_recovery_share_envelope`
    writes it as two fields, and `decode_recovery_share_envelope` then refuses every share
    (`ColonsAreNotRead`). `OneShareHidesTheKey` and `UsedSharesStaySpent` need no hypothesis.

Induction over data. The library's induction theorems take an operator, which the provers cannot
fill in, so `FoldLemmas` states induction with sets: a set of subsets that has the empty
set, and each set whose rest it has, has them all (`FoldInduction`); of some subsets of a finite set
one has none of the others in it (`SmallestSet`); and so for numbers (`UpInduction`). A
recursive function is then what satisfies its equation at each step (`FoldExists`,
`CountingExists`), and a fold whose steps may be swapped takes its members in any order
(`FoldAnyOrder`).

Only model-checked:

* `SavesEnd` and `StaleEntryEnds`: liveness under fairness is beyond TLAPS.

## Not modelled

Cryptography, locked memory and hardening (no
state beyond a call): a ciphertext opens under exactly the key it was made with. The bytes of the file
format, but for which recipients' lines a version keeps. Parsing of key files, prompts, printing, the picker, configuration and doctor
(I/O). The platform back ends of the device seal and the adapters of remote
factors: external, modelled by what the code expects of them. The environment that
`run` builds and what `export` prints. A generation beyond 2^64-1, where it
saturates. The order in which a caller of the library locks two vaults: the library
has one `VaultWriter` for each vault and cannot see that two processes take two of them
in opposite order; no caller in the repository retains two. `PROJECT.json` has the
reason for each component.
