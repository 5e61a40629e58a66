----------------------------- MODULE VaultBackups -----------------------------
(***************************************************************************)
(* Copies of a vault beside it: the ones profile-policy repair-all and     *)
(* apply-all make first, the ones restore-backup makes of what it replaces, *)
(* and verify, restore and prune; and what may refuse the vault then: the  *)
(* local baseline, the synced one, a signed checkpoint.  One command runs  *)
(* at a time (Rollback has them overlap).  The baselines of the copies'    *)
(* own paths are left out: a copy does not change, so they never refuse it. *)
(***************************************************************************)
EXTENDS Naturals, Sequences, SequencesExt

CONSTANTS MaxGeneration,            \* generations of the vault
          MaxWrites,                \* files written by commands
          MaxCopies                 \* backups at a time

ASSUME BackupAssumption == MaxGeneration \in Nat /\ MaxWrites \in Nat /\ MaxCopies \in Nat

VARIABLES vault,                    \* the vault file
          backups,                  \* the files beside it, oldest first
          localBase, syncedBase,    \* the vault's generation in rollback.toml and
                                    \* in the synced file; 0 where there is none
          synced,                   \* is SSHENV_ROLLBACK_SYNC set?
          checkpoint,               \* the environment's checkpoint
          writes,                   \* how many files were written; tells files apart
          replaced                  \* history: what the last command with a copy replaced

backupVars == <<vault, backups, localBase, syncedBase, synced, checkpoint, writes,
                replaced>>

\* A generation of 0 is that of a v1 vault, which has none.
File(gen, id) == [gen |-> gen, id |-> id]
Damaged       == File(0, 0)
NoCheckpoint  == [from |-> "none", signed |-> FALSE, gen |-> 0]
Checkpoints   == [from : {"file", "command"}, signed : BOOLEAN, gen : 1 .. MaxGeneration]
                   \cup {NoCheckpoint}

Newer(m, n) == IF m < n THEN n ELSE m

BackupInit ==
  /\ vault = File(0, 1) /\ writes = 1
  /\ backups = <<>>
  /\ localBase = 0 /\ syncedBase = 0
  /\ synced \in BOOLEAN
  /\ checkpoint = NoCheckpoint
  /\ replaced = Damaged

-----------------------------------------------------------------------------
(* What may refuse a vault.                                                 *)

\* enforce_env_checkpoint, on the path the checkpoint is about.
Enforce(gen) ==
  \/ checkpoint = NoCheckpoint
  \/ checkpoint.signed /\ gen # 0 /\ gen >= checkpoint.gen

\* The same on the path of a copy.  A checkpoint file names the vault's path; the
\* command is asked about the path, and knows of nothing newer there.
EnforceOnCopy(gen) ==
  \/ checkpoint = NoCheckpoint
  \/ checkpoint.from = "command" /\ checkpoint.signed /\ gen # 0

\* check_generation
CheckGeneration(gen) == gen = 0 \/ (gen >= localBase /\ (synced => gen >= syncedBase))

CanOpen       == vault # Damaged /\ Enforce(vault.gen) /\ CheckGeneration(vault.gen)
Verifies(file) == file # Damaged /\ EnforceOnCopy(file.gen)

\* record_generation, of a vault that has one.
Recorded(base, gen) == Newer(base, gen)
Record(gen) ==
  /\ localBase' = Recorded(localBase, gen)
  /\ syncedBase' = IF synced THEN Recorded(syncedBase, gen) ELSE syncedBase

(* Mutant: the synced baseline counts only where there is no local one. *)
SuspectedLocally(gen) == gen < (IF localBase = 0 THEN syncedBase ELSE localBase)

\* rollback_combined_baseline_status, of a v2 vault.
RollbackSuspected(gen) == gen < Newer(localBase, IF synced THEN syncedBase ELSE 0)

-----------------------------------------------------------------------------
(* Commands.                                                                *)

SavedAs ==
  /\ writes < MaxWrites
  /\ \E gen \in IF vault.gen = 0 THEN {0, 1} ELSE {vault.gen + 1} :
       gen <= MaxGeneration /\ vault' = File(gen, writes + 1) /\ Record(gen)
  /\ writes' = writes + 1

SaveVault ==
  /\ CanOpen
  /\ SavedAs
  /\ UNCHANGED <<backups, synced, checkpoint, replaced>>

\* A command that only opens the vault records its generation.
OpenVault ==
  /\ CanOpen
  /\ Record(vault.gen)
  /\ UNCHANGED <<vault, backups, synced, checkpoint, writes, replaced>>

\* repair-all, apply-all: unlock, copy the vault, change it and save it.
BulkCommand ==
  /\ CanOpen
  /\ Len(backups) < MaxCopies
  /\ backups' = Append(backups, vault)
  /\ replaced' = vault
  /\ SavedAs
  /\ UNCHANGED <<synced, checkpoint>>

(* Mutant: the vault is copied aside when it has been overwritten. *)
CopiedLate(file) == Append(backups, file)

CopiedAside(file) == Append(backups, vault)

\* set_rollback: exactly this generation, older or not.
BaselineRestored(gen) == IF gen = 0 THEN localBase ELSE gen

\* restore-backup.  Both files are verified: the backup has to open, the vault to
\* be readable (where it opens, its generation is recorded, and soon overwritten
\* in rollback.toml).  Then the vault is copied aside and overwritten.
RestoreBackup(file) ==
  /\ vault # Damaged
  /\ Verifies(file)
  /\ Len(backups) < MaxCopies
  /\ backups' = CopiedAside(file)
  /\ replaced' = vault
  /\ vault' = file
  /\ localBase' = IF file.gen = 0 /\ CanOpen THEN Recorded(localBase, vault.gen)
                  ELSE BaselineRestored(file.gen)
  /\ syncedBase' = IF synced /\ CanOpen THEN Recorded(syncedBase, vault.gen) ELSE syncedBase
  /\ UNCHANGED <<synced, checkpoint, writes>>

\* Which backups prune keeps: the newest, of both kinds together.
NewestOf(keep) == {i \in DOMAIN backups : i > Len(backups) - keep}

\* prune-backups --confirm; a file that cannot be removed stays.  order: which
\* files are left, oldest first.
PruneBackups(keep) ==
  /\ keep < Len(backups)
  /\ \E n \in 0 .. Len(backups) : \E order \in [1 .. n -> DOMAIN backups] :
       /\ \A i, j \in 1 .. n : i < j => order[i] < order[j]
       /\ NewestOf(keep) \subseteq {order[i] : i \in 1 .. n}
       /\ backups' = [i \in 1 .. n |-> backups[order[i]]]
  /\ replaced' = IF keep = 0 THEN Damaged ELSE replaced
  /\ UNCHANGED <<vault, localBase, syncedBase, synced, checkpoint, writes>>

-----------------------------------------------------------------------------
(* Hands other than sshenv's: a copy put back, a damaged file, a checkpoint  *)
(* of a generation the vault has had.                                       *)

PutBack(file) ==
  /\ vault # file
  /\ vault' = file
  /\ UNCHANGED <<backups, localBase, syncedBase, synced, checkpoint, writes, replaced>>

SetCheckpoint(document) ==
  /\ document.gen <= Newer(vault.gen, localBase)
  /\ checkpoint' = document
  /\ UNCHANGED <<vault, backups, localBase, syncedBase, synced, writes, replaced>>

BackupNext ==
  \/ SaveVault
  \/ OpenVault
  \/ BulkCommand
  \/ \E file \in ToSet(backups) : RestoreBackup(file)
  \/ \E keep \in 0 .. MaxCopies : PruneBackups(keep)
  \/ \E file \in ToSet(backups) \cup {Damaged} : PutBack(file)
  \/ \E document \in Checkpoints : SetCheckpoint(document)

BackupSpec == BackupInit /\ [][BackupNext]_backupVars

-----------------------------------------------------------------------------
(***************************************************************************)
(* What the last repair-all, apply-all or restore-backup replaced is still *)
(* there to be restored, whatever was saved, restored and pruned since,    *)
(* unless all backups were pruned: what these commands did can be undone.  *)
(***************************************************************************)
ReplacedIsKept == replaced # Damaged => replaced \in ToSet(backups)

(***************************************************************************)
(* rollback-status suspects a v2 vault exactly when the baselines refuse   *)
(* it, after a restore too, which lowers one of them only.                 *)
(***************************************************************************)
StatusAgrees == vault.gen # 0 => (RollbackSuspected(vault.gen) <=> ~CheckGeneration(vault.gen))
=============================================================================
