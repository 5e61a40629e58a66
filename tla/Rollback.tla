------------------------------ MODULE Rollback ------------------------------
(***************************************************************************)
(* Rollback protection of the CLI: packages/cli/src/rollback.rs and its     *)
(* callers in commands/mod.rs and commands/security.rs.                     *)
(*                                                                          *)
(* Every command that opens a v2 vault compares the generation of the vault *)
(* with up to three baselines and refuses an older vault; after it opened   *)
(* or saved a vault it records the generation there.  The baselines are the *)
(* local file rollback.toml, an optional shared file, and an optional       *)
(* external command that keeps a counter.  Both files are read, changed and *)
(* written back whole, without a lock.  The vault itself is only replaced   *)
(* by a compare-and-swap (VaultFile), except by `restore-backup`.           *)
(*                                                                          *)
(* A v1 vault has no generation: it is the one of generation 0, which no    *)
(* baseline refuses and whose recording changes nothing.  The signed        *)
(* checkpoint of rollback_checkpoint.rs is not configured here.             *)
(***************************************************************************)
EXTENDS Naturals, FiniteSets

CONSTANTS
    Procs,          \* the commands that run concurrently
    Paths,          \* the vaults of one host, whose records share one file
    None,           \* no vault
    Synced,         \* SSHENV_ROLLBACK_SYNC is set
    Monotonic,      \* SSHENV_ROLLBACK_MONOTONIC_COMMAND is set
    Replays,        \* something outside sshenv puts old copies of a vault back
    Restores,       \* the user runs `security profile-policy restore-backup`
    MaxSaves,       \* bound: how many contents are ever written
    MaxCopies       \* bound: how many copies of a vault are made by hand

ASSUME RollbackAssumption ==
    /\ None \notin Paths
    /\ {Synced, Monotonic, Replays, Restores} \subseteq BOOLEAN
    /\ MaxSaves \in Nat /\ MaxCopies \in Nat

VARIABLES
    disk,       \* disk[v]: the vault file at v
    copies,     \* copies[v]: the copies made of it: backups, synced files
    base,       \* base[v]: the record of v in rollback.toml; 0 for none
    synced,     \* synced[v]: its record in the shared file
    counter,    \* counter[v]: the counter of the external command
    cmd,        \* cmd[p]: what process p is doing, or NoCommand
    saves,      \* how many contents were written so far
    recorded,   \* history: recorded[v], the highest generation whose recording
                \* was completed, or a lower one that a restore has set
    cut         \* history: the vaults whose last restore stopped before its record

vars == <<disk, copies, base, synced, counter, cmd, saves, recorded, cut>>

\* A vault file: its generation, and which of the contents written it is.
Files     == [gen : Nat, id : Nat]
Baselines == [Paths -> Nat]

Checks    == {"checklocal", "checksynced", "checkcounter"}
Recording == {"readbase", "rereadbase", "writebase", "readsynced",
              "writesynced", "count"}
Restoring == {"copy", "overwrite", "rereadexact", "writeexact"}

CommandStates == [
    at       : {"idle", "unlock", "opened"} \cup Checks \cup Recording \cup Restoring,
    path     : Paths \cup {None},   \* the vault it works on
    loaded   : Files,               \* the file it read, or saved last
    saved    : BOOLEAN,             \* whether it has saved the vault
    target   : Nat,                 \* the generation it is to record locally
    snapshot : Baselines]           \* the baseline file it is to write back

NewVault == [gen |-> 0, id |-> 0]
NoRecord == [v \in Paths |-> 0]

NoCommand == [at |-> "idle", path |-> None, loaded |-> NewVault, saved |-> FALSE,
              target |-> 0, snapshot |-> NoRecord]

TypeOK ==
    /\ disk     \in [Paths -> Files]
    /\ copies   \in [Paths -> SUBSET Files]
    /\ base     \in Baselines
    /\ synced   \in Baselines
    /\ counter  \in Baselines
    /\ cmd      \in [Procs -> CommandStates]
    /\ saves    \in Nat
    /\ recorded \in Baselines
    /\ cut      \in SUBSET Paths

\* Every vault has just been made by `sshenv init`: a v1 vault.
Init ==
    /\ disk     = [v \in Paths |-> NewVault]
    /\ copies   = [v \in Paths |-> {}]
    /\ base     = NoRecord
    /\ synced   = NoRecord
    /\ counter  = NoRecord
    /\ cmd      = [p \in Procs |-> NoCommand]
    /\ saves    = 0
    /\ recorded = NoRecord
    /\ cut      = {}

------------------------------------------------------------------------------
At(p, step) == cmd[p].at = step /\ cmd[p].path \in Paths

Goto(p, step) == cmd' = [cmd EXCEPT ![p].at = step]

Finish(p) == cmd' = [cmd EXCEPT ![p] = NoCommand]

\* The generation process p has in memory.
Gen(p) == cmd[p].loaded.gen

Larger(m, n) == IF m < n THEN n ELSE m

Raised(baseline, v, g) == [baseline EXCEPT ![v] = Larger(baseline[v], g)]

------------------------------------------------------------------------------
\* Opening a vault: `load_ciphertext`, then `check_rollback`.

Open(p, v) ==
    /\ cmd[p] = NoCommand
    /\ cmd' = [cmd EXCEPT ![p] = [NoCommand EXCEPT
           !.at     = IF disk[v].gen = 0 THEN "unlock" ELSE "checklocal",
           !.path   = v,
           !.loaded = disk[v]]]
    /\ UNCHANGED <<disk, copies, base, synced, counter, saves, recorded, cut>>

\* One comparison of `check_generation`: the next step, or the refusal.
CheckGeneration(p, step, baseline, next) ==
    /\ At(p, step)
    /\ IF Gen(p) < baseline[cmd[p].path] THEN Finish(p) ELSE Goto(p, next)
    /\ UNCHANGED <<disk, copies, base, synced, counter, saves, recorded, cut>>

AfterSynced == IF Monotonic THEN "checkcounter" ELSE "unlock"
AfterLocal  == IF Synced THEN "checksynced" ELSE AfterSynced

\* Mutant of CheckLocal: a vault that passes the first check passes them all.
CheckLocalOnly(p) == CheckGeneration(p, "checklocal", base, "unlock")

CheckLocal(p)   == CheckGeneration(p, "checklocal", base, AfterLocal)
CheckSynced(p)  == CheckGeneration(p, "checksynced", synced, AfterSynced)
CheckCounter(p) == CheckGeneration(p, "checkcounter", counter, "unlock")

\* The vault is unlocked.  The `load_and_unlock` functions then record its
\* generation; the commands built on `load_ciphertext_and_fps` do not.
Unlock(p) ==
    /\ At(p, "unlock")
    /\ \/ Gen(p) > 0 /\ Goto(p, "readbase")
       \/ Goto(p, "opened")
    /\ UNCHANGED <<disk, copies, base, synced, counter, saves, recorded, cut>>

------------------------------------------------------------------------------
\* `record_generation`.

AfterWriteSynced == IF Monotonic THEN "count" ELSE "done"
AfterWriteBase   == IF Synced THEN "readsynced" ELSE AfterWriteSynced

\* What follows a part of the recording.  When all is done, a command that has
\* saved ends, and one that has only opened the vault goes on with it.
Proceed(p, next) ==
    IF next # "done"
    THEN Goto(p, next) /\ UNCHANGED recorded
    ELSE /\ recorded' = Raised(recorded, cmd[p].path, Gen(p))
         /\ IF cmd[p].saved
            THEN Finish(p)
            ELSE cmd' = [cmd EXCEPT ![p] =
                     [@ EXCEPT !.at = "opened", !.target = 0, !.snapshot = NoRecord]]

\* Mutant of ReadBase: the generation at hand is recorded, smaller or not.
ReadBaseOwn(p) ==
    /\ At(p, "readbase")
    /\ cmd' = [cmd EXCEPT ![p] = [@ EXCEPT !.at = "rereadbase", !.target = Gen(p)]]
    /\ UNCHANGED <<disk, copies, base, synced, counter, saves, recorded, cut>>

\* `record_generation` reads the file for the larger generation, ...
ReadBase(p) ==
    /\ At(p, "readbase")
    /\ cmd' = [cmd EXCEPT ![p] =
           [@ EXCEPT !.at = "rereadbase", !.target = Larger(base[cmd[p].path], Gen(p))]]
    /\ UNCHANGED <<disk, copies, base, synced, counter, saves, recorded, cut>>

Read(p, step, baseline, next) ==
    /\ At(p, step)
    /\ cmd' = [cmd EXCEPT ![p] = [@ EXCEPT !.at = next, !.snapshot = baseline]]
    /\ UNCHANGED <<disk, copies, base, synced, counter, saves, recorded, cut>>

\* ... and `set_generation` reads it again ...
RereadBase(p) == Read(p, "rereadbase", base, "writebase")

\* ... and writes it back.
WriteBase(p) ==
    /\ At(p, "writebase")
    /\ base' = [cmd[p].snapshot EXCEPT ![cmd[p].path] = cmd[p].target]
    /\ Proceed(p, AfterWriteBase)
    /\ UNCHANGED <<disk, copies, synced, counter, saves, cut>>

\* `record_synced_generation`.
ReadSynced(p) == Read(p, "readsynced", synced, "writesynced")

WriteSynced(p) ==
    /\ At(p, "writesynced")
    /\ synced' = Raised(cmd[p].snapshot, cmd[p].path, Gen(p))
    /\ Proceed(p, AfterWriteSynced)
    /\ UNCHANGED <<disk, copies, base, counter, saves, cut>>

\* The external command keeps the largest generation it is told.
Count(p) ==
    /\ At(p, "count")
    /\ counter' = Raised(counter, cmd[p].path, Gen(p))
    /\ Proceed(p, "done")
    /\ UNCHANGED <<disk, copies, base, synced, saves, cut>>

------------------------------------------------------------------------------
\* `save_vault`, or no save.

\* A read-only command ends.
Close(p) ==
    /\ At(p, "opened")
    /\ Finish(p)
    /\ UNCHANGED <<disk, copies, base, synced, counter, saves, recorded, cut>>

\* `bump_generation`: a v1 vault stays one or is migrated to v2.
Bumped(g) == IF g = 0 THEN {0, 1} ELSE {g + 1}

Put(v, file) == disk' = [disk EXCEPT ![v] = file]

\* The save, and the start of its recording.
Save(p) ==
    LET v == cmd[p].path IN
    /\ At(p, "opened")
    /\ saves < MaxSaves
    /\ disk[v] = cmd[p].loaded
    /\ \E g \in Bumped(Gen(p)) :
          LET file == [gen |-> g, id |-> saves + 1] IN
          /\ Put(v, file)
          /\ IF g = 0
             THEN Finish(p)
             ELSE cmd' = [cmd EXCEPT ![p] =
                      [@ EXCEPT !.at = "readbase", !.loaded = file, !.saved = TRUE]]
    /\ saves' = saves + 1
    /\ UNCHANGED <<copies, base, synced, counter, recorded, cut>>

\* Mutant of SaveConflict: the generation is recorded although nothing was saved.
ConflictRecorded(p) ==
    /\ At(p, "opened")
    /\ disk[cmd[p].path] # cmd[p].loaded
    /\ cmd' = [cmd EXCEPT ![p].at = "readbase", ![p].loaded.gen = @ + 1,
                          ![p].saved = TRUE]
    /\ UNCHANGED <<disk, copies, base, synced, counter, saves, recorded, cut>>

\* `VaultWriteConflict`: nothing is recorded.
SaveConflict(p) ==
    /\ At(p, "opened")
    /\ disk[cmd[p].path] # cmd[p].loaded
    /\ Finish(p)
    /\ UNCHANGED <<disk, copies, base, synced, counter, saves, recorded, cut>>

\* Between the overwrite and the record of what was restored.
Unrecorded(p) == cmd[p].at \in {"rereadexact", "writeexact"}

\* The command dies, or a step of it fails.
Die(p) ==
    /\ cmd[p] # NoCommand
    /\ cut' = cut \cup {v \in Paths : v = cmd[p].path /\ Unrecorded(p)}
    /\ Finish(p)
    /\ UNCHANGED <<disk, copies, base, synced, counter, saves, recorded>>

------------------------------------------------------------------------------
\* `profile_policy_restore_backup`.  Its preview opens the vault and the backup
\* the way any command does; these are earlier commands of the same process.

StartRestore(p, v) ==
    /\ Restores
    /\ cmd[p] = NoCommand
    /\ \E copy \in copies[v] :
          cmd' = [cmd EXCEPT ![p] =
              [NoCommand EXCEPT !.at = "copy", !.path = v, !.loaded = copy]]
    /\ UNCHANGED <<disk, copies, base, synced, counter, saves, recorded, cut>>

\* The pre-restore backup.
CopyAside(p) ==
    LET v == cmd[p].path IN
    /\ At(p, "copy")
    /\ copies' = [copies EXCEPT ![v] = @ \cup {disk[v]}]
    /\ Goto(p, "overwrite")
    /\ UNCHANGED <<disk, base, synced, counter, saves, recorded, cut>>

\* `atomic_write`: neither the writer lock nor a comparison.
Overwrite(p) ==
    /\ At(p, "overwrite")
    /\ Put(cmd[p].path, cmd[p].loaded)
    /\ IF Gen(p) = 0 THEN Finish(p) ELSE Goto(p, "rereadexact")
    /\ UNCHANGED <<copies, base, synced, counter, saves, recorded, cut>>

\* `set_generation` of the generation restored.
RereadExact(p) == Read(p, "rereadexact", base, "writeexact")

\* Mutant of WriteExact: the baseline is only ever raised.
WriteLarger(p) ==
    /\ At(p, "writeexact")
    /\ base' = Raised(cmd[p].snapshot, cmd[p].path, Gen(p))
    /\ cut'  = cut \ {cmd[p].path}
    /\ Finish(p)
    /\ UNCHANGED <<disk, copies, synced, counter, saves, recorded>>

WriteExact(p) ==
    LET v == cmd[p].path IN
    /\ At(p, "writeexact")
    /\ base'     = [cmd[p].snapshot EXCEPT ![v] = Gen(p)]
    /\ recorded' = [recorded EXCEPT ![v] = IF Gen(p) < @ THEN Gen(p) ELSE @]
    /\ cut'      = cut \ {v}
    /\ Finish(p)
    /\ UNCHANGED <<disk, copies, synced, counter, saves>>

------------------------------------------------------------------------------
\* The rest of the world.

\* A save through `SshenvStore`, which leaves the generation as it is.
StoreSave(v) ==
    /\ saves < MaxSaves
    /\ Put(v, [disk[v] EXCEPT !.id = saves + 1])
    /\ saves' = saves + 1
    /\ UNCHANGED <<copies, base, synced, counter, cmd, recorded, cut>>

\* A copy of the vault is made: a bulk backup, a copy for another machine.
Copy(v) ==
    /\ Replays \/ Restores
    /\ Cardinality(copies[v]) < MaxCopies
    /\ copies' = [copies EXCEPT ![v] = @ \cup {disk[v]}]
    /\ UNCHANGED <<disk, base, synced, counter, cmd, saves, recorded, cut>>

\* Such a copy takes the place of the vault.
Replay(v) ==
    /\ Replays
    /\ \E copy \in copies[v] : Put(v, copy)
    /\ UNCHANGED <<copies, base, synced, counter, cmd, saves, recorded, cut>>

------------------------------------------------------------------------------
Opening(p)  == CheckLocal(p) \/ CheckSynced(p) \/ CheckCounter(p) \/ Unlock(p)

RecordStep(p) ==
    \/ ReadBase(p) \/ RereadBase(p) \/ WriteBase(p)
    \/ ReadSynced(p) \/ WriteSynced(p)
    \/ Count(p)

Saving(p) == Close(p) \/ Save(p) \/ SaveConflict(p)

RestoreStep(p) == CopyAside(p) \/ Overwrite(p) \/ RereadExact(p) \/ WriteExact(p)

World(v) == StoreSave(v) \/ Copy(v) \/ Replay(v)

Next ==
    \/ \E p \in Procs :
          \/ \E v \in Paths : Open(p, v) \/ StartRestore(p, v)
          \/ Opening(p) \/ RecordStep(p) \/ Saving(p) \/ RestoreStep(p)
          \/ Die(p)
    \/ \E v \in Paths : World(v)

Spec == Init /\ [][Next]_vars

------------------------------------------------------------------------------
\* Where no older copy is put back, the vault on disk is never refused: no
\* interleaving, conflict or death leaves a baseline above the generation on
\* disk, and a command that was refused in a race can be repeated.
NoLockout ==
    \A v \in Paths :
        /\ base[v] <= disk[v].gen
        /\ synced[v] <= disk[v].gen
        /\ counter[v] <= disk[v].gen

\* A v2 vault older than one whose recording was completed is not opened.
RefusesOlder ==
    [][\A p \in Procs :
          cmd[p].at \in Checks /\ cmd'[p].at = "unlock"
              => recorded[cmd[p].path] <= Gen(p)
      ]_vars

\* A restore of v is under way, or has stopped, with its record to be made.
RestorePending(v) == v \in cut \/ \E p \in Procs : cmd[p].path = v /\ Unrecorded(p)

\* A restore makes the generation it restored "the new local baseline": after
\* it, and after all later saves, the vault is opened and not refused.  Said of
\* vaults of which no v1 copy was made: the restore of a v1 copy sets no
\* baseline, and the old one refuses the vault once it is migrated again.
RestoredV2VaultsOpen ==
    \A v \in Paths :
        (\A copy \in copies[v] : copy.gen > 0) /\ ~RestorePending(v)
            => base[v] <= disk[v].gen

\* The inductive invariant behind NoLockout: whatever a command has read, in
\* the vault or in a baseline file, the vault on disk has caught up with.
CommandsAreBehind ==
    \A p \in Procs :
        /\ cmd[p].at \notin Restoring
        /\ \A v \in Paths : cmd[p].snapshot[v] <= disk[v].gen
        /\ cmd[p].path \in Paths =>
              /\ Gen(p) <= disk[cmd[p].path].gen
              /\ cmd[p].target <= disk[cmd[p].path].gen

IInv == TypeOK /\ NoLockout /\ CommandsAreBehind

\* The one behind RefusesOlder: the counter is at least what was recorded.
CounterIsAhead == \A v \in Paths : recorded[v] <= counter[v]
==============================================================================
