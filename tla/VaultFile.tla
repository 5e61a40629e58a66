------------------------------ MODULE VaultFile ------------------------------
(***************************************************************************)
(* Concurrent users of vault files: `Vault`, `VaultWriter` and the          *)
(* `SshenvStore` operations of packages/vault/src/lib.rs.                   *)
(*                                                                          *)
(* A user opens a vault (load and unlock, or create), edits it in memory    *)
(* and saves it.  A save takes the writer lock `<vault>.lock`, reads the    *)
(* file again, compares its digest with the one of the content the vault    *)
(* was loaded from and, when they agree, renames a temporary file over the  *)
(* vault.  Encryption is deterministic, so two encodings have the same      *)
(* digest exactly when they hold the same data: a digest is modelled by the *)
(* content it is the digest of.  A content is the creation it descends from *)
(* (`Vault::create` draws a data key of its own) and the variables of one   *)
(* profile; what else a vault holds, its recipients and a data key that was *)
(* rotated since, is one more variable to this module.                      *)
(*                                                                          *)
(* A user is a process with at most one vault open and at most one save or  *)
(* VaultWriter under way.  It may die at any point, and the operating       *)
(* system then frees its lock.                                              *)
(***************************************************************************)
EXTENDS Naturals

CONSTANTS
    Procs,      \* the processes
    Paths,      \* the vault files
    Vars,       \* the variables of the profile a store operation works on
    Values,     \* their values
    Origins,    \* the calls of `Vault::create`; bounds the vaults ever made
    None        \* no file, no vault, no variable, no lock owner, no operation

Vals     == [Vars -> Values \cup {None}]
Contents == [origin : Origins, vals : Vals]

\* What a store operation does to the profile: new values (None to remove) for
\* some variables.
Changes == UNION {[S -> Values \cup {None}] : S \in SUBSET Vars}

\* A store operation under way: a change to an existing vault.
Jobs  == [op : {"set", "insert", "unset", "replace"}, change : Changes]

Saves == [path : Paths, expected : Contents \cup {None}]

ASSUME NoneIsDistinct ==
    /\ None \notin Procs \cup Paths \cup Vars \cup Values \cup Origins
    /\ None \notin Contents
    /\ None \notin Jobs
    /\ None \notin Saves

VARIABLES
    file,       \* file[path]: the vault on disk, or None
    writer,     \* writer[path]: the process that holds `<path>.lock`, or None
    vault,      \* vault[p]: the open vault of p as edited in memory, or None
    digest,     \* digest[p]: `source_digest` of that vault, or None
    save,       \* save[p]: where p is saving to and what it expects there
    pc,         \* pc[p]: how far that save is
    retained,   \* retained[p]: the path of the VaultWriter of p, or None
    job,        \* job[p]: the store operation that opened the vault, or None
    torn,       \* history: processes whose vault was renamed into place by a
                \* save that then reported an error
    minted      \* the creations so far

vars == <<file, writer, vault, digest, save, pc, retained, job, torn, minted>>

TypeOK ==
    /\ file     \in [Paths -> Contents \cup {None}]
    /\ writer   \in [Paths -> Procs \cup {None}]
    /\ vault    \in [Procs -> Contents \cup {None}]
    /\ digest   \in [Procs -> Contents \cup {None}]
    /\ save     \in [Procs -> Saves \cup {None}]
    /\ pc       \in [Procs -> {"idle", "acquire", "compare", "publish"}]
    /\ retained \in [Procs -> Paths \cup {None}]
    /\ job      \in [Procs -> Jobs \cup {None}]
    /\ torn     \in SUBSET Procs
    /\ minted   \in SUBSET Origins

Init ==
    /\ file     = [path \in Paths |-> None]
    /\ writer   = [path \in Paths |-> None]
    /\ vault    = [p \in Procs |-> None]
    /\ digest   = [p \in Procs |-> None]
    /\ save     = [p \in Procs |-> None]
    /\ pc       = [p \in Procs |-> "idle"]
    /\ retained = [p \in Procs |-> None]
    /\ job      = [p \in Procs |-> None]
    /\ torn     = {}
    /\ minted   = {}

------------------------------------------------------------------------------
\* Opening, editing and closing a vault in memory.

\* Mutant of Applied: the variables the operation does not name are dropped.
AppliedAlone(change, vals) == change

Applied(change, vals) ==
    [v \in Vars |-> IF v \in DOMAIN change THEN change[v] ELSE vals[v]]

NoVault(p) == pc[p] = "idle" /\ vault[p] = None

\* `Vault::load_ciphertext` and an unlock; a VaultWriter loads its own path.
Load(p, path) ==
    /\ NoVault(p)
    /\ retained[p] \in {None, path}
    /\ file[path] # None
    /\ vault'  = [vault EXCEPT ![p] = file[path]]
    /\ digest' = [digest EXCEPT ![p] = file[path]]
    /\ UNCHANGED <<file, writer, save, pc, retained, job, torn, minted>>

\* `Vault::create`: no variable, an origin of its own, no digest.
Fresh(p) ==
    \E origin \in Origins \ minted :
        /\ vault'  = [vault EXCEPT ![p] = [origin |-> origin, vals |-> [v \in Vars |-> None]]]
        /\ minted' = minted \cup {origin}

Create(p) ==
    /\ NoVault(p)
    /\ Fresh(p)
    /\ UNCHANGED <<file, writer, digest, save, pc, retained, job, torn>>

\* The owner of an open vault changes one of its variables.
Edit(p) ==
    /\ pc[p] = "idle" /\ vault[p] # None /\ job[p] = None
    /\ \E v \in Vars, x \in Values \cup {None} :
          vault' = [vault EXCEPT ![p].vals[v] = x]
    /\ UNCHANGED <<file, writer, digest, save, pc, retained, job, torn, minted>>

\* The vault goes out of scope.
Close(p) ==
    /\ pc[p] = "idle" /\ vault[p] # None
    /\ vault'  = [vault EXCEPT ![p] = None]
    /\ digest' = [digest EXCEPT ![p] = None]
    /\ job'    = [job EXCEPT ![p] = None]
    /\ torn'   = torn \ {p}
    /\ UNCHANGED <<file, writer, save, pc, retained, minted>>

------------------------------------------------------------------------------
\* Starting a save.

Begin(p, step, path, expected) ==
    /\ save' = [save EXCEPT ![p] = [path |-> path, expected |-> expected]]
    /\ pc'   = [pc EXCEPT ![p] = step]

\* `Vault::save`.  The documentation of VaultWriter forbids it to the owner of
\* a VaultWriter, whose own lock it would wait for.
Save(p, path) ==
    /\ pc[p] = "idle" /\ vault[p] # None /\ job[p] = None /\ retained[p] = None
    /\ Begin(p, "acquire", path, digest[p])
    /\ UNCHANGED <<file, writer, vault, digest, retained, job, torn, minted>>

\* `Vault::save_as_new`.
SaveAsNew(p, path) ==
    /\ pc[p] = "idle" /\ vault[p] # None /\ job[p] = None /\ retained[p] = None
    /\ Begin(p, "acquire", path, None)
    /\ UNCHANGED <<file, writer, vault, digest, retained, job, torn, minted>>

\* `VaultWriter::save`: the lock is held already.
WriterSave(p) ==
    /\ pc[p] = "idle" /\ vault[p] # None /\ retained[p] # None
    /\ Begin(p, "compare", retained[p], digest[p])
    /\ UNCHANGED <<file, writer, vault, digest, retained, job, torn, minted>>

\* `VaultWriter::acquire`, before anything is loaded.
WriterAcquire(p, path) ==
    /\ NoVault(p) /\ retained[p] = None
    /\ writer[path] = None
    /\ writer'   = [writer EXCEPT ![path] = p]
    /\ retained' = [retained EXCEPT ![p] = path]
    /\ UNCHANGED <<file, vault, digest, save, pc, job, torn, minted>>

\* The VaultWriter goes out of scope; the vault may stay open.
WriterDrop(p) ==
    /\ pc[p] = "idle" /\ retained[p] # None
    /\ writer'   = [writer EXCEPT ![retained[p]] = None]
    /\ retained' = [retained EXCEPT ![p] = None]
    /\ UNCHANGED <<file, vault, digest, save, pc, job, torn, minted>>

------------------------------------------------------------------------------
\* The operations of `SshenvStore`: load, change, save, all on one path.

\* Mutant of StoreInit: an ordinary save over whatever is on disk.
StoreInitOver(p, path) ==
    /\ NoVault(p) /\ retained[p] = None
    /\ Fresh(p)
    /\ Begin(p, "acquire", path, file[path])
    /\ UNCHANGED <<file, writer, digest, retained, job, torn>>

\* `SshenvStore::init`.  `init_if_missing` and `sshenv init` look for the file
\* first and do nothing when there is one.
StoreInit(p, path) ==
    /\ NoVault(p) /\ retained[p] = None
    /\ Fresh(p)
    /\ Begin(p, "acquire", path, None)
    /\ UNCHANGED <<file, writer, digest, retained, job, torn>>

StoreChange(p, path, op, change) ==
    /\ NoVault(p) /\ retained[p] = None
    /\ file[path] # None
    /\ vault'  = [vault EXCEPT
           ![p] = [file[path] EXCEPT !.vals = Applied(change, file[path].vals)]]
    /\ digest' = [digest EXCEPT ![p] = file[path]]
    /\ job'    = [job EXCEPT ![p] = [op |-> op, change |-> change]]
    /\ Begin(p, "acquire", path, file[path])
    /\ UNCHANGED <<file, writer, retained, torn, minted>>

SetSecret(p, path) ==
    \E v \in Vars, x \in Values : StoreChange(p, path, "set", [w \in {v} |-> x])

\* Fails without a save when the variable is there.
InsertSecretIfAbsent(p, path) ==
    \E v \in Vars, x \in Values :
        /\ file[path] # None /\ file[path].vals[v] = None
        /\ StoreChange(p, path, "insert", [w \in {v} |-> x])

\* Returns false without a save when the variable is not there.
UnsetSecret(p, path) ==
    \E v \in Vars :
        /\ file[path] # None /\ file[path].vals[v] # None
        /\ StoreChange(p, path, "unset", [w \in {v} |-> None])

\* Puts new values for all the variables of the profile.
ReplaceProfile(p, path) ==
    \E vals \in Vals : StoreChange(p, path, "replace", vals)

------------------------------------------------------------------------------
\* The steps of a save.

\* The guard of `lock_vault_writer` goes out of scope; a VaultWriter keeps it.
Unlock(p) ==
    writer' = IF retained[p] = None
              THEN [writer EXCEPT ![save[p].path] = None]
              ELSE writer

EndSave(p) ==
    /\ save' = [save EXCEPT ![p] = None]
    /\ pc'   = [pc EXCEPT ![p] = "idle"]

\* Mutant of Acquire: a lock that is held already is granted again.
AcquireShared(p) ==
    /\ pc[p] = "acquire"
    /\ writer' = [writer EXCEPT ![save[p].path] = p]
    /\ pc'     = [pc EXCEPT ![p] = "compare"]
    /\ UNCHANGED <<file, vault, digest, save, retained, job, torn, minted>>

\* `file.lock()` returns.
Acquire(p) ==
    /\ pc[p] = "acquire"
    /\ writer[save[p].path] = None
    /\ writer' = [writer EXCEPT ![save[p].path] = p]
    /\ pc'     = [pc EXCEPT ![p] = "compare"]
    /\ UNCHANGED <<file, vault, digest, save, retained, job, torn, minted>>

\* Mutant of Compare: no comparison.
CompareNothing(p) ==
    /\ pc[p] = "compare"
    /\ pc' = [pc EXCEPT ![p] = "publish"]
    /\ UNCHANGED <<file, writer, vault, digest, save, retained, job, torn, minted>>

\* The content on disk is the one expected.
Compare(p) ==
    /\ pc[p] = "compare"
    /\ file[save[p].path] = save[p].expected
    /\ pc' = [pc EXCEPT ![p] = "publish"]
    /\ UNCHANGED <<file, writer, vault, digest, save, retained, job, torn, minted>>

\* Mutant of Conflict: the early return leaves the lock held.
ConflictKeepingLock(p) ==
    /\ pc[p] = "compare"
    /\ file[save[p].path] # save[p].expected
    /\ EndSave(p)
    /\ UNCHANGED <<file, writer, vault, digest, retained, job, torn, minted>>

\* It is not: `VaultWriteConflict`.
Conflict(p) ==
    /\ pc[p] = "compare"
    /\ file[save[p].path] # save[p].expected
    /\ Unlock(p)
    /\ EndSave(p)
    /\ UNCHANGED <<file, vault, digest, retained, job, torn, minted>>

\* The rename: `persist` over the file that was compared, `persist_noclobber`
\* when there was none.
Rename(p) ==
    /\ pc[p] = "publish"
    /\ save[p].expected = None => file[save[p].path] = None
    /\ file' = [file EXCEPT ![save[p].path] = vault[p]]
    /\ Unlock(p)
    /\ EndSave(p)

\* The rename succeeds, and `source_digest` moves to the new content.
Publish(p) ==
    /\ Rename(p)
    /\ digest' = [digest EXCEPT ![p] = vault[p]]
    /\ torn'   = torn \ {p}
    /\ UNCHANGED <<vault, retained, job, minted>>

\* The rename succeeds and restricting the permissions of the new file does
\* not: the save reports an error, and `source_digest` stays.
PublishUnrestricted(p) ==
    /\ Rename(p)
    /\ torn' = torn \cup {p}
    /\ UNCHANGED <<vault, digest, retained, job, minted>>

\* Mutant of Fail: `source_digest` moves before the write has succeeded.
FailAfterDigest(p) ==
    /\ pc[p] # "idle"
    /\ IF pc[p] = "acquire" THEN UNCHANGED writer ELSE Unlock(p)
    /\ EndSave(p)
    /\ digest' = [digest EXCEPT ![p] = vault[p]]
    /\ UNCHANGED <<file, vault, retained, job, torn, minted>>

\* An error before the rename: the lock file cannot be opened or locked, the
\* vault cannot be read, the temporary file cannot be written or renamed.
Fail(p) ==
    /\ pc[p] # "idle"
    /\ IF pc[p] = "acquire" THEN UNCHANGED writer ELSE Unlock(p)
    /\ EndSave(p)
    /\ UNCHANGED <<file, vault, digest, retained, job, torn, minted>>

\* Mutant of Crash: the lock outlives the process, as a lock made of the mere
\* existence of a file would.
CrashKeepingLock(p) ==
    /\ vault[p] # None \/ retained[p] # None
    /\ vault'    = [vault EXCEPT ![p] = None]
    /\ digest'   = [digest EXCEPT ![p] = None]
    /\ retained' = [retained EXCEPT ![p] = None]
    /\ job'      = [job EXCEPT ![p] = None]
    /\ torn'     = torn \ {p}
    /\ EndSave(p)
    /\ UNCHANGED <<file, writer, minted>>

\* p dies; it may come back as a process with nothing open.
Crash(p) ==
    /\ vault[p] # None \/ retained[p] # None
    /\ writer'   = [path \in Paths |-> IF writer[path] = p THEN None ELSE writer[path]]
    /\ vault'    = [vault EXCEPT ![p] = None]
    /\ digest'   = [digest EXCEPT ![p] = None]
    /\ retained' = [retained EXCEPT ![p] = None]
    /\ job'      = [job EXCEPT ![p] = None]
    /\ torn'     = torn \ {p}
    /\ EndSave(p)
    /\ UNCHANGED <<file, minted>>

------------------------------------------------------------------------------
Store(p, path) ==
    \/ StoreInit(p, path)
    \/ SetSecret(p, path)
    \/ InsertSecretIfAbsent(p, path)
    \/ UnsetSecret(p, path)
    \/ ReplaceProfile(p, path)

Api(p, path) ==
    \/ Load(p, path)
    \/ Save(p, path)
    \/ SaveAsNew(p, path)
    \/ WriterAcquire(p, path)

Memory(p) == Create(p) \/ Edit(p) \/ Close(p) \/ WriterSave(p) \/ WriterDrop(p)

Advance(p) == Compare(p) \/ Conflict(p) \/ Publish(p) \/ PublishUnrestricted(p)

Next ==
    \E p \in Procs :
        \/ \E path \in Paths : Store(p, path) \/ Api(p, path)
        \/ Memory(p)
        \/ Acquire(p)
        \/ Advance(p)
        \/ Fail(p)
        \/ Crash(p)

Spec == Init /\ [][Next]_vars

\* A save that runs goes on to its end; a lock that is free again and again is
\* in the end given to a process that waits for it; a VaultWriter does not
\* outlive its "bounded read/modify/publish transaction".
Fairness ==
    \A p \in Procs :
        /\ WF_vars(Advance(p))
        /\ SF_vars(Acquire(p))
        /\ SF_vars(WriterDrop(p))

FairSpec == Spec /\ Fairness

------------------------------------------------------------------------------
\* What it is all for.

Register == INSTANCE VaultRegister WITH reg <- file, view <- digest

\* Every file behaves as a compare-and-swap register: nobody overwrites a
\* content other than the one its own vault was loaded from or last saved as
\* (`VaultWriteConflict`, "reload before retrying"), whatever the interleaving.
RefinesRegister == Register!Spec

\* The writer lock of a path belongs to the process that is between its
\* comparison and its rename there, or that retains it with a VaultWriter, and
\* to nobody else: two such processes never meet, and no conflict, error or
\* death leaves a lock behind.
LockDiscipline ==
    \A p \in Procs, path \in Paths :
        writer[path] = p <=>
            \/ retained[p] = path
            \/ pc[p] \in {"compare", "publish"} /\ save[p].path = path

\* Under a VaultWriter the vault loaded is the one on disk until the save: a
\* remote rotation done in between cannot end in a conflict.  The exception is
\* an earlier save of the same writer that reported an error after its rename.
RetainedViewIsCurrent ==
    \A p \in Procs :
        retained[p] # None /\ digest[p] # None /\ p \notin torn
            => digest[p] = file[retained[p]]

\* The rename of a store operation changes, with respect to the file it
\* replaces, only the variables of that operation, and an insert finds its
\* variable absent there ("import does not overwrite it").
StoreChangesAreIsolated ==
    [][\A p \in Procs :
          LET path == save[p].path IN
          Rename(p) /\ job[p] # None =>
              /\ file[path] # None
              /\ \A v \in Vars \ DOMAIN job[p].change :
                     file'[path].vals[v] = file[path].vals[v]
              /\ \A v \in DOMAIN job[p].change :
                     /\ file'[path].vals[v] = job[p].change[v]
                     /\ job[p].op = "insert" => file[path].vals[v] = None
      ]_vars

\* A vault is never replaced by another vault: initialisations that race for a
\* path, `save_as_new` and saves of a vault to several paths leave every existing
\* file a descendant of the creation it came from.
VaultKeepsItsOrigin ==
    [][\A path \in Paths :
          file[path] # None => file'[path] # None /\ file'[path].origin = file[path].origin
      ]_vars

\* Every save ends: the lock of a process that died, failed or met a conflict
\* does not block the others.
SavesEnd == \A p \in Procs : pc[p] # "idle" ~> pc[p] = "idle"

------------------------------------------------------------------------------
\* The inductive invariant behind the theorems of VaultFile_proofs.

\* How the parts of one process fit together.
ProcessesAreCoherent ==
    \A p \in Procs :
        /\ pc[p] = "idle" <=> save[p] = None
        /\ pc[p] # "idle" => vault[p] # None
        /\ pc[p] = "acquire" => retained[p] = None
        /\ pc[p] # "idle" /\ retained[p] # None => save[p].path = retained[p]
        /\ vault[p] = None => digest[p] = None /\ job[p] = None
        /\ job[p] # None => retained[p] = None

\* What a save expects is what its vault was loaded from, or nothing; a vault
\* keeps the origin of the content it was loaded from.
ExpectationsAreGrounded ==
    \A p \in Procs :
        /\ pc[p] # "idle" => save[p].expected \in {digest[p], None}
        /\ digest[p] # None => vault[p] # None /\ vault[p].origin = digest[p].origin

\* A store operation saves its change, and nothing else, on top of the content
\* it expects.
JobsAreOnCourse ==
    \A p \in Procs :
        pc[p] # "idle" /\ job[p] # None =>
            /\ digest[p] # None
            /\ save[p].expected = digest[p]
            /\ vault[p].vals = Applied(job[p].change, digest[p].vals)
            /\ job[p].op = "insert" =>
                  \A v \in DOMAIN job[p].change : digest[p].vals[v] = None

\* Between the comparison and the rename the file stays what it was compared with.
ComparisonStands ==
    \A p \in Procs : pc[p] = "publish" => file[save[p].path] = save[p].expected

IInv ==
    /\ TypeOK
    /\ ProcessesAreCoherent
    /\ ExpectationsAreGrounded
    /\ JobsAreOnCourse
    /\ LockDiscipline
    /\ ComparisonStands
    /\ RetainedViewIsCurrent
==============================================================================
