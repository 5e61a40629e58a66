---------------------------- MODULE VaultCommands ----------------------------
(***************************************************************************)
(* The commands that change a vault, one action each: unlock the file,     *)
(* change the Vault, encode it and replace the file.  A command is one     *)
(* step because a save replaces exactly the file that was loaded           *)
(* (VaultFile!RefinesRegister); the generation is Rollback's.              *)
(***************************************************************************)
EXTENDS VaultCodec

CONSTANT Commands     \* the commands that are in use

VARIABLES disk,       \* the vault file
          told        \* history: the variables, as the commands that succeeded told

commandsVars == <<disk, told>>

ProfilesOf(d) == DOMAIN d.profiles \cup DOMAIN d.entries
StoreOf(d)    == [p \in ProfilesOf(d) |-> IF p \in DOMAIN d.profiles THEN d.profiles[p]
                                                                     ELSE d.entries[p].vals]

(***************************************************************************)
(* SshenvStore::init and `sshenv init`: a v1 vault for one recipient.      *)
(***************************************************************************)
CommandsInit ==
  /\ told = Empty
  /\ \E r \in Recipients, k \in DataKeys :
       disk = File(1, Put(Empty, r, k), Empty, {}, FALSE, PayloadKey(k, Empty), Empty, Empty, Empty)

-----------------------------------------------------------------------------
(***************************************************************************)
(* What is drawn at random is new: no part of the file was made with it.   *)
(***************************************************************************)
FactorsOf(d) == UNION ({Range(d.factors)} \cup {Range(d.policies[p].meta) : p \in DOMAIN d.policies})
FreshIds         == FactorIds \ {f.id : f \in FactorsOf(disk)}
FreshDataKeys    == DataKeys \ ({disk.key.data} \cup Range(disk.wraps))
FreshProfileKeys == ProfileKeys \ {disk.entries[p].key : p \in DOMAIN disk.entries}

SavedTelling(v, t) ==
  /\ Encodable(v)
  /\ \E fresh \in FreshProfileKeys : disk' = Encode(v, fresh)
  /\ told' = t
Saved(v) == SavedTelling(v, told)

WithFactor(v, f) == [v EXCEPT !.factors = Append(Without(@, f.kind), f),
                              !.keys = Append(Without(@, f.kind), f)]

(* Mutant: the factor key stays in memory. *)
WithoutFactorMetadata(v, kind) == [v EXCEPT !.factors = Without(@, kind)]

WithoutFactor(v, kind) == [v EXCEPT !.factors = Without(@, kind), !.keys = Without(@, kind)]

-----------------------------------------------------------------------------
(* Recipients and the data key. *)

AddRecipient(r) ==
  /\ r \in Recipients \ DOMAIN disk.wraps
  /\ \E v \in FullUnlocks(disk) : Saved([v EXCEPT !.wraps = Put(@, r, v.dataKey)])

RemoveRecipient(r) ==
  /\ Cardinality(DOMAIN disk.wraps) > 1
  /\ r \in DOMAIN disk.wraps
  /\ \E v \in FullUnlocks(disk) : Saved([v EXCEPT !.wraps = Drop(@, r)])

Rotated(v, k) == [v EXCEPT !.wraps = [r \in DOMAIN @ |-> k], !.dataKey = k]

RemoveAndRotate(r) ==
  /\ Cardinality(DOMAIN disk.wraps) > 1
  /\ r \in DOMAIN disk.wraps
  /\ \E v \in FullUnlocks(disk), k \in FreshDataKeys :
       Saved(Rotated([v EXCEPT !.wraps = Drop(@, r)], k))

RotateKey == \E v \in FullUnlocks(disk), k \in FreshDataKeys : Saved(Rotated(v, k))

MigrateVault ==
  /\ disk.version = 1
  /\ \E v \in FullUnlocks(disk) : Saved([v EXCEPT !.version = 2, !.factors = Empty])

-----------------------------------------------------------------------------
(* Factors of the vault. *)

EnablePassphrase(w) ==
  /\ disk.version = 2 /\ ~HasKind(disk.factors, "passphrase")
  /\ \E v \in FullUnlocks(disk), id \in FreshIds : Saved(WithFactor(v, Factor("passphrase", id, w)))

ChangePassphrase(w) ==
  /\ disk.version = 2 /\ HasKind(disk.factors, "passphrase")
  /\ \E v \in FullUnlocks(disk), id \in FreshIds : Saved(WithFactor(v, Factor("passphrase", id, w)))

DisablePassphrase ==
  /\ disk.version = 2 /\ HasKind(disk.factors, "passphrase")
  /\ \E v \in FullUnlocks(disk) : Saved(WithoutFactor(v, "passphrase"))

EnableDeviceSeal ==
  /\ disk.version = 2 /\ ~HasKind(disk.factors, "device")
  /\ \E v \in FullUnlocks(disk), id \in FreshIds :
       Saved(WithFactor(v, Factor("device", id, NoPassphrase)))

RemoveDeviceSeal ==
  /\ HasKind(disk.factors, "device")
  /\ \E v \in FullUnlocks(disk) : Saved(WithoutFactor(v, "device"))

RemoteImport(m) ==
  /\ disk.version = 2
  /\ \E v \in MetadataUnlocks(disk) : Saved([v EXCEPT !.remotes = @ \cup {m}])

RemoteRemove(m) ==
  /\ disk.version = 2 /\ m \in disk.remotes
  /\ \E v \in MetadataUnlocks(disk) : Saved([v EXCEPT !.remotes = @ \ {m}])

RemoteEnable(m) ==
  /\ disk.version = 2
  /\ \E v \in MetadataUnlocks(disk), id \in FreshIds :
       Saved(WithFactor([v EXCEPT !.remotes = @ \cup {m}], Factor("remote", id, m)))

-----------------------------------------------------------------------------
(* Variables and profiles. *)

VarSet(v, p, x, val) == [v EXCEPT !.profiles = Put(@, p, Put(At(@, p), x, val))]

(* Mutant: a profile stays when its last variable goes. *)
VarUnsetOnly(v, p, x) == [v EXCEPT !.profiles = Put(@, p, Drop(v.profiles[p], x))]

VarUnset(v, p, x) ==
  LET rest == Drop(v.profiles[p], x)
  IN  [v EXCEPT !.profiles = IF rest = Empty THEN Drop(@, p) ELSE Put(@, p, rest)]

Told == INSTANCE ProfileStore WITH store <- told

Set(p, x, val) ==
  \E v \in FullUnlocks(disk) : SavedTelling(VarSet(v, p, x, val), Told!AfterSet(told, p, x, val))

Unset(p, x) ==
  \E v \in FullUnlocks(disk) :
    /\ x \in DOMAIN At(v.profiles, p)
    /\ SavedTelling(VarUnset(v, p, x), Told!AfterUnset(told, p, x))

(* Mutant: the entry of a removed profile stays. *)
RemoveProfileKeepingEntry(p) ==
  \E v \in FullUnlocks(disk) :
    /\ p \in DOMAIN v.profiles
    /\ SavedTelling([v EXCEPT !.profiles = Drop(@, p), !.policies = Drop(@, p)], Drop(told, p))

RemoveProfile(p) ==
  \E v \in FullUnlocks(disk) :
    /\ p \in DOMAIN v.profiles
    /\ SavedTelling([v EXCEPT !.profiles = Drop(@, p), !.entries = Drop(@, p),
                              !.policies = Drop(@, p)], Drop(told, p))

Moved(f, p, q) == IF p \in DOMAIN f THEN Put(Drop(f, p), q, f[p]) ELSE f

RenameProfile(p, q) ==
  \E v \in FullUnlocks(disk) :
    /\ p \in DOMAIN v.profiles /\ q \notin DOMAIN v.profiles
    /\ SavedTelling([v EXCEPT !.profiles = Moved(@, p, q), !.entries = Moved(@, p, q),
                              !.policies = Moved(@, p, q)], Told!AfterRename(told, p, q))

(***************************************************************************)
(* The library's store gives no passphrase at all.                         *)
(***************************************************************************)
StoreUnlocks(d, p) ==
  {v \in ProfileUnlocks(d, p) : ~HasKind(d.factors \o Policy(d, p).meta, "passphrase")}

StoreSet(p, x, val) ==
  \E v \in StoreUnlocks(disk, p) :
    SavedTelling(VarSet(v, p, x, val), Told!AfterSet(told, p, x, val))

StoreInsert(p, x, val) ==
  \E v \in StoreUnlocks(disk, p) :
    /\ x \notin DOMAIN At(v.profiles, p)
    /\ SavedTelling(VarSet(v, p, x, val), Told!AfterSet(told, p, x, val))

StoreUnset(p, x) ==
  \E v \in StoreUnlocks(disk, p) :
    /\ x \in DOMAIN At(v.profiles, p)
    /\ SavedTelling(VarUnset(v, p, x), Told!AfterUnset(told, p, x))

ReplaceProfile(p, vals) ==
  /\ ~HasKind(disk.factors, "passphrase")
  /\ \E v \in MetadataUnlocks(disk) :
       SavedTelling([v EXCEPT !.entries = Drop(@, p), !.policies = Drop(@, p),
                              !.profiles = Put(@, p, vals)], Put(told, p, vals))

-----------------------------------------------------------------------------
(* Profile keys and profile policies. *)

EnableProfileKeys ==
  /\ disk.version = 2 /\ ~disk.profileKeys
  /\ \E v \in FullUnlocks(disk) : Saved([v EXCEPT !.profileKeys = TRUE])

RotateProfileKey(p) ==
  /\ disk.profileKeys
  /\ \E v \in ProfileUnlocks(disk, p) :
       p \in DOMAIN v.profiles /\ Saved([v EXCEPT !.rotations = @ \cup {p}])

SetProfilePolicy(p) ==
  /\ disk.version = 2
  /\ \E v \in ProfileUnlocks(disk, p) :
       p \in DOMAIN v.profiles /\ Saved([v EXCEPT !.policies = Put(@, p, Policy(v, p))])

(***************************************************************************)
(* A factor of its own for one profile: the metadata, the requirement, the *)
(* factor key in memory, and a rotation of the profile key.                *)
(***************************************************************************)
Required(v, p, f) ==
  LET old == Policy(v, p)
      req == IF f.kind \in Range(old.required) THEN old.required ELSE Append(old.required, f.kind)
  IN  [v EXCEPT
        !.policies = Put(@, p, [required |-> req, meta |-> Append(Without(old.meta, f.kind), f)]),
        !.pkeys = Put(@, p, Append(Without(At(@, p), f.kind), f)),
        !.rotations = @ \cup {p}]

RequireFactor(p, kind, source) ==
  /\ disk.version = 2 /\ disk.profileKeys
  /\ \E v \in ProfileUnlocks(disk, p), id \in FreshIds :
       p \in DOMAIN v.profiles /\ Saved(Required(v, p, Factor(kind, id, source)))

RequireProfilePassphrase(p, w) == RequireFactor(p, "passphrase", w)
RequireProfileDeviceSeal(p)    == RequireFactor(p, "device", NoPassphrase)

ChangeProfilePassphrase(p, w) ==
  HasKind(Policy(disk, p).meta, "passphrase") /\ RequireFactor(p, "passphrase", w)

(***************************************************************************)
(* The policy drops the factor; the keys in memory stay as they are.       *)
(***************************************************************************)
DisableProfileFactor(p, kind) ==
  /\ disk.version = 2 /\ disk.profileKeys
  /\ \E v \in ProfileUnlocks(disk, p) :
       LET old == Policy(v, p)
       IN  /\ p \in DOMAIN v.profiles
           /\ HasKind(old.meta, kind) \/ kind \in Range(old.required)
           /\ Saved([v EXCEPT !.policies = Put(@, p,
                [required |-> Retained(old.required, {i \in DOMAIN old.required : old.required[i] # kind}),
                 meta |-> Without(old.meta, kind)])])

ClearRequirements(p) ==
  /\ disk.version = 2 /\ disk.profileKeys
  /\ \E v \in ProfileUnlocks(disk, p) :
       p \in DOMAIN v.profiles /\ Saved([v EXCEPT !.policies = Put(@, p, NoPolicy)])

-----------------------------------------------------------------------------
VaultCommand ==
  \/ \E r \in Recipients :
       \/ "recipients" \in Commands /\ (AddRecipient(r) \/ RemoveRecipient(r))
       \/ "rotate" \in Commands /\ RemoveAndRotate(r)
  \/ "rotate" \in Commands /\ RotateKey
  \/ MigrateVault
  \/ /\ "passphrase" \in Commands
     /\ DisablePassphrase \/ \E w \in Passphrases : EnablePassphrase(w) \/ ChangePassphrase(w)
  \/ "device" \in Commands /\ (EnableDeviceSeal \/ RemoveDeviceSeal)
  \/ \E m \in RemoteIds :
       \/ "remote-metadata" \in Commands /\ (RemoteImport(m) \/ RemoteRemove(m))
       \/ "remote-factor" \in Commands /\ RemoteEnable(m)

ProfileCommand(p) ==
  \/ \E x \in Vars :
       \/ \E val \in Values :
            \/ Set(p, x, val)
            \/ "store" \in Commands /\ (StoreSet(p, x, val) \/ StoreInsert(p, x, val))
       \/ "unset" \in Commands /\ (Unset(p, x) \/ ("store" \in Commands /\ StoreUnset(p, x)))
  \/ RemoveProfile(p)
  \/ "rename" \in Commands /\ \E q \in Profiles \ {p} : RenameProfile(p, q)
  \/ "replace" \in Commands /\ \E S \in SUBSET Vars : \E vals \in [S -> Values] : ReplaceProfile(p, vals)

PolicyCommand(p) ==
  \/ RotateProfileKey(p)
  \/ SetProfilePolicy(p)
  \/ ClearRequirements(p)
  \/ \E kind \in ProfileKinds : DisableProfileFactor(p, kind)
  \/ RequireProfileDeviceSeal(p)
  \/ \E w \in Passphrases : RequireProfilePassphrase(p, w) \/ ChangeProfilePassphrase(p, w)

CommandsNext ==
  \/ VaultCommand
  \/ \E p \in Profiles : ProfileCommand(p)
  \/ "policies" \in Commands /\ (EnableProfileKeys \/ \E p \in Profiles : PolicyCommand(p))

CommandsSpec == CommandsInit /\ [][CommandsNext]_commandsVars

-----------------------------------------------------------------------------
(***************************************************************************)
(* Whatever the sequence of commands, the vault opens for every recipient  *)
(* who has the passphrase, the device and the remote service the metadata  *)
(* names, and so does every profile with the factors its policy names.     *)
(***************************************************************************)
EverythingOpens ==
  /\ DOMAIN disk.wraps # {}
  /\ \A r \in DOMAIN disk.wraps : disk.key = PayloadKey(disk.wraps[r], disk.factors)
  /\ \A i \in DOMAIN disk.factors :
       disk.factors[i].kind = "remote" => disk.factors[i].source \in disk.remotes
  /\ \A p \in DOMAIN disk.entries :
       EntryOpens(disk.entries[p], disk.key, Policy(disk, p).required,
                  Policy(disk, p).meta \o disk.factors)

(***************************************************************************)
(* No profile key outlives what it was bound to: when the payload key of   *)
(* the vault changes, every entry gets a new profile key, and when what a  *)
(* profile requires changes, its entry does.                               *)
(***************************************************************************)
RekeyedWithItsFactors ==
  [][\A p \in (DOMAIN disk.entries) \cap (DOMAIN disk'.entries) :
       \/ disk.key # disk'.key
       \/ Policy(disk, p).required # Policy(disk', p).required
       \/ Policy(disk, p).meta # Policy(disk', p).meta
       => disk.entries[p].key # disk'.entries[p].key]_commandsVars

(***************************************************************************)
(* While the payload key stays, a command replaces the entry of one        *)
(* profile at most: the others keep theirs, locked or not.                 *)
(***************************************************************************)
OneProfileAtATime ==
  [][disk.key = disk'.key =>
       \A p, q \in (DOMAIN disk.entries) \cap (DOMAIN disk'.entries) :
         disk.entries[p] # disk'.entries[p] /\ disk.entries[q] # disk'.entries[q] => p = q]_commandsVars

(***************************************************************************)
(* Commands do to the variables what they say: the file holds exactly the  *)
(* variables that the successful commands left there.                      *)
(***************************************************************************)
KeepsItsWord == StoreOf(disk) = told

(***************************************************************************)
(* No command does to the variables what none of them says.                *)
(***************************************************************************)
Store == INSTANCE ProfileStore WITH store <- StoreOf(disk)
RefinesProfileStore == Store!Spec
=============================================================================
