----------------------------- MODULE RecipientKeys -----------------------------
(***************************************************************************)
(* Who opens a vault: the recipients a file wraps its data key for, the    *)
(* private keys a machine is found to have, and the commands that change   *)
(* the recipients or the data key.  The machine and the keys named on the  *)
(* command line are inputs of each command; nothing of them is kept.       *)
(***************************************************************************)
EXTENDS FiniteSets, Naturals

CONSTANTS SshKeys, PluginKeys, NativeKeys,   \* key pairs, by what they are recipients as
          NoKey,                             \* no private key, or no public one
          Machines,                          \* where commands are run
          MaxRotations

VARIABLES keyring,            \* the vault file
          granted             \* history: the keys the commands have let in

recipientVars == <<keyring, granted>>

PublicKeys == SshKeys \cup PluginKeys \cup NativeKeys

-----------------------------------------------------------------------------
(* A machine.                                                                *)

\* Where private keys are looked for: id_ed25519 or id_rsa, the other files of ~/.ssh,
\* and the IdentityFile lines of ~/.ssh/config.
Places == {"default", "other", "config"}

\* A private key file: its key, the key in its .pub sibling, and whether it is encrypted.
KeyFiles == [key : SshKeys \cup {NoKey}, pub : SshKeys \cup {NoKey}, encrypted : BOOLEAN]
NoFile   == [key |-> NoKey, pub |-> NoKey, encrypted |-> FALSE]

\* tokens: the identities of age plugins; deny: [security] unencrypted_ssh_keys;
\* attended: at a terminal, with somebody who knows the passphrases of the keys
MachineRecords ==
  [files : [Places -> KeyFiles], tokens : SUBSET PluginKeys, deny : BOOLEAN, attended : BOOLEAN]

ASSUME RecipientAssumption ==
  /\ NoKey \notin PublicKeys
  /\ MaxRotations \in Nat
  /\ Machines \subseteq MachineRecords

\* discover_private_key_paths: a file that is neither a default nor configured is
\* taken for a private key only because of its sibling.
Discovered(m) ==
  {f \in {m.files[place] : place \in {"default", "config"}} : f.key # NoKey}
    \cup {f \in {m.files["other"]} : f.key # NoKey /\ f.pub # NoKey}

\* discover_public_key_paths: the private file itself is only asked for in ~/.ssh.
DiscoveredPublic(m) ==
  {f.pub : f \in {m.files[place] : place \in {"default", "config"}} \cup Discovered(m)} \ {NoKey}

(* Mutant: a private key without its sibling is passed over. *)
LoadedBySibling(m, fps) ==
  {f.key : f \in {g \in Discovered(m) : g.pub \in fps /\ (g.encrypted => m.attended)}}
    \cup (IF fps \cap PluginKeys # {} THEN m.tokens ELSE {})

\* load_identities_for_vault: the keys whose sibling names a recipient, and those
\* without a sibling; plugins when a recipient is one of theirs.  Identities of
\* native recipients are never looked for.
Loaded(m, fps) ==
  {f.key : f \in {g \in Discovered(m) : g.pub \in fps \cup {NoKey} /\ (g.encrypted => m.attended)}}
    \cup (IF fps \cap PluginKeys # {} THEN m.tokens ELSE {})

\* check_ssh_key_hardening: under "deny" no key that is known to be a recipient's
\* may lie there unencrypted.
Hardened(m, fps) ==
  m.deny => \A f \in Discovered(m) : f.pub \in fps => f.encrypted

-----------------------------------------------------------------------------
(* A vault: a v2 file keeps the line of each recipient, a v1 file none.  Its *)
(* fingerprint and what it is wrapped to are the same key (NoKey: no line).  *)

Entries == [fp : PublicKeys, line : PublicKeys \cup {NoKey}, data : 0 .. MaxRotations]

Fingerprints(v) == {e.fp : e \in v.entries}

(* Mutant: the line of the recipient is not kept with it. *)
EntryWithoutLine(k, data) == [fp |-> k, line |-> NoKey, data |-> data]

\* build_entry_for_recipient_descriptor
Entry(k, data) == [fp |-> k, line |-> k, data |-> data]

\* encode and parse: what a v1 file does not keep
Stored(v) ==
  IF v.version = 2 THEN v ELSE [v EXCEPT !.entries = {[e EXCEPT !.line = NoKey] : e \in @}]

\* unwrap_data_key: the first entry that an identity opens
Unwrapped(v, ids) == {e.data : e \in {d \in v.entries : d.fp \in ids}}

\* unlock_ciphertext: what was unwrapped has to be the key of the payload.
UnlocksOn(m, v) ==
  /\ Hardened(m, Fingerprints(v))
  /\ LET found == Unwrapped(v, Loaded(m, Fingerprints(v))) IN found # {} /\ found \subseteq {v.data}

\* resolve_current_recipient_public_key_lines: the keys it can name, of those it
\* should; a key that is given and is no recipient's is an error.
Resolved(v, given, m) ==
  ({e.line : e \in v.entries} \ {NoKey}) \cup given \cup (DiscoveredPublic(m) \cap Fingerprints(v))

Resolves(v, given, m) ==
  given \subseteq Fingerprints(v) /\ Resolved(v, given, m) = Fingerprints(v)

\* rotate_data_key
Rekeyed(v, public) == [v EXCEPT !.data = @ + 1, !.entries = {Entry(k, v.data + 1) : k \in public}]

\* migrate_to_v2: attach_recipient_public_key_lines
Attached(v, public) ==
  [v EXCEPT !.version = 2,
            !.entries = {[e EXCEPT !.line = IF e.fp \in public THEN e.fp ELSE @] : e \in @}]

-----------------------------------------------------------------------------
RecipientInit ==
  \E k \in SshKeys :
    /\ keyring = Stored([version |-> 1, data |-> 0, entries |-> {Entry(k, 0)}])
    /\ granted = {k}

SavesKeyring(v, keys) == keyring' = Stored(v) /\ granted' = keys

\* Whoever runs the command has unlocked the vault.
AddKey(m, k) ==
  /\ k \notin Fingerprints(keyring)
  /\ UnlocksOn(m, keyring)
  /\ SavesKeyring([keyring EXCEPT !.entries = @ \cup {Entry(k, keyring.data)}], granted \cup {k})

RemovedKey(k) == [keyring EXCEPT !.entries = {e \in @ : e.fp # k}]

RemoveKey(m, k) ==
  /\ Cardinality(keyring.entries) > 1
  /\ UnlocksOn(m, keyring)
  /\ k \in Fingerprints(keyring)
  /\ SavesKeyring(RemovedKey(k), granted \ {k})

RemoveKeyAndRotate(m, k, given) ==
  /\ Cardinality(keyring.entries) > 1
  /\ keyring.data < MaxRotations
  /\ UnlocksOn(m, keyring)
  /\ k \in Fingerprints(keyring)
  /\ Resolves(RemovedKey(k), given, m)
  /\ SavesKeyring(Rekeyed(RemovedKey(k), Resolved(RemovedKey(k), given, m)), granted \ {k})

RotateDataKey(m, given) ==
  /\ keyring.data < MaxRotations
  /\ UnlocksOn(m, keyring)
  /\ Resolves(keyring, given, m)
  /\ SavesKeyring(Rekeyed(keyring, Resolved(keyring, given, m)), granted)

MigrateKeyring(m, given) ==
  /\ keyring.version = 1
  /\ UnlocksOn(m, keyring)
  /\ Resolves(keyring, given, m)
  /\ SavesKeyring(Attached(keyring, Resolved(keyring, given, m)), granted)

\* The last recipient stays, whoever it is: where only a native one is left, an
\* application opens the vault with the identity it holds, and no command does.
NoCommandOpens ==
  /\ \A m \in Machines : ~UnlocksOn(m, keyring)
  /\ UNCHANGED recipientVars

RecipientNext ==
  \/ NoCommandOpens
  \/ \E m \in Machines :
       \/ \E k \in PublicKeys : AddKey(m, k) \/ RemoveKey(m, k)
       \/ \E given \in SUBSET PublicKeys :
            \/ RotateDataKey(m, given) \/ MigrateKeyring(m, given)
            \/ \E k \in PublicKeys : RemoveKeyAndRotate(m, k, given)

RecipientSpec == RecipientInit /\ [][RecipientNext]_recipientVars

-----------------------------------------------------------------------------
\* A private key that can be used where it lies: it can be found and read, its .pub
\* sibling, if it needs one, is its own.
Usable(m, place) ==
  LET f == m.files[place]
  IN  f.key # NoKey /\ f.pub \in {f.key} \cup (IF place = "other" THEN {} ELSE {NoKey})
        /\ (f.encrypted => m.attended)

\* The vault opens wherever a private key that was let in can be used (and nothing
\* there is denied), and nowhere without such a key: no rotation, removal, addition
\* or migration, on whichever machine and with whichever keys at hand, shuts out one
\* who was let in or leaves one who was removed.
OpensForTheGranted ==
  \A m \in Machines :
    /\ Hardened(m, granted) /\ (\E place \in Places : Usable(m, place) /\ m.files[place].key \in granted)
         => UnlocksOn(m, keyring)
    /\ UnlocksOn(m, keyring)
         => granted \cap ({m.files[place].key : place \in Places} \cup m.tokens) # {}

\* A v2 vault keeps what a rotation needs: "so future rekey operations can re-wrap new
\* data keys without asking users to re-provide public keys", wherever it is run.
RotatesUnaided ==
  keyring.version = 2 => \A m \in Machines : Resolves(keyring, {}, m)
================================================================================
