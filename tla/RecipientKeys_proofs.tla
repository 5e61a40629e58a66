------------------------- MODULE RecipientKeys_proofs -------------------------
(***************************************************************************)
(* Who opens a vault, for any keys, machines and number of rotations.      *)
(*                                                                         *)
(* The invariant is what every command leaves in the file: the recipients  *)
(* are those who were let in, each has the data key of the payload wrapped *)
(* for it, and its line is kept with it in a v2 file and nowhere in a v1   *)
(* file.  The machine a command runs on decides whether it succeeds, and   *)
(* not what it leaves: a rotation that cannot name every recipient fails.  *)
(***************************************************************************)
EXTENDS RecipientKeys, TLAPS

RecipientTypes ==
  /\ keyring \in [version : {1, 2}, data : 0 .. MaxRotations, entries : SUBSET Entries]
  /\ granted \in SUBSET PublicKeys

\* An entry is one that build_entry_for_recipient_descriptor made for somebody who was
\* let in, as far as the file keeps it.
EntryOf(v, k) ==
  [fp |-> k, line |-> IF v.version = 2 THEN k ELSE NoKey, data |-> v.data]

WrappedForTheGranted == keyring.entries = {EntryOf(keyring, k) : k \in granted}

RecipientIInv == RecipientTypes /\ WrappedForTheGranted

-----------------------------------------------------------------------------
(* What the operators of the model make of such a file.                      *)

LEMMA FingerprintsOfEntries ==
  ASSUME NEW v, NEW keys, v.entries = {EntryOf(v, k) : k \in keys}
  PROVE  Fingerprints(v) = keys
<1>1. \A k : EntryOf(v, k).fp = k
  BY DEF EntryOf
<1>2. \A k \in keys : EntryOf(v, k) \in v.entries
  OBVIOUS
<1>3. \A e \in v.entries : \E k \in keys : e = EntryOf(v, k)
  OBVIOUS
<1>4. ASSUME NEW f \in Fingerprints(v) PROVE f \in keys
  BY <1>1, <1>3 DEF Fingerprints
<1>5. ASSUME NEW k \in keys PROVE k \in Fingerprints(v)
  BY <1>1, <1>2 DEF Fingerprints
<1> QED
  BY <1>4, <1>5

\* A v2 file names all its recipients; and nobody names more than it has.
LEMMA ResolvedOfV2 ==
  ASSUME NEW v, NEW keys \in SUBSET PublicKeys, v.version = 2,
         v.entries = {EntryOf(v, k) : k \in keys}, NEW m
  PROVE  Resolved(v, {}, m) = Fingerprints(v)
<1>1. Fingerprints(v) = keys
  BY FingerprintsOfEntries
<1>2. \A k : EntryOf(v, k).line = k
  BY DEF EntryOf
<1>3. \A e \in v.entries : e.line \in keys
  BY <1>2
<1>4. \A k \in keys : EntryOf(v, k) \in v.entries
  OBVIOUS
<1>5. \A k \in keys : k \in {e.line : e \in v.entries} \ {NoKey}
  BY <1>2, <1>4, RecipientAssumption
<1>6. {e.line : e \in v.entries} \ {NoKey} = keys
  BY <1>3, <1>5
<1> QED
  BY <1>1, <1>6 DEF Resolved

\* What a save makes of entries with the line and the data key of today.
LEMMA StoredEntries ==
  ASSUME NEW v \in [version : {1, 2}, data : 0 .. MaxRotations, entries : SUBSET Entries],
         NEW keys \in SUBSET PublicKeys, SavesKeyring(v, keys),
         \A e \in v.entries : e.fp \in keys /\ e.data = v.data /\ (v.version = 2 => e.line = e.fp),
         \A k \in keys : \E e \in v.entries : e.fp = k
  PROVE  RecipientIInv'
<1>1. keyring' = Stored(v) /\ granted' = keys
  BY DEF SavesKeyring
<1>2. /\ Stored(v).version = v.version /\ Stored(v).data = v.data
      /\ Stored(v).entries = {[e EXCEPT !.line = IF v.version = 2 THEN @ ELSE NoKey] : e \in v.entries}
  <2>1. \A e \in v.entries : e = [e EXCEPT !.line = e.line]
    BY DEF Entries
  <2> QED
    BY <2>1 DEF Stored
<1>3. \A e \in v.entries : [e EXCEPT !.line = IF v.version = 2 THEN @ ELSE NoKey] = EntryOf(v, e.fp)
  BY DEF Entries, EntryOf
<1>4. Stored(v).entries = {EntryOf(v, k) : k \in keys}
  <2>1. ASSUME NEW d \in Stored(v).entries PROVE d \in {EntryOf(v, k) : k \in keys}
    <3>1. PICK e \in v.entries : d = [e EXCEPT !.line = IF v.version = 2 THEN @ ELSE NoKey]
      BY <1>2
    <3>2. d = EntryOf(v, e.fp)
      BY <1>3, <3>1
    <3> QED
      BY <3>2
  <2>2. ASSUME NEW k \in keys PROVE EntryOf(v, k) \in Stored(v).entries
    <3>1. PICK e \in v.entries : e.fp = k
      OBVIOUS
    <3>2. [e EXCEPT !.line = IF v.version = 2 THEN @ ELSE NoKey] \in Stored(v).entries
      BY <1>2
    <3> QED
      BY <1>3, <3>1, <3>2
  <2> QED
    BY <2>1, <2>2
<1>5. \A k : EntryOf(Stored(v), k) = EntryOf(v, k)
  BY <1>2 DEF EntryOf
<1>6. Stored(v) \in [version : {1, 2}, data : 0 .. MaxRotations, entries : SUBSET Entries]
  BY <1>2, <1>4 DEF Stored, Entries, EntryOf
<1>7. RecipientTypes'
  BY <1>1, <1>6 DEF RecipientTypes
<1>8. WrappedForTheGranted'
  BY <1>1, <1>4, <1>5 DEF WrappedForTheGranted
<1> QED
  BY <1>7, <1>8 DEF RecipientIInv

\* Every command of a machine starts from a file that keeps the invariant.
LEMMA EntriesOfKeyring ==
  ASSUME RecipientIInv
  PROVE  /\ keyring \in [version : {1, 2}, data : 0 .. MaxRotations, entries : SUBSET Entries]
         /\ granted \in SUBSET PublicKeys /\ Fingerprints(keyring) = granted
         /\ \A e \in keyring.entries :
              e.fp \in granted /\ e.data = keyring.data /\ (keyring.version = 2 => e.line = e.fp)
         /\ \A k \in granted : \E e \in keyring.entries : e.fp = k
<1>1. /\ keyring \in [version : {1, 2}, data : 0 .. MaxRotations, entries : SUBSET Entries]
      /\ granted \in SUBSET PublicKeys
      /\ keyring.entries = {EntryOf(keyring, k) : k \in granted}
  BY DEF RecipientIInv, RecipientTypes, WrappedForTheGranted
<1>2. Fingerprints(keyring) = granted
  BY <1>1, FingerprintsOfEntries
<1>3. \A k : EntryOf(keyring, k).fp = k /\ EntryOf(keyring, k).data = keyring.data
               /\ (keyring.version = 2 => EntryOf(keyring, k).line = k)
  BY DEF EntryOf
<1>4. \A e \in keyring.entries : \E k \in granted : e = EntryOf(keyring, k)
  BY <1>1
<1>5. \A k \in granted : EntryOf(keyring, k) \in keyring.entries
  BY <1>1
<1> QED
  BY <1>1, <1>2, <1>3, <1>4, <1>5

LEMMA RemovedEntries ==
  ASSUME RecipientIInv, NEW k \in PublicKeys
  PROVE  /\ RemovedKey(k) \in [version : {1, 2}, data : 0 .. MaxRotations, entries : SUBSET Entries]
         /\ RemovedKey(k).version = keyring.version /\ RemovedKey(k).data = keyring.data
         /\ RemovedKey(k).entries = {e \in keyring.entries : e.fp # k}
         /\ Fingerprints(RemovedKey(k)) = granted \ {k}
<1>1. /\ RemovedKey(k).version = keyring.version /\ RemovedKey(k).data = keyring.data
      /\ RemovedKey(k).entries = {e \in keyring.entries : e.fp # k}
      /\ RemovedKey(k) \in [version : {1, 2}, data : 0 .. MaxRotations, entries : SUBSET Entries]
  BY EntriesOfKeyring DEF RemovedKey
<1>2. ASSUME NEW f \in Fingerprints(RemovedKey(k)) PROVE f \in granted \ {k}
  BY <1>1, EntriesOfKeyring DEF Fingerprints
<1>3. ASSUME NEW f \in granted \ {k} PROVE f \in Fingerprints(RemovedKey(k))
  BY <1>1, EntriesOfKeyring DEF Fingerprints
<1> QED
  BY <1>1, <1>2, <1>3

\* A new data key is wrapped for every recipient there is, and for nobody else.
LEMMA RekeyedKeepsIInv ==
  ASSUME NEW v \in [version : {1, 2}, data : 0 .. MaxRotations, entries : SUBSET Entries],
         NEW keys \in SUBSET PublicKeys, v.data < MaxRotations,
         SavesKeyring(Rekeyed(v, keys), keys)
  PROVE  RecipientIInv'
<1> DEFINE w == Rekeyed(v, keys)
<1> DEFINE new == {Entry(k, v.data + 1) : k \in keys}
<1>1. w.version = v.version /\ w.data = v.data + 1 /\ w.entries = new
  <2> HIDE DEF new
  <2>1. w = [v EXCEPT !.data = @ + 1, !.entries = new]
    BY DEF Rekeyed, new
  <2> HIDE DEF w
  <2> QED
    BY <2>1
<1>2. v.data + 1 \in 0 .. MaxRotations
  BY RecipientAssumption
<1>3. \A k \in keys : Entry(k, v.data + 1) \in Entries
  BY <1>2 DEF Entry, Entries
<1>4. w.entries \in SUBSET Entries
  BY <1>1, <1>3
<1>5. w \in [version : {1, 2}, data : 0 .. MaxRotations, entries : SUBSET Entries]
  BY <1>1, <1>2, <1>4 DEF Rekeyed
<1>6. \A e \in w.entries : e.fp \in keys /\ e.data = w.data /\ e.line = e.fp
  BY <1>1 DEF Entry
<1>7. \A k \in keys : Entry(k, v.data + 1) \in w.entries /\ Entry(k, v.data + 1).fp = k
  BY <1>1 DEF Entry
<1> HIDE DEF w
<1>8. SavesKeyring(w, keys)
  BY DEF w
<1> QED
  BY <1>5, <1>6, <1>7, <1>8, StoredEntries

\* What a command that fails to name a recipient would leave out, it leaves alone.
LEMMA ResolvesAll ==
  ASSUME NEW v, NEW given, NEW m, Resolves(v, given, m)
  PROVE  Resolved(v, given, m) = Fingerprints(v)
BY DEF Resolves

LEMMA RecipientInitIInv == RecipientInit => RecipientIInv
<1> SUFFICES ASSUME RecipientInit PROVE RecipientIInv
  OBVIOUS
<1>1. PICK k \in SshKeys :
        /\ keyring = Stored([version |-> 1, data |-> 0, entries |-> {Entry(k, 0)}])
        /\ granted = {k}
  BY DEF RecipientInit
<1>2. [Entry(k, 0) EXCEPT !.line = NoKey] = [fp |-> k, line |-> NoKey, data |-> 0]
  BY DEF Entry
<1>3. keyring = [version |-> 1, data |-> 0, entries |-> {[fp |-> k, line |-> NoKey, data |-> 0]}]
  BY <1>1, <1>2 DEF Stored
<1>4. RecipientTypes
  BY <1>1, <1>3, RecipientAssumption DEF RecipientTypes, Entries, PublicKeys
<1>5. WrappedForTheGranted
  BY <1>1, <1>3 DEF WrappedForTheGranted, EntryOf
<1> QED
  BY <1>4, <1>5 DEF RecipientIInv

LEMMA RecipientStep == RecipientIInv /\ [RecipientNext]_recipientVars => RecipientIInv'
<1> SUFFICES ASSUME RecipientIInv, [RecipientNext]_recipientVars PROVE RecipientIInv'
  OBVIOUS
<1>1. /\ keyring \in [version : {1, 2}, data : 0 .. MaxRotations, entries : SUBSET Entries]
      /\ granted \in SUBSET PublicKeys /\ Fingerprints(keyring) = granted
      /\ \A e \in keyring.entries :
           e.fp \in granted /\ e.data = keyring.data /\ (keyring.version = 2 => e.line = e.fp)
      /\ \A k \in granted : \E e \in keyring.entries : e.fp = k
  BY EntriesOfKeyring
<1>2. ASSUME NEW m \in Machines, NEW k \in PublicKeys, AddKey(m, k) PROVE RecipientIInv'
  <2> DEFINE new == Entry(k, keyring.data)
             v   == [keyring EXCEPT !.entries = @ \cup {new}]
  <2>1. new \in Entries /\ new.fp = k /\ new.line = k /\ new.data = keyring.data
    BY <1>1 DEF Entry, Entries
  <2> HIDE DEF new
  <2>2. /\ v \in [version : {1, 2}, data : 0 .. MaxRotations, entries : SUBSET Entries]
        /\ v.version = keyring.version /\ v.data = keyring.data
        /\ v.entries = keyring.entries \cup {new}
    BY <1>1, <2>1
  <2>3. SavesKeyring(v, granted \cup {k})
    BY <1>2 DEF AddKey, new
  <2> HIDE DEF v
  <2>4. /\ granted \cup {k} \in SUBSET PublicKeys
        /\ \A e \in v.entries :
             e.fp \in granted \cup {k} /\ e.data = v.data /\ (v.version = 2 => e.line = e.fp)
        /\ \A g \in granted \cup {k} : \E e \in v.entries : e.fp = g
    BY <1>1, <2>1, <2>2
  <2> QED
    BY <2>2, <2>3, <2>4, StoredEntries
<1>3. ASSUME NEW m \in Machines, NEW k \in PublicKeys, RemoveKey(m, k) PROVE RecipientIInv'
  <2> DEFINE v == RemovedKey(k)
  <2>1. SavesKeyring(v, granted \ {k})
    BY <1>3 DEF RemoveKey
  <2>2. /\ v \in [version : {1, 2}, data : 0 .. MaxRotations, entries : SUBSET Entries]
        /\ v.version = keyring.version /\ v.data = keyring.data
        /\ v.entries = {e \in keyring.entries : e.fp # k}
    BY RemovedEntries
  <2> HIDE DEF v
  <2>3. /\ granted \ {k} \in SUBSET PublicKeys
        /\ \A e \in v.entries :
             e.fp \in granted \ {k} /\ e.data = v.data /\ (v.version = 2 => e.line = e.fp)
        /\ \A g \in granted \ {k} : \E e \in v.entries : e.fp = g
    BY <1>1, <2>2
  <2> QED
    BY <2>1, <2>2, <2>3, StoredEntries
<1>4. ASSUME NEW m \in Machines, NEW k \in PublicKeys, NEW given \in SUBSET PublicKeys,
             RemoveKeyAndRotate(m, k, given)
      PROVE  RecipientIInv'
  <2>1. Resolved(RemovedKey(k), given, m) = granted \ {k}
    BY <1>4, RemovedEntries, ResolvesAll DEF RemoveKeyAndRotate
  <2>2. SavesKeyring(Rekeyed(RemovedKey(k), granted \ {k}), granted \ {k})
    BY <1>4, <2>1 DEF RemoveKeyAndRotate
  <2>3. RemovedKey(k).data < MaxRotations
    BY <1>4, RemovedEntries DEF RemoveKeyAndRotate
  <2> QED
    BY <1>1, <2>2, <2>3, RemovedEntries, RekeyedKeepsIInv
<1>5. ASSUME NEW m \in Machines, NEW given \in SUBSET PublicKeys, RotateDataKey(m, given)
      PROVE  RecipientIInv'
  <2>1. Resolved(keyring, given, m) = granted
    BY <1>1, <1>5, ResolvesAll DEF RotateDataKey
  <2> QED
    BY <1>1, <1>5, <2>1, RekeyedKeepsIInv DEF RotateDataKey
<1>6. ASSUME NEW m \in Machines, NEW given \in SUBSET PublicKeys, MigrateKeyring(m, given)
      PROVE  RecipientIInv'
  <2> DEFINE v == Attached(keyring, granted)
  <2>1. Resolved(keyring, given, m) = granted
    BY <1>1, <1>6, ResolvesAll DEF MigrateKeyring
  <2>2. SavesKeyring(v, granted)
    BY <1>6, <2>1 DEF MigrateKeyring
  <2>3. /\ v.version = 2 /\ v.data = keyring.data
        /\ v.entries = {[e EXCEPT !.line = IF e.fp \in granted THEN e.fp ELSE @] : e \in keyring.entries}
    BY <1>1 DEF Attached
  <2>4. \A e \in keyring.entries :
          LET d == [e EXCEPT !.line = IF e.fp \in granted THEN e.fp ELSE @]
          IN  d \in Entries /\ d.fp = e.fp /\ d.line = e.fp /\ d.data = e.data
    BY <1>1 DEF Entries
  <2>5. v.entries \in SUBSET Entries
    BY <2>3, <2>4
  <2>6. v \in [version : {1, 2}, data : 0 .. MaxRotations, entries : SUBSET Entries]
    BY <1>1, <2>5 DEF Attached
  <2> HIDE DEF v
  <2>7. ASSUME NEW d \in v.entries
        PROVE  d.fp \in granted /\ d.data = v.data /\ d.line = d.fp
    <3>1. PICK e \in keyring.entries :
            d = [e EXCEPT !.line = IF e.fp \in granted THEN e.fp ELSE @]
      BY <2>3
    <3> QED
      BY <1>1, <2>3, <2>4, <3>1
  <2>8. ASSUME NEW g \in granted PROVE \E d \in v.entries : d.fp = g
    <3>1. PICK e \in keyring.entries : e.fp = g
      BY <1>1
    <3>2. [e EXCEPT !.line = IF e.fp \in granted THEN e.fp ELSE @] \in v.entries
      BY <2>3
    <3> QED
      BY <2>4, <3>1, <3>2
  <2> QED
    BY <1>1, <2>2, <2>6, <2>7, <2>8, StoredEntries
<1>7. CASE UNCHANGED recipientVars
  BY <1>7 DEF recipientVars, RecipientIInv, RecipientTypes, WrappedForTheGranted
<1> QED
  BY <1>2, <1>3, <1>4, <1>5, <1>6, <1>7 DEF RecipientNext, NoCommandOpens

(***************************************************************************)
(* The vault file and the set of those who were let in keep their types.   *)
(***************************************************************************)
THEOREM RecipientTyping == RecipientSpec => []RecipientTypes
<1>1. RecipientIInv => RecipientTypes
  BY DEF RecipientIInv
<1> QED
  BY <1>1, RecipientInitIInv, RecipientStep, PTL DEF RecipientSpec

\* A key that was let in and can be used is found, and opens an entry of today.
LEMMA UsableOpens ==
  ASSUME RecipientIInv, NEW m \in Machines, Hardened(m, granted),
         NEW place \in Places, Usable(m, place), m.files[place].key \in granted
  PROVE  UnlocksOn(m, keyring)
<1> DEFINE f == m.files[place]
<1>1. f \in Discovered(m)
  BY DEF Usable, Discovered, Places
<1>2. f.pub \in granted \cup {NoKey} /\ (f.encrypted => m.attended)
  BY DEF Usable
<1>3. f.key \in Loaded(m, granted)
  BY <1>1, <1>2 DEF Loaded
<1>4. PICK e \in keyring.entries : e.fp = f.key
  BY EntriesOfKeyring
<1>5. e.data \in Unwrapped(keyring, Loaded(m, granted))
  BY <1>3, <1>4 DEF Unwrapped
<1>6. Unwrapped(keyring, Loaded(m, granted)) \subseteq {keyring.data}
  BY EntriesOfKeyring DEF Unwrapped
<1> QED
  BY <1>5, <1>6, EntriesOfKeyring DEF UnlocksOn

\* Who opens the vault has a key that was let in.
LEMMA OpensWithGranted ==
  ASSUME RecipientIInv, NEW m \in Machines, UnlocksOn(m, keyring)
  PROVE  granted \cap ({m.files[place].key : place \in Places} \cup m.tokens) # {}
<1>1. PICK e \in keyring.entries : e.fp \in Loaded(m, granted)
  BY EntriesOfKeyring DEF UnlocksOn, Unwrapped
<1>2. e.fp \in granted
  BY EntriesOfKeyring
<1>3. Loaded(m, granted) \subseteq {m.files[place].key : place \in Places} \cup m.tokens
  BY DEF Loaded, Discovered, Places
<1> QED
  BY <1>1, <1>2, <1>3

(***************************************************************************)
(* The vault opens on every machine where a private key that was let in    *)
(* can be used, and on none without such a key, after any sequence of      *)
(* additions, removals, rotations and migrations on whichever machines:    *)
(* unlock_ciphertext, load_identities_for_vault and the commands that      *)
(* change the recipients agree on who is one.                              *)
(***************************************************************************)
THEOREM AlwaysOpensForTheGranted == RecipientSpec => []OpensForTheGranted
<1>1. RecipientIInv => OpensForTheGranted
  BY UsableOpens, OpensWithGranted DEF OpensForTheGranted
<1> QED
  BY <1>1, RecipientInitIInv, RecipientStep, PTL DEF RecipientSpec

(***************************************************************************)
(* A v2 vault can be rotated on every machine without naming a key: the    *)
(* line of every recipient is in the file, whichever command put the       *)
(* recipient there, and that a v1 vault became a v2 one says that all were *)
(* named.                                                                  *)
(***************************************************************************)
THEOREM AlwaysRotatesUnaided == RecipientSpec => []RotatesUnaided
<1>1. RecipientIInv => RotatesUnaided
  <2> SUFFICES ASSUME RecipientIInv, keyring.version = 2, NEW m \in Machines
               PROVE  Resolves(keyring, {}, m)
    BY DEF RotatesUnaided
  <2>1. Resolved(keyring, {}, m) = Fingerprints(keyring)
    BY ResolvedOfV2 DEF RecipientIInv, RecipientTypes, WrappedForTheGranted
  <2> QED
    BY <2>1 DEF Resolves
<1> QED
  BY <1>1, RecipientInitIInv, RecipientStep, PTL DEF RecipientSpec
==============================================================================
