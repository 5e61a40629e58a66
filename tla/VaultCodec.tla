----------------------------- MODULE VaultCodec -----------------------------
(***************************************************************************)
(* What a vault file holds, how it is unlocked into a Vault in memory and  *)
(* how a Vault is encoded into a file again.  Cryptography is symbolic: a  *)
(* key is the term it is derived from, and a ciphertext opens with exactly *)
(* the term it was made with.                                              *)
(***************************************************************************)
EXTENDS Naturals, Sequences, FiniteSets, Functions

CONSTANTS Profiles, Vars, Values,
          Recipients,      \* fingerprints of SSH or age recipients
          DataKeys,        \* what generate_data_key may return for a vault
          ProfileKeys,     \* what it may return for the entries of one save
          FactorIds,       \* salts, device seals and wrapped keys of factors
          Passphrases,
          NoPassphrase,    \* no passphrase is given
          RemoteIds        \* ids of remote/KMS factor metadata

ASSUME CodecAssumption == NoPassphrase \notin Passphrases \cup RemoteIds

ProfileKinds == {"passphrase", "device"}      \* ProfileFactorRequirement
Kinds        == ProfileKinds \cup {"remote"}  \* UnlockFactorKindV2, of payload factors
Empty        == <<>>

(***************************************************************************)
(* A factor as the metadata names it.  source is the passphrase it was     *)
(* made from, the remote metadata that unwraps it, or neither.  The file   *)
(* holds a salt and no passphrase, so nothing reads the passphrase here    *)
(* but the comparison of two derived keys.                                 *)
(***************************************************************************)
Factors ==
  [kind : Kinds, id : FactorIds, source : Passphrases \cup RemoteIds \cup {NoPassphrase}]
Factor(kind, id, source) == [kind |-> kind, id |-> id, source |-> source]

\* Vec::retain: the elements of s at the positions I.
Nth(I, n)      == CHOOSE i \in I : Cardinality({j \in I : j <= i}) = n
Retained(s, I) == [n \in 1 .. Cardinality(I) |-> s[Nth(I, n)]]

Without(fs, kind) == Retained(fs, {i \in DOMAIN fs : fs[i].kind # kind})
HasKind(fs, kind) == \E i \in DOMAIN fs : fs[i].kind = kind
FirstOf(fs, kind) ==
  fs[CHOOSE i \in DOMAIN fs : fs[i].kind = kind /\ \A j \in 1 .. i - 1 : fs[j].kind # kind]

(***************************************************************************)
(* The keys that metadata gives to one who supplies pass: a passphrase     *)
(* factor yields the key of the passphrase supplied, right or wrong.       *)
(***************************************************************************)
PassphraseGiven(fs, pass) == HasKind(fs, "passphrase") => pass # NoPassphrase
Derived(fs, pass) ==
  [i \in DOMAIN fs |-> IF fs[i].kind = "passphrase" THEN [fs[i] EXCEPT !.source = pass]
                                                    ELSE fs[i]]

PayloadKey(dataKey, keys) == [data |-> dataKey, factors |-> keys]

(***************************************************************************)
(* The factor keys a profile key is bound to: for every requirement, in    *)
(* order, the first key of its kind.                                       *)
(***************************************************************************)
Satisfied(required, keys) == \A i \in DOMAIN required : HasKind(keys, required[i])
Bound(required, keys)     == [i \in DOMAIN required |-> FirstOf(keys, required[i])]

EntryOpens(entry, payloadKey, required, keys) ==
  /\ entry.wrap = payloadKey
  /\ Satisfied(required, keys)
  /\ entry.bound = Bound(required, keys)

NoPolicy     == [required |-> Empty, meta |-> Empty]
Policy(v, p) == IF p \in DOMAIN v.policies THEN v.policies[p] ELSE NoPolicy

At(f, p)   == IF p \in DOMAIN f THEN f[p] ELSE Empty
Drop(f, p) == Restrict(f, DOMAIN f \ {p})
Over(f, g) == [p \in DOMAIN f \cup DOMAIN g |-> IF p \in DOMAIN f THEN f[p] ELSE g[p]]
Put(f, p, x) == [q \in DOMAIN f \cup {p} |-> IF q = p THEN x ELSE f[q]]

(***************************************************************************)
(* The file.  wraps holds the data key for each recipient, factors the     *)
(* payload factors of the policy metadata, remotes the ids of the remote   *)
(* metadata, profileKeys the mode, key the key of the payload; the rest is *)
(* inside the payload.                                                     *)
(***************************************************************************)
File(version, wraps, factors, remotes, profileKeys, key, profiles, entries, policies) ==
  [version |-> version, wraps |-> wraps, factors |-> factors, remotes |-> remotes,
   profileKeys |-> profileKeys, key |-> key, profiles |-> profiles,
   entries |-> entries, policies |-> policies]

PayloadOpens(d, dataKey, pass) ==
  /\ PassphraseGiven(d.factors, pass)
  /\ \A i \in DOMAIN d.factors :
       d.factors[i].kind = "remote" => d.factors[i].source \in d.remotes
  /\ d.key = PayloadKey(dataKey, Derived(d.factors, pass))

(***************************************************************************)
(* A Vault whose entries are still locked: keys is payload_key_factors,    *)
(* pkeys is profile_factor_keys.                                           *)
(***************************************************************************)
Locked(d, dataKey, pass) ==
  [version |-> d.version, wraps |-> d.wraps, factors |-> d.factors, remotes |-> d.remotes,
   profileKeys |-> d.profileKeys, profiles |-> d.profiles, entries |-> d.entries,
   policies |-> d.policies, dataKey |-> dataKey, keys |-> Derived(d.factors, pass),
   pkeys |-> Empty, rotations |-> {}]

ProfileOpens(d, p, dataKey, pass, profilePass) ==
  LET meta == Policy(d, p).meta
  IN  /\ PassphraseGiven(meta, profilePass)
      /\ EntryOpens(d.entries[p], PayloadKey(dataKey, Derived(d.factors, pass)),
                    Policy(d, p).required,
                    Derived(meta, profilePass) \o Derived(d.factors, pass))

Asked(fs) == IF HasKind(fs, "passphrase") THEN Passphrases ELSE {NoPassphrase}

(***************************************************************************)
(* The Vaults that the three ways of unlocking make of a file, for every   *)
(* recipient whose private key may be at hand and every passphrase.  The   *)
(* set is empty where unlocking fails.  A full unlock knows one passphrase *)
(* and gives it to every profile too.                                      *)
(***************************************************************************)
MetadataUnlocks(d) ==
  {Locked(d, d.wraps[rp[1]], rp[2]) : rp \in
     {rp \in (DOMAIN d.wraps) \X Asked(d.factors) : PayloadOpens(d, d.wraps[rp[1]], rp[2])}}

FullUnlocks(d) ==
  {[Locked(d, d.wraps[rp[1]], rp[2]) EXCEPT
      !.profiles = Over([p \in DOMAIN d.entries |-> d.entries[p].vals], @),
      !.pkeys = [p \in DOMAIN d.policies |-> Derived(d.policies[p].meta, rp[2])]] : rp \in
     {rp \in (DOMAIN d.wraps) \X Asked(d.factors) :
        /\ PayloadOpens(d, d.wraps[rp[1]], rp[2])
        /\ \A p \in DOMAIN d.policies : PassphraseGiven(d.policies[p].meta, rp[2])
        /\ \A p \in DOMAIN d.entries : ProfileOpens(d, p, d.wraps[rp[1]], rp[2], rp[2])}}

ProfileUnlocks(d, p) ==
  IF p \in DOMAIN d.profiles \/ p \notin DOMAIN d.entries
  THEN MetadataUnlocks(d)
  ELSE {[Locked(d, d.wraps[rpq[1]], rpq[2]) EXCEPT
           !.profiles = Put(@, p, d.entries[p].vals),
           !.pkeys = Put(@, p, Derived(Policy(d, p).meta, rpq[3]))] : rpq \in
          {rpq \in (DOMAIN d.wraps) \X Asked(d.factors) \X Asked(Policy(d, p).meta) :
             /\ PayloadOpens(d, d.wraps[rpq[1]], rpq[2])
             /\ ProfileOpens(d, p, d.wraps[rpq[1]], rpq[2], rpq[3])}}

(***************************************************************************)
(* Encoding with a fresh profile key.  An unlocked profile keeps its entry *)
(* only when the entry opens with the keys of today, holds the variables   *)
(* of today and no rotation was asked for; a locked one is copied.         *)
(***************************************************************************)
KeysOf(v, p) == At(v.pkeys, p) \o v.keys

Encodable(v) ==
  v.profileKeys => \A p \in DOMAIN v.profiles : Satisfied(Policy(v, p).required, KeysOf(v, p))

(* Mutant: an entry is never kept. *)
NeverReusable(v, p) == FALSE

Reusable(v, p) ==
  /\ p \in DOMAIN v.entries \ v.rotations
  /\ EntryOpens(v.entries[p], PayloadKey(v.dataKey, v.keys), Policy(v, p).required, KeysOf(v, p))
  /\ v.entries[p].vals = v.profiles[p]

(* Mutant: an entry that is made again keeps its profile key. *)
Rewrapped(v, p, fresh) ==
  [wrap |-> PayloadKey(v.dataKey, v.keys),
   key |-> IF p \in DOMAIN v.entries THEN v.entries[p].key ELSE fresh,
   bound |-> Bound(Policy(v, p).required, KeysOf(v, p)), vals |-> v.profiles[p]]

Encrypted(v, p, fresh) ==
  [wrap |-> PayloadKey(v.dataKey, v.keys), key |-> fresh,
   bound |-> Bound(Policy(v, p).required, KeysOf(v, p)), vals |-> v.profiles[p]]

EncodedEntries(v, fresh) ==
  Over([p \in DOMAIN v.profiles |-> IF Reusable(v, p) THEN v.entries[p] ELSE Encrypted(v, p, fresh)],
       v.entries)

Encode(v, fresh) ==
  File(v.version, v.wraps, v.factors, v.remotes, v.profileKeys,
       PayloadKey(v.dataKey, v.keys),
       IF v.profileKeys THEN Empty ELSE v.profiles,
       IF v.profileKeys THEN EncodedEntries(v, fresh) ELSE Empty,
       v.policies)
=============================================================================
