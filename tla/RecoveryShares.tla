---------------------------- MODULE RecoveryShares ----------------------------
(***************************************************************************)
(* Recovery shares of a vault's data key: the metadata a vault lists, the  *)
(* envelopes `recovery split-vault-key` prints, and what becomes of them   *)
(* when they are read back and combined, also after the data key has been  *)
(* rotated.  The data key is one byte; each byte is shared on its own.     *)
(***************************************************************************)
EXTENDS Shamir, FiniteSets, SequencesExt

CONSTANTS DataKeyBytes,      \* the data keys the vault has, in turn
          Draws,             \* bytes the random number generator gives
          SetIds,            \* ids of share sets: their parts between colons
          ShareLabels,       \* ids of shares: metadata lists the first few
          MaxShares,         \* shares of a split
          MaxFiles,          \* share files given to a command
          MaxSplits

(* A rotation draws a key that no data key before it was; shares are counted  *)
(* and numbered in a byte.                                                   *)
ASSUME ShareAssumption ==
  /\ DataKeyBytes \in Seq(Byte) /\ DataKeyBytes # <<>> /\ IsInjective(DataKeyBytes)
  /\ Draws \subseteq Byte /\ MaxShares \in 1 .. 255 /\ {MaxFiles, MaxSplits} \subseteq Nat
  /\ ShareLabels \in Seq(Range(ShareLabels)) /\ \A id \in SetIds : id \in Seq(Range(id))

VARIABLES keyAge,            \* how often the data key has been rotated
          lines,             \* does the vault keep a public key line of each recipient?
          listed,            \* the share sets in the vault's metadata
          splits,            \* the splits made, with what they were made from
          used               \* history: the splits that a vault was recovered with

shareVars == <<keyAge, lines, listed, splits, used>>

DataKey(age) == DataKeyBytes[age + 1]
Configs == [set : SetIds, threshold : 1 .. MaxShares, count : 1 .. MaxShares]

-----------------------------------------------------------------------------
(* Metadata of a share set: a list of labels, and what Shamir was given.    *)

NoShamir == [threshold |-> 0, count |-> 0]
Metadata ==
  [id : SetIds, threshold : 0 .. MaxShares,
   shares : {SubSeq(ShareLabels, 1, n) : n \in 0 .. Len(ShareLabels)},
   shamir : {NoShamir} \cup [threshold : 1 .. MaxShares, count : 1 .. MaxShares]]

\* validate_recovery_share_set_metadata
ValidMetadata(m) ==
  /\ m.threshold \in 1 .. Len(m.shares)
  /\ IsInjective(m.shares)
  /\ m.shamir \in {NoShamir, [threshold |-> m.threshold, count |-> Len(m.shares)]}

ValidFiles == {m \in Metadata : ValidMetadata(m)}

\* What a split is made with: arguments, or a metadata file that agrees with them.
ConfigOf(m) == [set |-> m.id, threshold |-> m.threshold, count |-> Len(m.shares)]

(* Mutant: a share given twice is counted twice. *)
ReadyCountingAll(m, labels) ==
  Cardinality({i \in DOMAIN labels : labels[i] \in ToSet(m.shares)}) >= m.threshold

\* plan_m_of_n_unlock
Ready(m, labels) == Cardinality(ToSet(labels) \cap ToSet(m.shares)) >= m.threshold

-----------------------------------------------------------------------------
(* Envelopes, and their text: five fields between colons.                   *)

Word(w)   == [kind |-> "word", value |-> w]
Number(n) == [kind |-> "number", value |-> n]
Hex(b)    == [kind |-> "hex", value |-> b]
Prefix    == Word("sshenv-shamir-v1")

EncodeEnvelope(e) ==
  <<Prefix>> \o [i \in DOMAIN e.set |-> Word(e.set[i])]
    \o <<Number(e.threshold), Number(e.share.index), Hex(e.share.value)>>

Unreadable == [set |-> <<>>, threshold |-> 0, share |-> [index |-> 0, value |-> Zero]]

DecodeEnvelope(text) ==
  IF /\ Len(text) = 5
     /\ text[1] = Prefix /\ text[2].kind = "word"
     /\ text[3].kind = "number" /\ text[4].kind = "number" /\ text[5].kind = "hex"
     /\ text[3].value # 0 /\ text[4].value # 0
  THEN [set |-> <<text[2].value>>, threshold |-> text[3].value,
        share |-> [index |-> text[4].value, value |-> text[5].value]]
  ELSE Unreadable

Envelopes(s) ==
  {[set |-> s.config.set, threshold |-> s.config.threshold, share |-> share] :
     share \in Range(Split(DataKey(s.age), s.draw, s.config.count))}
Issued == UNION {Envelopes(s) : s \in splits}

Files(envelopes) == UNION {[1 .. n -> envelopes] : n \in 1 .. MaxFiles}

\* validate_recovery_share_envelope_metadata
Verified(m, e) ==
  ValidMetadata(m) /\ e.set = m.id /\ e.threshold = m.threshold /\ e.share.index <= Len(m.shares)

\* load_recovery_share_envelopes and combine_recovery_share_envelopes: do these
\* files combine, and to what?
Shares(files) == [i \in DOMAIN files |-> DecodeEnvelope(EncodeEnvelope(files[i])).share]
Accepted(files) ==
  /\ \A i \in DOMAIN files : DecodeEnvelope(EncodeEnvelope(files[i])) # Unreadable
  /\ \A i \in DOMAIN files : files[i].set = files[1].set /\ files[i].threshold = files[1].threshold
  /\ Combinable(Shares(files), files[1].threshold)
Recovered(files) == Combined(Shares(files), files[1].threshold)

Opens(files) == Accepted(files) /\ Recovered(files) = DataKey(keyAge)

\* No choice of files of this split opens the vault.
Spent(s) == \A files \in Files(Envelopes(s)) : ~Opens(files)

-----------------------------------------------------------------------------
ShareInit ==
  /\ keyAge = 0
  /\ lines \in BOOLEAN
  /\ listed = {}
  /\ splits = {}
  /\ used = {}

\* recovery split-vault-key: the set need not be listed in the vault.
SplitVaultKey(config) ==
  /\ Cardinality(splits) < MaxSplits
  /\ config.threshold <= config.count
  /\ \E draw \in [1 .. config.threshold - 1 -> Draws] :
       splits' = splits \cup {[config |-> config, draw |-> draw, age |-> keyAge]}
  /\ UNCHANGED <<keyAge, lines, listed, used>>

RecoveryImport(m) ==
  /\ listed' = {n \in listed : n.id # m.id} \cup {m}
  /\ UNCHANGED <<keyAge, lines, splits, used>>

RecoveryRemove(id) ==
  /\ \E m \in listed : m.id = id
  /\ listed' = {m \in listed : m.id # id}
  /\ UNCHANGED <<keyAge, lines, splits, used>>

\* rekey, with the keys of the recipients at hand: lines or no lines.
Rotate ==
  /\ keyAge + 1 < Len(DataKeyBytes)
  /\ keyAge' = keyAge + 1
  /\ UNCHANGED <<lines, listed, splits, used>>

(* Mutant: the new recipient is added to the key the shares gave away. *)
AddedToTheOldKey == keyAge

\* rotate_recovered_vault_key_if_possible: to a key of its own, but only when the
\* vault keeps the line of every recipient.
KeyAgeAfterRecovery == IF lines THEN keyAge + 1 ELSE keyAge

\* recovery recover-recipient writes another vault, the one that is used from here.
RecoverRecipient(s) ==
  /\ ~Spent(s)
  /\ KeyAgeAfterRecovery < Len(DataKeyBytes)
  /\ keyAge' = KeyAgeAfterRecovery
  /\ used' = used \cup {s}
  /\ UNCHANGED <<lines, listed, splits>>

ShareNext ==
  \/ \E config \in Configs : SplitVaultKey(config)
  \/ \E m \in ValidFiles : RecoveryImport(m)
  \/ \E id \in SetIds : RecoveryRemove(id)
  \/ Rotate
  \/ \E s \in splits : RecoverRecipient(s)

ShareSpec == ShareInit /\ [][ShareNext]_shareVars

-----------------------------------------------------------------------------
\* What depends on the splits alone is looked at once for each of them.
JustSplit == listed = {} /\ \A s \in splits : s.age = keyAge

(***************************************************************************)
(* As many shares of a split as its threshold, in any order and with       *)
(* others of it after them, give back the data key and open the vault.     *)
(***************************************************************************)
SharesOpenTheirVault ==
  JustSplit => \A s \in splits : \A files \in Files(Envelopes(s)) :
    IsInjective(files) /\ Len(files) >= s.config.threshold => Opens(files)

(***************************************************************************)
(* One share of two tells nothing: whatever the data key is, some draw     *)
(* gives that share.                                                       *)
(***************************************************************************)
OneShareTellsNothing ==
  JustSplit => \A s \in splits :
    s.config.threshold = 2 => \A e \in Envelopes(s) :
      {Xor(e.share.value, EvaluatePolynomial(Zero, <<c>>, ByteOf(e.share.index))) : c \in Byte} = Byte

(***************************************************************************)
(* When the planner says that the labels at hand are enough, the shares    *)
(* they stand for do recover the key of the split made from that metadata, *)
(* once those at hand more than once are left out.                         *)
(***************************************************************************)
ReadyMeansRecoverable ==
  \A m \in listed, s \in splits : ConfigOf(m) = s.config =>
    \A files \in Files(Envelopes(s)) :
      Ready(m, [i \in DOMAIN files |-> m.shares[files[i].share.index]])
        => \E some \in Files(Range(files)) :
             Accepted(some) /\ Recovered(some) = DataKey(s.age)

(***************************************************************************)
(* The vault that recover-recipient writes is not opened again by the      *)
(* shares that recovered it, nor by others of that split, when the lines   *)
(* of its recipients are known.                                            *)
(***************************************************************************)
UsedSharesAreSpent ==
  lines => \A s \in used : Spent(s)
=============================================================================
