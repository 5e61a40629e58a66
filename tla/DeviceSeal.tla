------------------------------ MODULE DeviceSeal ------------------------------
(***************************************************************************)
(* The secrets that device-seal factors are made of: one for each backend, *)
(* created by the first vault that is sealed with it and shared by all.    *)
(* The factor in a vault's metadata names the backend; the secret is read  *)
(* again at each unlock.  A backend may be out of reach at any access.     *)
(*                                                                         *)
(* How a secret is stored differs.  The device-only Keychain, the Secret   *)
(* Service and the Secure Enclave replace it in one call, DPAPI and the    *)
(* local file by a rename.  The Keychain does as well, or else a fallback  *)
(* file is truncated and written.  The any-application Keychain item is    *)
(* deleted and created again.  The TPM's secret is sealed to seal.pub and  *)
(* seal.priv, and these are then loaded into seal.ctx, from which it is    *)
(* unsealed.  A process may fail or die between any two of these steps.    *)
(***************************************************************************)
EXTENDS FiniteSets, Naturals

CONSTANTS Sealers,          \* processes that seal a vault
          SealedVaults,     \* vaults; a profile gets a seal of its own the same way
          SealBackends,
          WithFallback,     \* the backends with a fallback file,
          Recreated,        \* whose item is deleted and created again,
          Tpms,             \* and with a sealed object and its context
          Secrets, NoSecret,
          Torn              \* what a tpm2 command that was cut off leaves

ASSUME SealAssumption ==
  /\ NoSecret \notin Secrets /\ Torn \notin Secrets /\ Torn # NoSecret
  /\ WithFallback \cup Recreated \cup Tpms \subseteq SealBackends
  /\ WithFallback \cap Recreated = {} /\ (WithFallback \cup Recreated) \cap Tpms = {}

VARIABLES kept,             \* what each backend keeps: in its store (the item, the file or
                            \* seal.ctx), and in its fallback file or its sealed object
          seals,            \* the backend each vault is sealed with, and the key
          sealing,          \* what each process is at
          contested         \* history: the secrets of each backend that another sealing
                            \* passed over, or that were stored while another was

sealVars == <<kept, seals, sealing, contested>>

NoSeal  == [backend |-> NoSecret, key |-> NoSecret]
NotSealing == [at |-> "rest", vault |-> NoSecret, backend |-> NoSecret, secret |-> NoSecret]

SealInit ==
  /\ kept = [b \in SealBackends |-> [store |-> NoSecret, file |-> NoSecret]]
  /\ seals = [v \in SealedVaults |-> NoSeal]
  /\ sealing = [p \in Sealers |-> NotSealing]
  /\ contested = [b \in SealBackends |-> {}]

-----------------------------------------------------------------------------
\* Process p is at a step of a sealing with backend b.
Sealing(p, step, b) == sealing[p].at = step /\ sealing[p].backend = b

StopSealing(p) == sealing' = [sealing EXCEPT ![p] = NotSealing]

\* The sealed object can be loaded, and is at the next load if it was not yet.
Loadable(b) == b \in Tpms /\ kept[b].file \in Secrets
ToLoad(b)   == Loadable(b) /\ kept[b].store = NoSecret

Loaded(b) == [kept EXCEPT ![b].store = kept[b].file]

\* What load_device_secret returns, of a backend that is in reach or not.
Reading(b, reached) ==
  IF reached /\ kept[b].store \in Secrets THEN kept[b].store
  ELSE IF b \in WithFallback \/ (reached /\ ToLoad(b)) THEN kept[b].file
  ELSE NoSecret

\* derive_factor_from_metadata, from the backend the factor names
Unseals(v) == seals[v] = NoSeal \/ Reading(seals[v].backend, TRUE) = seals[v].key

-----------------------------------------------------------------------------
\* enable_device_seal_factor, in a vault without a seal
StartSeal(p, v, b) ==
  /\ sealing[p].at = "rest"
  /\ seals[v] = NoSeal
  /\ sealing' = [sealing EXCEPT ![p] = [NotSealing EXCEPT !.at = "load", !.vault = v, !.backend = b]]
  /\ UNCHANGED <<kept, seals, contested>>

There(b) == {kept[b].store, kept[b].file} \cap Secrets

\* The processes that are storing a secret in backend b.
Storing(b) == {p \in Sealers : \E step \in {"store", "fill", "context"} : Sealing(p, step, b)}

BeingStored(b) == {sealing[p].secret : p \in Storing(b)}

InUse ==
  {sealing[p].secret : p \in Sealers} \cup {seals[v].key : v \in SealedVaults}
    \cup UNION {There(b) \cup contested[b] : b \in SealBackends}

Contest(b, secrets) == contested' = [contested EXCEPT ![b] = @ \cup secrets]

FindSecret(p, b, reached) ==
  LET found == Reading(b, reached)
  IN  /\ found # NoSecret
      /\ kept' = IF ToLoad(b) THEN Loaded(b) ELSE kept
      /\ sealing' = [sealing EXCEPT ![p].at = "save", ![p].secret = found]
      /\ Contest(b, IF Storing(b) = {} THEN {} ELSE {found})

\* Whatever keeps a secret from being read, a new one is made.  It is contested itself when
\* others are being stored, or if an item out of reach would hide it in the fallback file.
MissSecret(p, b, reached) ==
  /\ Reading(b, reached) = NoSecret
  /\ \/ UNCHANGED kept
     \/ ToLoad(b) /\ kept' = Loaded(b)
  /\ \E s \in Secrets \ InUse :
       /\ sealing' = [sealing EXCEPT ![p].at = "store", ![p].secret = s]
       /\ Contest(b, There(b) \cup BeingStored(b) \cup
            (IF Storing(b) # {} \/ (b \in WithFallback /\ There(b) # {}) THEN {s} ELSE {}))

\* load_or_create_backend_secret
LoadSecret(p, b, reached) ==
  /\ Sealing(p, "load", b)
  /\ FindSecret(p, b, reached) \/ MissSecret(p, b, reached)
  /\ UNCHANGED seals

-----------------------------------------------------------------------------
\* store_device_secret, step by step.

\* One step of a store: what backend b keeps in a place, and what p does next.
PutSecret(p, b, place, content, next) ==
  /\ kept' = [kept EXCEPT ![b] = [@ EXCEPT ![place] = content]]
  /\ sealing' = [sealing EXCEPT ![p].at = next]

\* In one call or by a rename.
StoreAtOnce(p, b, reached) ==
  /\ Sealing(p, "store", b)
  /\ b \notin Recreated \cup Tpms
  /\ reached
  /\ PutSecret(p, b, "store", sealing[p].secret, "save")

\* The fallback file is truncated; the item is deleted.
EmptyPlace(p, b, reached) ==
  /\ Sealing(p, "store", b)
  /\ \/ b \in WithFallback /\ ~reached /\ PutSecret(p, b, "file", NoSecret, "fill")
     \/ b \in Recreated /\ reached /\ PutSecret(p, b, "store", NoSecret, "fill")

\* A second item of the same name cannot be created.
FillPlace(p, b) ==
  /\ Sealing(p, "fill", b)
  /\ b \in Recreated => kept[b].store = NoSecret
  /\ PutSecret(p, b, IF b \in WithFallback THEN "file" ELSE "store", sealing[p].secret, "save")

\* tpm2_create, under a primary key that is the same each time it is made.  Of two at once
\* one may leave its seal.pub and the other its seal.priv.
SealObject(p, b) ==
  /\ Sealing(p, "store", b)
  /\ b \in Tpms
  /\ \/ PutSecret(p, b, "file", sealing[p].secret, "context")
     \/ Storing(b) # {p} /\ PutSecret(p, b, "file", Torn, "context")

\* Mutant of LoadObject: as at a load, only a context that is missing is made.
LoadAbsentObject(p, b) ==
  /\ Sealing(p, "context", b)
  /\ Loadable(b)
  /\ PutSecret(p, b, "store", IF kept[b].store = NoSecret THEN kept[b].file ELSE kept[b].store, "save")

\* tpm2_load, of the object that is there
LoadObject(p, b) ==
  /\ Sealing(p, "context", b)
  /\ Loadable(b)
  /\ PutSecret(p, b, "store", kept[b].file, "save")

StoreSecret(p, b, reached) ==
  /\ \/ StoreAtOnce(p, b, reached)
     \/ EmptyPlace(p, b, reached) \/ FillPlace(p, b)
     \/ SealObject(p, b) \/ LoadObject(p, b)
  /\ UNCHANGED <<seals, contested>>

\* A tpm2 command is cut off while it writes.
TearObject(p, b) ==
  /\ Sealing(p, "store", b) /\ b \in Tpms
  /\ kept' = [kept EXCEPT ![b].file = Torn]

TearContext(p, b) ==
  /\ \/ Sealing(p, "context", b) /\ Loadable(b)
     \/ Sealing(p, "load", b) /\ ToLoad(b)
  /\ kept' = [kept EXCEPT ![b].store = Torn]

\* A step fails, or the process dies.
AbandonSeal(p) ==
  /\ sealing[p].at # "rest"
  /\ \/ UNCHANGED kept
     \/ \E b \in Tpms : TearObject(p, b) \/ TearContext(p, b)
  /\ StopSealing(p)
  /\ UNCHANGED <<seals, contested>>

-----------------------------------------------------------------------------
\* The vault is saved with the factor, unless it was changed meanwhile.
SaveSeal(p) ==
  /\ sealing[p].at = "save"
  /\ seals[sealing[p].vault] = NoSeal
  /\ seals' = [seals EXCEPT ![sealing[p].vault] =
                 [backend |-> sealing[p].backend, key |-> sealing[p].secret]]
  /\ StopSealing(p)
  /\ UNCHANGED <<kept, contested>>

\* device remove, by somebody who has unlocked the vault; the secret stays.
RemoveSeal(v) ==
  /\ seals[v] # NoSeal
  /\ Unseals(v)
  /\ seals' = [seals EXCEPT ![v] = NoSeal]
  /\ UNCHANGED <<kept, sealing, contested>>

\* Every vault is sealed with a secret that is lost: no command opens one any more.
AllLost ==
  /\ \A v \in SealedVaults : ~Unseals(v)
  /\ \A p \in Sealers : sealing[p].at = "rest"
  /\ UNCHANGED sealVars

SealNext ==
  \/ AllLost
  \/ \E p \in Sealers :
       \/ \E v \in SealedVaults, b \in SealBackends : StartSeal(p, v, b)
       \/ \E b \in SealBackends, reached \in BOOLEAN :
            LoadSecret(p, b, reached) \/ StoreSecret(p, b, reached)
       \/ SaveSeal(p) \/ AbandonSeal(p)
  \/ \E v \in SealedVaults : RemoveSeal(v)

SealSpec == SealInit /\ [][SealNext]_sealVars

-----------------------------------------------------------------------------
\* A sealed vault that no longer opens was sealed with a secret that was there, or was being
\* stored, when some sealing read none and made another, or with one that was made or read
\* while others were being stored.  Stores that fail or die midway lose nothing else,
\* and a vault sealed by the only process at a backend holds although it replaced a
\* secret that was out of reach (but for a fallback file behind an item that is back).
SealsHold ==
  \A v \in SealedVaults :
    seals[v] # NoSeal /\ seals[v].key \notin contested[seals[v].backend] => Unseals(v)
===============================================================================
