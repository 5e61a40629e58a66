----------------------------- MODULE MC_Commands -----------------------------
(***************************************************************************)
(* The commands that change a vault, in four settings that are checked by  *)
(* one run: each has its own commands and its own sizes, and a behaviour   *)
(* stays in the one it starts in.  Three are instances of VaultCommands:   *)
(*                                                                         *)
(*   "factors"   the vault-wide side: recipients, rotations and factors of *)
(*               the vault, over one profile with every policy             *)
(*   "profiles"  the profile side: two profiles, their entries, keys,      *)
(*               policies and names, the commands and the library's store; *)
(*               factors of profiles only                                  *)
(*   "plain"     a vault without profile keys: every command on variables  *)
(*               and profiles, two variables each, and factors of the      *)
(*               vault, remote ones too                                    *)
(*                                                                         *)
(* and one looks closer at what they take as given:                        *)
(*                                                                         *)
(*   "recipients" RecipientKeys: whose private keys open the vault         *)
(***************************************************************************)
EXTENDS VaultCommands, RecipientKeys, TLC

CONSTANTS p1, p2, x, r1, r2, k1, k2, e1, e2, e3, i1, i2, i3, i4, i5, a, b, m1

VARIABLE setting

OfVault == INSTANCE VaultCommands WITH
  Profiles <- {p1}, Vars <- {x}, Values <- {1, 2}, Recipients <- {r1, r2},
  DataKeys <- {k1, k2}, ProfileKeys <- {e1, e2}, FactorIds <- {i1, i2, i3, i4, i5},
  Passphrases <- {a, b}, RemoteIds <- {m1},
  Commands <- {"recipients", "rotate", "passphrase", "device", "policies"}

OfProfiles == INSTANCE VaultCommands WITH
  Profiles <- {p1, p2}, Vars <- {x}, Values <- {1, 2}, Recipients <- {r1},
  DataKeys <- {k1, k2}, ProfileKeys <- {e1, e2, e3}, FactorIds <- {i1, i2, i3, i4, i5},
  Passphrases <- {a}, RemoteIds <- {m1},
  Commands <- {"rotate", "store", "replace", "rename", "policies", "remote-metadata"}

\* A machine with one private key file, of any kind and anywhere; one with a second
\* file, configured and in order; and one with the identity of a plugin.
OnlyAt(place, f) == [q \in Places |-> IF q = place THEN f ELSE NoFile]
InOrder(k)       == [key |-> k, pub |-> k, encrypted |-> TRUE]
Machine(files, tokens, deny, attended) ==
  [files |-> files, tokens |-> tokens, deny |-> deny, attended |-> attended]
SomeMachines ==
  {Machine(OnlyAt("default", f), {}, d, w) : f \in KeyFiles, d \in BOOLEAN, w \in BOOLEAN}
    \cup {Machine(OnlyAt(place, f), {}, FALSE, TRUE) : f \in KeyFiles, place \in {"other", "config"}}
    \cup {Machine([OnlyAt("config", InOrder(k)) EXCEPT !["default"] = f], {}, TRUE, TRUE) :
             f \in KeyFiles, k \in SshKeys}
    \cup {Machine(OnlyAt("default", NoFile), PluginKeys, TRUE, FALSE)}

Init ==
  /\ \/ setting = "factors"  /\ OfVault!CommandsInit
     \/ setting = "profiles" /\ OfProfiles!CommandsInit
     \/ setting \in {"plain", "recipients"} /\ CommandsInit
  /\ RecipientInit /\ (setting # "recipients" => granted = {r1})

Next ==
  /\ UNCHANGED setting
  /\ \/ setting = "factors"    /\ OfVault!CommandsNext    /\ UNCHANGED recipientVars
     \/ setting = "profiles"   /\ OfProfiles!CommandsNext /\ UNCHANGED recipientVars
     \/ setting = "plain"      /\ CommandsNext            /\ UNCHANGED recipientVars
     \/ setting = "recipients" /\ RecipientNext           /\ UNCHANGED commandsVars

vars == <<commandsVars, recipientVars, setting>>
Spec == Init /\ [][Next]_vars

Symmetry == Permutations({e1, e2, e3})
              \cup Permutations({i1, i2, i3, i4, i5})

-----------------------------------------------------------------------------
(* A vault without profile keys is the map of profiles that ProfileStore       *)
(* promises.                                                                   *)
PlainStore == INSTANCE ProfileStore WITH
  store <- IF setting = "plain" THEN StoreOf(disk) ELSE <<>>
PlainRefinesStore == PlainStore!Spec
=============================================================================
