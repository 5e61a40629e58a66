-------------------------- MODULE MC_VaultCommands --------------------------
(***************************************************************************)
(* Small instances of VaultCommands.                                       *)
(***************************************************************************)
EXTENDS VaultCommands, TLC

Symmetry ==
  Permutations(Recipients) \cup Permutations(DataKeys) \cup Permutations(ProfileKeys)
    \cup Permutations(FactorIds) \cup Permutations(Passphrases) \cup Permutations(Profiles)
=============================================================================
