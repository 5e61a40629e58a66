------------------------------ MODULE MC_Security ------------------------------
(***************************************************************************)
(* Small instances of ProfilePolicies, PassphraseCache, RecoveryShares,    *)
(* VaultBackups and RemoteRequests, for one run: what `sshenv security`    *)
(* keeps in and around a vault.  A behaviour is one of one component; the  *)
(* others stay as they are.                                                *)
(***************************************************************************)
EXTENDS ProfilePolicies, PassphraseCache, RecoveryShares, VaultBackups,
        RemoteRequests

CONSTANT ops            \* the name of a set of recovery shares

VARIABLE part

\* A data key of one byte, the one it is rotated to, and what is drawn for shares.
KeyBytes  == <<{0, 2, 7}, {1, 2, 3, 5}>>
DrawBytes == {{3}, {0, 6, 7}}
OneSet    == {<<ops>>}
LabelSeq  == <<"alice", "bob", "carol", "bob">>

Init ==
  /\ part \in {"policies", "cache", "shares", "backups", "remote"}
  /\ PolicyInit /\ (part # "policies" => ~backend)
  /\ ShareInit  /\ (part # "shares" => ~lines)
  /\ BackupInit /\ (part # "backups" => ~synced)
  /\ CacheInit
  /\ RemoteInit

Next ==
  /\ UNCHANGED part
  /\ \/ part = "policies" /\ PolicyNext /\ UNCHANGED <<cacheVars, shareVars, backupVars, remoteVars>>
     \/ part = "cache"    /\ CacheNext  /\ UNCHANGED <<policyVars, shareVars, backupVars, remoteVars>>
     \/ part = "shares"   /\ ShareNext  /\ UNCHANGED <<policyVars, cacheVars, backupVars, remoteVars>>
     \/ part = "backups"  /\ BackupNext /\ UNCHANGED <<policyVars, cacheVars, shareVars, remoteVars>>
     \/ part = "remote"   /\ RemoteNext /\ UNCHANGED <<policyVars, cacheVars, shareVars, backupVars>>

vars == <<policyVars, cacheVars, shareVars, backupVars, remoteVars, part>>

\* Time passes, as PassphraseCache asks; where the cache stands still there is no
\* entry whose time could pass.
Spec == Init /\ [][Next]_vars /\ CacheFairness
=============================================================================
