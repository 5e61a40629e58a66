---------------------------- MODULE MC_Rollback ----------------------------
(* Rollback and the history of its records, for TLC. *)
EXTENDS RollbackRecords, TLC

\* Commands are interchangeable; so are vaults.
Symmetry == Permutations(Procs) \cup Permutations(Paths)

\* For the run with restores: one of the vaults at most is copied and restored, while
\* the other is only opened and saved.
Within == \A v, w \in Paths : copies[v] # {} /\ copies[w] # {} => v = w

BoundedSpec == RecordsInit /\ [][RecordsNext /\ Within']_<<vars, settled>>
==============================================================================
