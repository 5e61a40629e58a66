----------------------------- MODULE MC_Processes -----------------------------
(***************************************************************************)
(* Small instances of Sessions, Shims, Reminders, DeviceSeal,              *)
(* OperationFactors and Rollback, for one run: what processes share beside *)
(* the vault, files and key stores that have nothing to do with each       *)
(* other.  A behaviour is one of one component; the others stay as they    *)
(* are.  Rollback is here for commands that come one at a time, restores   *)
(* included, on one vault and rollback.toml alone.                         *)
(***************************************************************************)
EXTENDS Sessions, Shims, Reminders, DeviceSeal, OperationFactors, Rollback, TLC

VARIABLE part

\* The names n1 to n4 stand for process-start tokens in Sessions, for profiles in
\* Shims, for vaults in Reminders, for secrets in DeviceSeal and for keys in
\* OperationFactors, so that one symmetry serves them all.
CONSTANTS p1, p2, p3, n1, n2, n3, n4

Symmetry == Permutations({p1, p2}) \cup Permutations({n1, n2, n3, n4})

\* Nothing sets a directory for the shims.
NoDir == {[primary |-> Absent, fragment |-> Absent]}

\* Where Shims and Reminders stay when another component moves: states of theirs
\* that the symmetry does not change.
ShimsRest ==
  /\ ShimInit /\ fragment = <<>>
  /\ \A d \in Dirs, c \in ShimCommands : files[d][c] = Absent

RemindersRest ==
  /\ second = {} /\ exposed = {} /\ reminders = {} /\ settled = {}
  /\ updating = [p \in ReminderProcs |-> Resting]

ProcessesInit ==
  /\ SessionInit /\ SealInit /\ OperationInit /\ Init
  /\ \/ part \in {"sessions", "seals", "operations", "restores"} /\ ShimsRest /\ RemindersRest
     \/ part = "shims"     /\ ShimInit  /\ RemindersRest
     \/ part = "reminders" /\ ShimsRest /\ ReminderInit

fileVars  == <<sessionVars, shimVars, reminderVars>>
otherVars == <<sealVars, operationVars, vars>>

ProcessesNext ==
  /\ UNCHANGED part
  /\ \/ part = "sessions"   /\ SessionNext   /\ UNCHANGED <<shimVars, reminderVars, otherVars>>
     \/ part = "shims"      /\ ShimNext      /\ UNCHANGED <<sessionVars, reminderVars, otherVars>>
     \/ part = "reminders"  /\ ReminderNext  /\ UNCHANGED <<sessionVars, shimVars, otherVars>>
     \/ part = "seals"      /\ SealNext      /\ UNCHANGED <<fileVars, operationVars, vars>>
     \/ part = "operations" /\ OperationNext /\ UNCHANGED <<fileVars, sealVars, vars>>
     \/ part = "restores"   /\ Next          /\ UNCHANGED <<fileVars, sealVars, operationVars>>

ProcessesSpec == ProcessesInit /\ [][ProcessesNext]_<<fileVars, otherVars, part>>
=============================================================================
