------------------------------ MODULE Reminders ------------------------------
(***************************************************************************)
(* Rotation reminders.  Whoever was a recipient of a vault knows its data  *)
(* key until the key is rotated; `remove-recipient` without --rotate       *)
(* leaves a reminder in security-state.toml, which a rotation takes away.  *)
(* One file holds the reminders of all vaults; it is read, changed and     *)
(* written back without a lock, after the vault was saved (VaultFile shows *)
(* that a load and a save of the vault are one step).                      *)
(***************************************************************************)
EXTENDS FiniteSets

CONSTANTS ReminderProcs,      \* commands that run at a time
          ReminderVaults,
          NoVault             \* not a vault

ASSUME NoVaultAssumption == NoVault \notin ReminderVaults

VARIABLES second,             \* the vaults with a recipient more than one
          exposed,            \* the vaults whose data key a removed recipient knows
          reminders,          \* the vaults with a reminder in security-state.toml
          updating,           \* what each command is at
          settled             \* history: the vaults whose last command ended alone

reminderVars == <<second, exposed, reminders, updating, settled>>

\* advise: whether the reminder is to be there; view: the file as it was read;
\* alone: nobody else changed a vault or the file since this command began
Updating(at, v, advise) == [at |-> at, vault |-> v, advise |-> advise, view |-> {}, alone |-> FALSE]
Resting    == Updating("rest", NoVault, FALSE)
Busy       == {q \in ReminderProcs : updating[q].at # "rest"}

ReminderInit ==
  /\ second = {}
  /\ exposed = {}
  /\ reminders = {}
  /\ updating = [p \in ReminderProcs |-> Resting]
  /\ settled = ReminderVaults

With(set, x, is) == IF is THEN set \cup {x} ELSE set \ {x}

-----------------------------------------------------------------------------
AddRecipient(v) ==
  /\ second' = second \cup {v}
  /\ UNCHANGED <<exposed, reminders, updating, settled>>

\* The vault is saved.  It is settled again when its reminder is written.
Saved(p, v, known) ==
  /\ updating[p].at = "rest"
  /\ exposed' = With(exposed, v, known)
  /\ updating' = [q \in ReminderProcs |->
                    IF q = p THEN [Updating("read", v, known) EXCEPT !.alone = Busy = {}]
                             ELSE [updating[q] EXCEPT !.alone = FALSE]]
  /\ settled' = settled \ {v}
  /\ UNCHANGED reminders

\* remove-recipient refuses the last one; with --rotate the data key changes.
RemoveRecipient(p, v) ==
  /\ v \in second
  /\ second' = second \ {v}
  /\ \E rotate \in BOOLEAN : Saved(p, v, ~rotate)

RotateKey(p, v) == Saved(p, v, FALSE) /\ UNCHANGED second

ReadState(p) ==
  /\ updating[p].at = "read"
  /\ updating' = [updating EXCEPT ![p].at = "write", ![p].view = reminders]
  /\ UNCHANGED <<second, exposed, reminders, settled>>

(* Mutant: the file is written with the one record. *)
WriteOneRecord(p) ==
  /\ updating[p].at = "write"
  /\ reminders' = With({}, updating[p].vault, updating[p].advise)
  /\ updating' = [updating EXCEPT ![p] = Resting]
  /\ settled' = With(settled, updating[p].vault, updating[p].alone)
  /\ UNCHANGED <<second, exposed>>

WriteState(p) ==
  /\ updating[p].at = "write"
  /\ reminders' = With(updating[p].view, updating[p].vault, updating[p].advise)
  /\ updating' = [updating EXCEPT ![p] = Resting]
  /\ settled' = With(settled, updating[p].vault, updating[p].alone)
  /\ UNCHANGED <<second, exposed>>

\* The command dies, or the file cannot be read or written: the vault is saved,
\* the reminder is as it was.
StopUpdate(p) ==
  /\ updating[p].at # "rest"
  /\ updating' = [updating EXCEPT ![p] = Resting]
  /\ UNCHANGED <<second, exposed, reminders, settled>>

\* restore-backup knows no reminders: a copy may bring a key back that was rotated
\* away, or a recipient.
RestoreCopy(v) ==
  /\ \E known, more \in BOOLEAN : exposed' = With(exposed, v, known) /\ second' = With(second, v, more)
  /\ updating' = [q \in ReminderProcs |-> [updating[q] EXCEPT !.alone = FALSE]]
  /\ settled' = settled \ {v}
  /\ UNCHANGED reminders

ReminderNext ==
  \/ \E v \in ReminderVaults : AddRecipient(v) \/ RestoreCopy(v)
  \/ \E p \in ReminderProcs :
       \/ \E v \in ReminderVaults : RemoveRecipient(p, v) \/ RotateKey(p, v)
       \/ ReadState(p) \/ WriteState(p) \/ StopUpdate(p)

ReminderSpec == ReminderInit /\ [][ReminderNext]_reminderVars

-----------------------------------------------------------------------------
\* A vault whose last command had the file for itself and ended has the reminder it
\* should have: commands on other vaults, overlapping and dying as they like, neither
\* take a reminder away nor bring one back.  A lost reminder is put right by the next
\* rotation or removal.
SettledRemindersAreRight ==
  \A v \in settled : v \in reminders <=> v \in exposed
==============================================================================
