-------------------------- MODULE Rollback_proofs --------------------------
(***************************************************************************)
(* Rollback, for all commands, vaults and bounds.                           *)
(*                                                                          *)
(* Typing is inductive.  NoLockout follows from IInv: generations on disk   *)
(* never fall while nothing puts an older copy back, so what a command has  *)
(* read stays a lower bound of them until it writes it to a baseline.       *)
(* RefusesOlder rests on the external counter, which is raised in the step  *)
(* that completes a recording and which the last check compares with.       *)
(* RecordsStand is for commands that overlap: whoever is half-way through   *)
(* rollback.toml holds nothing below what was there when nobody was.        *)
(* RestoredV2VaultsOpen is for one command at a time: it writes on what is  *)
(* still as it has read it.                                                 *)
(***************************************************************************)
EXTENDS RollbackRecords, TLAPS

\* The parts of the state that a step of a command is made of.
LEMMA NoCommandTyped == NoCommand \in CommandStates
  BY RollbackAssumption DEF NoCommand, CommandStates, NewVault, NoRecord, Files, Baselines

LEMMA StepTyped ==
  ASSUME TypeOK, NEW p \in Procs, NEW c \in CommandStates, cmd' = [cmd EXCEPT ![p] = c]
  PROVE  cmd' \in [Procs -> CommandStates]
  BY DEF TypeOK

LEMMA FinishTyped ==
  ASSUME TypeOK, NEW p \in Procs, Finish(p)
  PROVE  cmd' \in [Procs -> CommandStates]
  BY NoCommandTyped DEF TypeOK, Finish

LEMMA GotoTyped ==
  ASSUME TypeOK, NEW p \in Procs,
         NEW step \in {"idle", "unlock", "opened"} \cup Checks \cup Recording \cup Restoring,
         Goto(p, step)
  PROVE  cmd' \in [Procs -> CommandStates]
  BY DEF TypeOK, Goto, CommandStates

LEMMA RaisedTyped ==
  ASSUME NEW baseline \in Baselines, NEW v \in Paths, NEW g \in Nat
  PROVE  /\ Raised(baseline, v, g) \in Baselines
         /\ \A w \in Paths : baseline[w] <= Raised(baseline, v, g)[w]
         /\ g <= Raised(baseline, v, g)[v]
         /\ \A w \in Paths : Raised(baseline, v, g)[w] \in {baseline[w], g}
         /\ \A w \in Paths \ {v} : Raised(baseline, v, g)[w] = baseline[w]
  BY DEF Baselines, Raised, Larger

LEMMA CommandTyped ==
  ASSUME TypeOK, NEW p \in Procs
  PROVE  /\ cmd[p] \in CommandStates
         /\ Gen(p) \in Nat
         /\ cmd[p].loaded \in Files
         /\ cmd[p].snapshot \in Baselines
         /\ cmd[p].target \in Nat
  BY DEF TypeOK, CommandStates, Gen, Files

LEMMA ProceedTyped ==
  ASSUME TypeOK, NEW p \in Procs, cmd[p].path \in Paths,
         NEW next \in {"readsynced", "count", "done"}, Proceed(p, next)
  PROVE  cmd' \in [Procs -> CommandStates] /\ recorded' \in Baselines
<1>1. CASE next # "done"
  BY <1>1, GotoTyped DEF Proceed, Recording, TypeOK
<1>2. CASE next = "done"
  <2>1. recorded' \in Baselines
    BY <1>2, CommandTyped, RaisedTyped DEF Proceed, TypeOK
  <2>2. CASE cmd[p].saved
    BY <1>2, <2>1, <2>2, FinishTyped DEF Proceed
  <2>3. CASE ~cmd[p].saved
    <3> DEFINE c == [cmd[p] EXCEPT !.at = "opened", !.target = 0, !.snapshot = NoRecord]
    <3>1. c \in CommandStates
      BY CommandTyped DEF CommandStates, NoRecord, Baselines
    <3>2. cmd' \in [Procs -> CommandStates]
      BY <1>2, <2>3, <3>1, StepTyped DEF Proceed, TypeOK
    <3> QED BY <2>1, <3>2
  <2> QED BY <2>2, <2>3
<1> QED BY <1>1, <1>2

------------------------------------------------------------------------------
\* The type invariant: commands, vaults, baselines and histories stay what
\* they are, whatever the configuration.
THEOREM Typing == Spec => []TypeOK
<1>1. Init => TypeOK
  BY NoCommandTyped DEF Init, TypeOK, Files, Baselines, NewVault, NoRecord
<1>2. TypeOK /\ [Next]_vars => TypeOK'
  <2> SUFFICES ASSUME TypeOK, [Next]_vars PROVE TypeOK'
    OBVIOUS
  <2>1. ASSUME NEW p \in Procs, NEW v \in Paths, Open(p, v) PROVE TypeOK'
    <3>1. disk[v] \in Files
      BY DEF TypeOK
    <3>2. cmd' \in [Procs -> CommandStates]
      BY <2>1, <3>1, NoCommandTyped DEF Open, TypeOK, CommandStates, NoCommand, Checks
    <3> QED BY <2>1, <3>2 DEF Open, TypeOK
  <2>2. ASSUME NEW p \in Procs, NEW v \in Paths, StartRestore(p, v) PROVE TypeOK'
    <3>1. PICK copy \in copies[v] :
            cmd' = [cmd EXCEPT ![p] =
                [NoCommand EXCEPT !.at = "copy", !.path = v, !.loaded = copy]]
      BY <2>2 DEF StartRestore
    <3>2. copy \in Files
      BY DEF TypeOK
    <3>3. [NoCommand EXCEPT !.at = "copy", !.path = v, !.loaded = copy] \in CommandStates
      BY <3>2, NoCommandTyped DEF CommandStates, Restoring
    <3>4. cmd' \in [Procs -> CommandStates]
      BY <3>1, <3>3, StepTyped
    <3> QED BY <2>2, <3>4 DEF StartRestore, TypeOK
  <2>3. ASSUME NEW p \in Procs, NEW step, NEW baseline,
               NEW next \in {"checksynced", "checkcounter", "unlock"},
               CheckGeneration(p, step, baseline, next)
        PROVE  TypeOK'
    <3>1. cmd' \in [Procs -> CommandStates]
      BY <2>3, FinishTyped, GotoTyped DEF CheckGeneration, Checks
    <3> QED BY <2>3, <3>1 DEF CheckGeneration, TypeOK
  <2>4. ASSUME NEW p \in Procs, Opening(p) PROVE TypeOK'
    <3>1. CASE CheckLocal(p)
      BY <3>1, <2>3 DEF CheckLocal, AfterLocal, AfterSynced
    <3>2. CASE CheckSynced(p)
      BY <3>2, <2>3 DEF CheckSynced, AfterSynced
    <3>3. CASE CheckCounter(p)
      BY <3>3, <2>3 DEF CheckCounter
    <3>4. CASE Unlock(p)
      <4>1. cmd' \in [Procs -> CommandStates]
        BY <3>4, GotoTyped DEF Unlock, Recording
      <4> QED BY <3>4, <4>1 DEF Unlock, TypeOK
    <3> QED BY <2>4, <3>1, <3>2, <3>3, <3>4 DEF Opening
  <2>5. ASSUME NEW p \in Procs, NEW step, NEW baseline \in Baselines,
               NEW next \in {"writebase", "writesynced", "writeexact"},
               Read(p, step, baseline, next)
        PROVE  TypeOK'
    <3>1. [cmd[p] EXCEPT !.at = next, !.snapshot = baseline] \in CommandStates
      BY CommandTyped DEF CommandStates, Recording, Restoring
    <3>2. cmd' \in [Procs -> CommandStates]
      BY <2>5, <3>1, StepTyped DEF Read, TypeOK
    <3> QED BY <2>5, <3>2 DEF Read, TypeOK
  <2>6. ASSUME NEW p \in Procs, RecordStep(p) PROVE TypeOK'
    <3>1. CASE ReadBase(p)
      <4>1. Larger(base[cmd[p].path], Gen(p)) \in Nat
        BY <3>1, CommandTyped DEF ReadBase, At, Larger, TypeOK, Baselines
      <4>2. [cmd[p] EXCEPT !.at = "rereadbase",
                           !.target = Larger(base[cmd[p].path], Gen(p))] \in CommandStates
        BY <4>1, CommandTyped DEF CommandStates, Recording
      <4>3. cmd' \in [Procs -> CommandStates]
        BY <3>1, <4>2, StepTyped DEF ReadBase, TypeOK
      <4> QED BY <3>1, <4>3 DEF ReadBase, TypeOK
    <3>2. CASE RereadBase(p)
      BY <3>2, <2>5 DEF RereadBase, TypeOK
    <3>3. CASE WriteBase(p)
      <4>1. cmd' \in [Procs -> CommandStates] /\ recorded' \in Baselines
        BY <3>3, ProceedTyped DEF WriteBase, At, AfterWriteBase, AfterWriteSynced
      <4>2. base' \in Baselines
        BY <3>3, CommandTyped DEF WriteBase, Baselines
      <4> QED BY <3>3, <4>1, <4>2 DEF WriteBase, TypeOK
    <3>4. CASE ReadSynced(p)
      BY <3>4, <2>5 DEF ReadSynced, TypeOK
    <3>5. CASE WriteSynced(p)
      <4>1. cmd' \in [Procs -> CommandStates] /\ recorded' \in Baselines
        BY <3>5, ProceedTyped DEF WriteSynced, At, AfterWriteSynced
      <4>2. synced' \in Baselines
        BY <3>5, CommandTyped, RaisedTyped DEF WriteSynced, At
      <4> QED BY <3>5, <4>1, <4>2 DEF WriteSynced, TypeOK
    <3>6. CASE Count(p)
      <4>1. cmd' \in [Procs -> CommandStates] /\ recorded' \in Baselines
        BY <3>6, ProceedTyped DEF Count, At
      <4>2. counter' \in Baselines
        BY <3>6, CommandTyped, RaisedTyped DEF Count, At, TypeOK
      <4> QED BY <3>6, <4>1, <4>2 DEF Count, TypeOK
    <3> QED BY <2>6, <3>1, <3>2, <3>3, <3>4, <3>5, <3>6 DEF RecordStep
  <2>7. ASSUME NEW p \in Procs, Saving(p) PROVE TypeOK'
    <3>1. CASE Close(p)
      BY <3>1, FinishTyped DEF Close, TypeOK
    <3>2. CASE SaveConflict(p)
      BY <3>2, FinishTyped DEF SaveConflict, TypeOK
    <3>3. CASE Save(p)
      <4>1. PICK g \in Bumped(Gen(p)) :
              /\ Put(cmd[p].path, [gen |-> g, id |-> saves + 1])
              /\ IF g = 0
                 THEN Finish(p)
                 ELSE cmd' = [cmd EXCEPT ![p] =
                          [@ EXCEPT !.at = "readbase",
                                    !.loaded = [gen |-> g, id |-> saves + 1],
                                    !.saved = TRUE]]
        BY <3>3 DEF Save
      <4> DEFINE file == [gen |-> g, id |-> saves + 1]
      <4>2. file \in Files
        BY CommandTyped DEF Bumped, Files, TypeOK
      <4>3. disk' \in [Paths -> Files]
        BY <4>1, <4>2 DEF Put, TypeOK
      <4>6. saves' \in Nat
        BY <3>3 DEF Save, TypeOK
      <4>4. [cmd[p] EXCEPT !.at = "readbase", !.loaded = file, !.saved = TRUE] \in CommandStates
        BY <4>2, CommandTyped DEF CommandStates, Recording
      <4>5. cmd' \in [Procs -> CommandStates]
        <5>1. CASE g = 0
          BY <4>1, <5>1, FinishTyped
        <5>2. CASE g # 0
          BY <4>1, <4>4, <5>2, StepTyped
        <5> QED BY <5>1, <5>2
      <4> QED BY <3>3, <4>3, <4>5, <4>6 DEF Save, TypeOK
    <3> QED BY <2>7, <3>1, <3>2, <3>3 DEF Saving
  <2>8. ASSUME NEW p \in Procs, RestoreStep(p) PROVE TypeOK'
    <3>1. CASE CopyAside(p)
      <4>1. cmd' \in [Procs -> CommandStates]
        BY <3>1, GotoTyped DEF CopyAside, Restoring
      <4> QED BY <3>1, <4>1 DEF CopyAside, At, TypeOK
    <3>2. CASE Overwrite(p)
      <4>1. cmd' \in [Procs -> CommandStates]
        BY <3>2, FinishTyped, GotoTyped DEF Overwrite, Restoring
      <4> QED BY <3>2, <4>1, CommandTyped DEF Overwrite, Put, TypeOK
    <3>3. CASE RereadExact(p)
      BY <3>3, <2>5 DEF RereadExact, TypeOK
    <3>4. CASE WriteExact(p)
      <4>1. base' \in Baselines /\ recorded' \in Baselines
        BY <3>4, CommandTyped DEF WriteExact, Baselines, TypeOK
      <4> QED BY <3>4, <4>1, FinishTyped DEF WriteExact, TypeOK
    <3> QED BY <2>8, <3>1, <3>2, <3>3, <3>4 DEF RestoreStep
  <2>9. ASSUME NEW p \in Procs, Die(p) PROVE TypeOK'
    BY <2>9, FinishTyped DEF Die, TypeOK
  <2>10. ASSUME NEW v \in Paths, World(v) PROVE TypeOK'
    BY <2>10 DEF World, StoreSave, Copy, Replay, Put, TypeOK, Files
  <2>11. CASE UNCHANGED vars
    BY <2>11 DEF vars, TypeOK
  <2> QED
    BY <2>1, <2>2, <2>4, <2>6, <2>7, <2>8, <2>9, <2>10, <2>11 DEF Next
<1> QED BY <1>1, <1>2, PTL DEF Spec

------------------------------------------------------------------------------
\* NoLockout.

\* The generations on disk never fall.
DiskGrows == \A v \in Paths : disk[v].gen <= disk'[v].gen

\* A command c that has not read more than is on disk after the step.
BehindAfter(c) ==
    /\ c.at \notin Restoring
    /\ \A v \in Paths : c.snapshot[v] <= disk'[v].gen
    /\ c.path \in Paths =>
          /\ c.loaded.gen <= disk'[c.path].gen
          /\ c.target <= disk'[c.path].gen

LEMMA DiskTyped ==
  ASSUME TypeOK, NEW v \in Paths
  PROVE  disk[v] \in Files /\ disk[v].gen \in Nat
  BY DEF TypeOK, Files

LEMMA IdleBehind ==
  ASSUME TypeOK'
  PROVE  BehindAfter(NoCommand)
<1>1. \A v \in Paths : disk'[v].gen \in Nat
  BY DEF TypeOK, Files
<1>2. NoCommand.path \notin Paths
  BY RollbackAssumption DEF NoCommand
<1> QED BY <1>1, <1>2 DEF BehindAfter, NoCommand, NoRecord, Restoring

\* A step that only moves one command on keeps all commands behind.
LEMMA StepBehind ==
  ASSUME TypeOK, TypeOK', CommandsAreBehind, DiskGrows,
         NEW p \in Procs, NEW c, BehindAfter(c), cmd' = [cmd EXCEPT ![p] = c]
  PROVE  CommandsAreBehind'
<1> SUFFICES ASSUME NEW q \in Procs
             PROVE  /\ cmd'[q].at \notin Restoring
                    /\ \A v \in Paths : cmd'[q].snapshot[v] <= disk'[v].gen
                    /\ cmd'[q].path \in Paths =>
                          /\ cmd'[q].loaded.gen <= disk'[cmd'[q].path].gen
                          /\ cmd'[q].target <= disk'[cmd'[q].path].gen
  BY DEF CommandsAreBehind, Gen
<1>1. CASE q = p
  BY <1>1 DEF BehindAfter, TypeOK
<1>2. CASE q # p
  <2>1. cmd'[q] = cmd[q]
    BY <1>2 DEF TypeOK
  <2>2. \A v \in Paths : disk[v].gen \in Nat /\ disk'[v].gen \in Nat
    BY DEF TypeOK, Files
  <2>3. /\ cmd[q].loaded.gen \in Nat /\ cmd[q].target \in Nat
        /\ \A v \in Paths : cmd[q].snapshot[v] \in Nat
    BY DEF TypeOK, CommandStates, Files, Baselines
  <2>4. \A v \in Paths : cmd[q].snapshot[v] <= disk'[v].gen
    BY <2>2, <2>3 DEF CommandsAreBehind, DiskGrows
  <2>5. ASSUME cmd[q].path \in Paths
        PROVE  /\ cmd[q].loaded.gen <= disk'[cmd[q].path].gen
               /\ cmd[q].target <= disk'[cmd[q].path].gen
    <3>1. /\ cmd[q].loaded.gen <= disk[cmd[q].path].gen
          /\ cmd[q].target <= disk[cmd[q].path].gen
      BY <2>5 DEF CommandsAreBehind, Gen
    <3>2. disk[cmd[q].path].gen <= disk'[cmd[q].path].gen
      BY <2>5 DEF DiskGrows
    <3> QED BY <2>2, <2>3, <2>5, <3>1, <3>2
  <2>6. cmd[q].at \notin Restoring
    BY DEF CommandsAreBehind
  <2> QED BY <2>1, <2>4, <2>5, <2>6
<1> QED BY <1>1, <1>2

\* The steps that leave the disk alone.
LEMMA GotoBehind ==
  ASSUME TypeOK, TypeOK', CommandsAreBehind, NEW p \in Procs,
         NEW step, step \notin Restoring, Goto(p, step), UNCHANGED disk
  PROVE  CommandsAreBehind'
<1>1. DiskGrows
  BY DiskTyped DEF DiskGrows
<1>2. BehindAfter([cmd[p] EXCEPT !.at = step])
  BY CommandTyped DEF CommandsAreBehind, BehindAfter, Gen, CommandStates
<1>3. cmd' = [cmd EXCEPT ![p] = [cmd[p] EXCEPT !.at = step]]
  BY DEF Goto, TypeOK
<1> QED BY <1>1, <1>2, <1>3, StepBehind

LEMMA FinishBehind ==
  ASSUME TypeOK, TypeOK', CommandsAreBehind, DiskGrows, NEW p \in Procs, Finish(p)
  PROVE  CommandsAreBehind'
  BY IdleBehind, StepBehind DEF Finish

LEMMA ProceedBehind ==
  ASSUME TypeOK, TypeOK', CommandsAreBehind, NEW p \in Procs,
         NEW next \in {"readsynced", "count", "done"}, Proceed(p, next),
         UNCHANGED disk
  PROVE  CommandsAreBehind'
<1>1. DiskGrows
  BY DiskTyped DEF DiskGrows
<1>2. CASE next # "done"
  BY <1>2, GotoBehind DEF Proceed, Restoring
<1>3. CASE next = "done" /\ cmd[p].saved
  BY <1>1, <1>3, FinishBehind DEF Proceed
<1>4. CASE next = "done" /\ ~cmd[p].saved
  <2> DEFINE c == [cmd[p] EXCEPT !.at = "opened", !.target = 0, !.snapshot = NoRecord]
  <2>1. cmd' = [cmd EXCEPT ![p] = c]
    BY <1>4 DEF Proceed
  <2>2. \A v \in Paths : disk'[v].gen \in Nat
    BY DiskTyped
  <2>3. BehindAfter(c)
    BY <2>2, CommandTyped DEF CommandsAreBehind, BehindAfter, Gen, CommandStates,
       Restoring, NoRecord
  <2> QED BY <1>1, <2>1, <2>3, StepBehind
<1> QED BY <1>2, <1>3, <1>4

\* A step that changes neither the disk nor a baseline keeps NoLockout.
LEMMA QuietNoLockout ==
  ASSUME NoLockout, UNCHANGED <<disk, base, synced, counter>>
  PROVE  NoLockout'
  BY DEF NoLockout

\* One of the baselines is written, with nothing above the disk.
LEMMA RaisedNoLockout ==
  ASSUME TypeOK, IInv, NEW p \in Procs, cmd[p].path \in Paths,
         NEW baseline \in Baselines, \A v \in Paths : baseline[v] <= disk[v].gen
  PROVE  \A v \in Paths : Raised(baseline, cmd[p].path, Gen(p))[v] <= disk[v].gen
<1>1. Gen(p) \in Nat /\ Gen(p) <= disk[cmd[p].path].gen
  BY CommandTyped DEF IInv, CommandsAreBehind
<1> SUFFICES ASSUME NEW v \in Paths
             PROVE  Raised(baseline, cmd[p].path, Gen(p))[v] <= disk[v].gen
  OBVIOUS
<1>2. CASE v = cmd[p].path
  BY <1>1, <1>2, RaisedTyped
<1>3. CASE v # cmd[p].path
  BY <1>1, <1>3, RaisedTyped
<1> QED BY <1>2, <1>3

\* The step of IInv, where no older copy is ever put back.
LEMMA BehindStep ==
  ASSUME ~Replays, ~Restores, IInv, [Next]_vars, TypeOK'
  PROVE  NoLockout' /\ CommandsAreBehind'
<1> USE DEF IInv
<1>1. ASSUME NEW p \in Procs, NEW v \in Paths, Open(p, v)
      PROVE  NoLockout' /\ CommandsAreBehind'
  <2> DEFINE c == [NoCommand EXCEPT !.at = IF disk[v].gen = 0 THEN "unlock" ELSE "checklocal",
                               !.path = v, !.loaded = disk[v]]
  <2>1. cmd' = [cmd EXCEPT ![p] = c] /\ UNCHANGED <<disk, base, synced, counter>>
    BY <1>1 DEF Open
  <2>2. DiskGrows
    BY <2>1, DiskTyped DEF DiskGrows
  <2>3. BehindAfter(c)
    BY <2>1, DiskTyped DEF BehindAfter, NoCommand, NoRecord, Restoring
  <2> QED BY <2>1, <2>2, <2>3, StepBehind, QuietNoLockout
<1>2. ASSUME NEW p \in Procs, NEW step, NEW baseline,
             NEW next \in {"checksynced", "checkcounter", "unlock"},
             CheckGeneration(p, step, baseline, next)
      PROVE  NoLockout' /\ CommandsAreBehind'
  <2>1. DiskGrows
    BY <1>2, DiskTyped DEF CheckGeneration, DiskGrows
  <2> QED BY <1>2, <2>1, GotoBehind, FinishBehind, QuietNoLockout DEF CheckGeneration, Restoring
<1>3. ASSUME NEW p \in Procs, Opening(p) PROVE NoLockout' /\ CommandsAreBehind'
  <2>1. CASE CheckLocal(p)
    BY <1>2, <2>1 DEF CheckLocal, AfterLocal, AfterSynced
  <2>2. CASE CheckSynced(p)
    BY <1>2, <2>2 DEF CheckSynced, AfterSynced
  <2>3. CASE CheckCounter(p)
    BY <1>2, <2>3 DEF CheckCounter
  <2>4. CASE Unlock(p)
    BY <2>4, GotoBehind, QuietNoLockout DEF Unlock, Restoring
  <2> QED BY <1>3, <2>1, <2>2, <2>3, <2>4 DEF Opening
<1>4. ASSUME NEW p \in Procs, NEW step, NEW baseline \in Baselines,
             \A v \in Paths : baseline[v] <= disk[v].gen,
             NEW next \in {"writebase", "writesynced"},
             Read(p, step, baseline, next)
      PROVE  NoLockout' /\ CommandsAreBehind'
  <2> DEFINE c == [cmd[p] EXCEPT !.at = next, !.snapshot = baseline]
  <2>1. cmd' = [cmd EXCEPT ![p] = c] /\ UNCHANGED <<disk, base, synced, counter>>
    BY <1>4 DEF Read
  <2>2. DiskGrows
    BY <2>1, DiskTyped DEF DiskGrows
  <2>3. BehindAfter(c)
    BY <1>4, <2>1, CommandTyped
       DEF CommandsAreBehind, BehindAfter, Gen, CommandStates, Restoring
  <2> QED BY <2>1, <2>2, <2>3, StepBehind, QuietNoLockout
<1>5. ASSUME NEW p \in Procs, RecordStep(p) PROVE NoLockout' /\ CommandsAreBehind'
  <2>1. CASE ReadBase(p)
    <3> DEFINE larger == Larger(base[cmd[p].path], Gen(p))
               c == [cmd[p] EXCEPT !.at = "rereadbase", !.target = larger]
    <3>1. cmd' = [cmd EXCEPT ![p] = c] /\ UNCHANGED <<disk, base, synced, counter>>
      BY <2>1 DEF ReadBase
    <3>2. DiskGrows
      BY <3>1, DiskTyped DEF DiskGrows
    <3>3. larger <= disk[cmd[p].path].gen
      BY <2>1 DEF ReadBase, At, Larger, NoLockout, CommandsAreBehind
    <3>4. BehindAfter(c)
      BY <3>1, <3>3, CommandTyped
         DEF CommandsAreBehind, BehindAfter, Gen, CommandStates, Restoring
    <3> QED BY <3>1, <3>2, <3>4, StepBehind, QuietNoLockout
  <2>2. CASE RereadBase(p)
    BY <1>4, <2>2 DEF RereadBase, NoLockout, TypeOK
  <2>3. CASE WriteBase(p)
    <3>1. cmd[p].path \in Paths /\ UNCHANGED <<disk, synced, counter>>
      BY <2>3 DEF WriteBase, At
    <3>2. CommandsAreBehind'
      BY <2>3, <3>1, ProceedBehind DEF WriteBase, AfterWriteBase, AfterWriteSynced
    <3>3. \A v \in Paths : base'[v] <= disk[v].gen
      BY <2>3, <3>1, CommandTyped DEF WriteBase, CommandsAreBehind, Baselines
    <3> QED BY <3>1, <3>2, <3>3 DEF NoLockout
  <2>4. CASE ReadSynced(p)
    BY <1>4, <2>4 DEF ReadSynced, NoLockout, TypeOK
  <2>5. CASE WriteSynced(p)
    <3>1. cmd[p].path \in Paths /\ UNCHANGED <<disk, base, counter>>
      BY <2>5 DEF WriteSynced, At
    <3>2. CommandsAreBehind'
      BY <2>5, <3>1, ProceedBehind DEF WriteSynced, AfterWriteSynced
    <3>3. \A v \in Paths : synced'[v] <= disk[v].gen
      BY <2>5, <3>1, CommandTyped, RaisedNoLockout DEF WriteSynced, CommandsAreBehind
    <3> QED BY <3>1, <3>2, <3>3 DEF NoLockout
  <2>6. CASE Count(p)
    <3>1. cmd[p].path \in Paths /\ UNCHANGED <<disk, base, synced>>
      BY <2>6 DEF Count, At
    <3>2. CommandsAreBehind'
      BY <2>6, <3>1, ProceedBehind DEF Count
    <3>3. \A v \in Paths : counter'[v] <= disk[v].gen
      BY <2>6, <3>1, RaisedNoLockout DEF Count, NoLockout, TypeOK
    <3> QED BY <3>1, <3>2, <3>3 DEF NoLockout
  <2> QED BY <1>5, <2>1, <2>2, <2>3, <2>4, <2>5, <2>6 DEF RecordStep
<1>6. ASSUME NEW p \in Procs, Saving(p) PROVE NoLockout' /\ CommandsAreBehind'
  <2>1. CASE Close(p) \/ SaveConflict(p)
    <3>1. DiskGrows
      BY <2>1, DiskTyped DEF Close, SaveConflict, DiskGrows
    <3> QED BY <2>1, <3>1, FinishBehind, QuietNoLockout DEF Close, SaveConflict
  <2>2. CASE Save(p)
    <3> DEFINE v == cmd[p].path
    <3>1. PICK g \in Bumped(Gen(p)) :
            /\ Put(v, [gen |-> g, id |-> saves + 1])
            /\ IF g = 0
               THEN Finish(p)
               ELSE cmd' = [cmd EXCEPT ![p] =
                        [@ EXCEPT !.at = "readbase",
                                  !.loaded = [gen |-> g, id |-> saves + 1],
                                  !.saved = TRUE]]
      BY <2>2 DEF Save
    <3> DEFINE file == [gen |-> g, id |-> saves + 1]
               c == [cmd[p] EXCEPT !.at = "readbase", !.loaded = file, !.saved = TRUE]
    <3>2. v \in Paths /\ disk[v] = cmd[p].loaded /\ UNCHANGED <<base, synced, counter>>
      BY <2>2 DEF Save, At
    <3>3. g \in Nat /\ disk[v].gen <= g
      BY <3>2, CommandTyped DEF Bumped, Gen
    <3>4. disk' = [disk EXCEPT ![v] = file]
      BY <3>1 DEF Put
    <3>5. disk'[v].gen = g /\ \A w \in Paths \ {v} : disk'[w] = disk[w]
      BY <3>2, <3>4 DEF TypeOK
    <3>6. DiskGrows
      BY <3>3, <3>5, DiskTyped DEF DiskGrows
    <3>7. NoLockout'
      BY <3>2, <3>3, <3>5, DiskTyped DEF NoLockout, TypeOK, Baselines
    <3>8. CASE g = 0
      BY <3>1, <3>6, <3>7, <3>8, FinishBehind
    <3>9. CASE g # 0
      <4>1. \A w \in Paths : cmd[p].snapshot[w] <= disk'[w].gen
        BY <3>3, <3>5, CommandTyped, DiskTyped DEF CommandsAreBehind, Baselines
      <4>2. cmd[p].target <= disk'[v].gen
        BY <3>2, <3>3, <3>5, CommandTyped, DiskTyped DEF CommandsAreBehind
      <4>3. /\ c.at = "readbase" /\ c.snapshot = cmd[p].snapshot /\ c.path = v
            /\ c.loaded.gen = g /\ c.target = cmd[p].target
        BY CommandTyped DEF CommandStates
      <4>4. BehindAfter(c)
        BY <3>3, <3>5, <4>1, <4>2, <4>3 DEF BehindAfter, Restoring
      <4> QED BY <3>1, <3>6, <3>7, <3>9, <4>4, StepBehind
    <3> QED BY <3>8, <3>9
  <2> QED BY <1>6, <2>1, <2>2 DEF Saving
<1>7. ASSUME NEW p \in Procs PROVE ~RestoreStep(p)
  BY DEF RestoreStep, CopyAside, Overwrite, RereadExact, WriteExact, Read, At,
         CommandsAreBehind, Restoring
<1>8. ASSUME NEW p \in Procs, Die(p) PROVE NoLockout' /\ CommandsAreBehind'
  <2>1. DiskGrows
    BY <1>8, DiskTyped DEF Die, DiskGrows
  <2> QED BY <1>8, <2>1, FinishBehind, QuietNoLockout DEF Die
<1>9. ASSUME NEW v \in Paths, World(v) PROVE NoLockout' /\ CommandsAreBehind'
  <2>1. /\ \A w \in Paths : disk'[w].gen = disk[w].gen
        /\ UNCHANGED <<cmd, base, synced, counter>>
    BY <1>9, DiskTyped DEF World, StoreSave, Copy, Replay, Put, TypeOK, Files
  <2> QED BY <2>1 DEF NoLockout, CommandsAreBehind, Gen
<1>10. CASE UNCHANGED vars
  BY <1>10 DEF vars, NoLockout, CommandsAreBehind, Gen
<1> QED
  BY <1>1, <1>3, <1>5, <1>6, <1>7, <1>8, <1>9, <1>10 DEF Next, StartRestore

\* IInv is an invariant while nothing puts an older copy back.
LEMMA Invariance == ASSUME ~Replays, ~Restores PROVE Spec => []IInv
<1>1. Init => NoLockout /\ CommandsAreBehind
  BY RollbackAssumption
     DEF Init, NoLockout, CommandsAreBehind, Gen, NewVault, NoRecord, NoCommand, Restoring
<1>2. TypeOK /\ TypeOK' /\ NoLockout /\ CommandsAreBehind /\ [Next]_vars
         => NoLockout' /\ CommandsAreBehind'
  BY BehindStep DEF IInv
<1>3. TypeOK /\ NoLockout /\ CommandsAreBehind => IInv
  BY DEF IInv
<1> QED BY <1>1, <1>2, <1>3, Typing, PTL DEF Spec

\* What it is for: no vault is ever refused for good, for any number of
\* commands and vaults and with any choice of baselines.
THEOREM Lockout == ASSUME ~Replays, ~Restores PROVE Spec => []NoLockout
<1>1. IInv => NoLockout
  BY DEF IInv
<1> QED BY <1>1, Invariance, PTL

------------------------------------------------------------------------------
\* RefusesOlder.

\* The counter stays ahead of what was recorded, whatever copies are put back.
LEMMA CounterLeads == ASSUME Monotonic PROVE Spec => []CounterIsAhead
<1>1. Init => CounterIsAhead
  BY DEF Init, CounterIsAhead, NoRecord
<1>2. TypeOK /\ CounterIsAhead /\ [Next]_vars => CounterIsAhead'
  <2> SUFFICES ASSUME TypeOK, CounterIsAhead, [Next]_vars PROVE CounterIsAhead'
    OBVIOUS
  <2>1. ASSUME UNCHANGED <<counter, recorded>> PROVE CounterIsAhead'
    BY <2>1 DEF CounterIsAhead
  <2>2. ASSUME NEW p \in Procs, WriteBase(p) \/ WriteSynced(p) PROVE CounterIsAhead'
    BY <2>1, <2>2 DEF WriteBase, WriteSynced, AfterWriteBase, AfterWriteSynced, Proceed
  <2>3. ASSUME NEW p \in Procs, Count(p) PROVE CounterIsAhead'
    <3>1. /\ counter'  = Raised(counter, cmd[p].path, Gen(p))
          /\ recorded' = Raised(recorded, cmd[p].path, Gen(p))
      BY <2>3 DEF Count, Proceed
    <3> QED BY <3>1, CommandTyped DEF CounterIsAhead, Raised, Larger, TypeOK, Baselines
  <2>4. ASSUME NEW p \in Procs, WriteExact(p) PROVE CounterIsAhead'
    <3>1. \A v \in Paths : recorded'[v] <= recorded[v]
      BY <2>4, CommandTyped DEF WriteExact, TypeOK, Baselines
    <3>2. \A v \in Paths : recorded'[v] \in Nat
      BY <2>4, CommandTyped DEF WriteExact, TypeOK, Baselines
    <3>3. counter' = counter
      BY <2>4 DEF WriteExact
    <3> QED BY <3>1, <3>2, <3>3 DEF CounterIsAhead, TypeOK, Baselines
  <2>5. ASSUME NEW p \in Procs, Opening(p) \/ Saving(p) \/ Die(p) PROVE CounterIsAhead'
    BY <2>1, <2>5 DEF Opening, CheckLocal, CheckSynced, CheckCounter, CheckGeneration, Unlock,
       Saving, Close, Save, SaveConflict, Die
  <2>6. ASSUME NEW p \in Procs, RecordStep(p) PROVE CounterIsAhead'
    BY <2>1, <2>2, <2>3, <2>6 DEF RecordStep, ReadBase, RereadBase, ReadSynced, Read
  <2>7. ASSUME NEW p \in Procs, RestoreStep(p) PROVE CounterIsAhead'
    BY <2>1, <2>4, <2>7 DEF RestoreStep, CopyAside, Overwrite, RereadExact, Read
  <2>8. ASSUME NEW p \in Procs, NEW v \in Paths, Open(p, v) \/ StartRestore(p, v)
        PROVE  CounterIsAhead'
    BY <2>1, <2>8 DEF Open, StartRestore
  <2>9. ASSUME NEW v \in Paths, World(v) PROVE CounterIsAhead'
    BY <2>1, <2>9 DEF World, StoreSave, Copy, Replay
  <2>10. CASE UNCHANGED vars
    BY <2>1, <2>10 DEF vars
  <2> QED BY <2>5, <2>6, <2>7, <2>8, <2>9, <2>10 DEF Next
<1> QED BY <1>1, <1>2, Typing, PTL DEF Spec

\* Only a step of its own takes a command from a check to the unlock.
LEMMA OthersStay ==
  ASSUME TypeOK, NEW p \in Procs, NEW q \in Procs, p # q, NEW c,
         cmd' = [cmd EXCEPT ![q] = c]
  PROVE  cmd'[p] = cmd[p]
  BY DEF TypeOK

\* With the external counter, a v2 vault older than one that was completely
\* recorded is never opened, whatever interleaves and whoever replaces files:
\* the guarantee that rollback.toml alone cannot give.
THEOREM Refusal == ASSUME Monotonic PROVE Spec => RefusesOlder
<1>1. TypeOK /\ CounterIsAhead /\ [Next]_vars
         => [\A p \in Procs :
               cmd[p].at \in Checks /\ cmd'[p].at = "unlock"
                   => recorded[cmd[p].path] <= Gen(p)]_vars
  <2> SUFFICES ASSUME TypeOK, CounterIsAhead, [Next]_vars, NEW p \in Procs,
                      cmd[p].at \in Checks, cmd'[p].at = "unlock"
               PROVE  recorded[cmd[p].path] <= Gen(p)
    OBVIOUS
  <2>1. cmd' # cmd /\ cmd[p] # NoCommand /\ cmd'[p] # cmd[p]
    BY DEF Checks, NoCommand
  <2>2. PICK q \in Procs :
           \/ \E v \in Paths : Open(q, v) \/ StartRestore(q, v)
           \/ Opening(q) \/ RecordStep(q) \/ Saving(q) \/ RestoreStep(q)
           \/ Die(q)
    BY <2>1 DEF Next, World, StoreSave, Copy, Replay, vars
  <2>3. \E c : cmd' = [cmd EXCEPT ![q] = c]
    BY <2>2 DEF Open, StartRestore, Opening, CheckLocal, CheckSynced, CheckCounter,
       CheckGeneration, Unlock, RecordStep, ReadBase, RereadBase, ReadSynced, Read, WriteBase,
       WriteSynced, Count, Proceed, Saving, Close, Save, SaveConflict, RestoreStep,
       CopyAside, Overwrite, RereadExact, WriteExact, Die, Goto, Finish
  <2>4. q = p
    BY <2>1, <2>3, OthersStay
  <2>5. CheckCounter(p)
    <3>1. ~Die(p) /\ ~Finish(p)
      BY DEF Die, Finish, NoCommand, TypeOK
    <3>2. \A v \in Paths : ~Open(p, v) /\ ~StartRestore(p, v)
      BY <2>1 DEF Open, StartRestore
    <3>3. ~RecordStep(p) /\ ~Saving(p) /\ ~RestoreStep(p) /\ ~Unlock(p)
      BY DEF RecordStep, ReadBase, RereadBase, ReadSynced, Read, WriteBase, WriteSynced,
         Count, Saving, Close, Save, SaveConflict, RestoreStep, CopyAside, Overwrite,
         RereadExact, WriteExact, Unlock, At, Checks
    <3>4. ~Goto(p, "checksynced") /\ ~Goto(p, "checkcounter")
      BY DEF Goto, TypeOK, CommandStates
    <3>5. ~CheckLocal(p) /\ ~CheckSynced(p)
      BY <3>1, <3>4 DEF CheckLocal, CheckSynced, CheckGeneration, AfterLocal, AfterSynced
    <3> QED BY <2>2, <2>4, <3>1, <3>2, <3>3, <3>5 DEF Opening
  <2>6. /\ At(p, "checkcounter")
        /\ IF Gen(p) < counter[cmd[p].path] THEN Finish(p) ELSE Goto(p, "unlock")
    BY <2>5 DEF CheckCounter, CheckGeneration
  <2>7. ~Finish(p)
    BY DEF Finish, NoCommand, TypeOK
  <2>8. counter[cmd[p].path] <= Gen(p)
    BY <2>6, <2>7, CommandTyped DEF At, TypeOK, Baselines
  <2> QED BY <2>6, <2>8, CommandTyped DEF CounterIsAhead, At, TypeOK, Baselines
<1> QED BY <1>1, Typing, CounterLeads, PTL DEF Spec, RefusesOlder

------------------------------------------------------------------------------
\* What a step leaves of a command, and of rollback.toml.

LEMMA GotoMoves ==
  ASSUME TypeOK, NEW p \in Procs, NEW step, Goto(p, step)
  PROVE  /\ cmd'[p].at = step /\ cmd'[p].path = cmd[p].path /\ cmd'[p].loaded = cmd[p].loaded
         /\ cmd'[p].target = cmd[p].target /\ cmd'[p].snapshot = cmd[p].snapshot
  BY CommandTyped DEF Goto, TypeOK, CommandStates

LEMMA FinishMoves ==
  ASSUME TypeOK, NEW p \in Procs, Finish(p)
  PROVE  cmd'[p] = NoCommand /\ cmd'[p].at = "idle" /\ cmd'[p].path \notin Paths
  BY RollbackAssumption DEF Finish, TypeOK, NoCommand

LEMMA ReadMoves ==
  ASSUME TypeOK, NEW p \in Procs, NEW step, NEW baseline, NEW next, Read(p, step, baseline, next)
  PROVE  /\ cmd'[p].at = next /\ cmd'[p].path = cmd[p].path /\ cmd'[p].loaded = cmd[p].loaded
         /\ cmd'[p].target = cmd[p].target /\ cmd'[p].snapshot = baseline
  BY CommandTyped DEF Read, TypeOK, CommandStates

LEMMA ProceedMoves ==
  ASSUME TypeOK, NEW p \in Procs, NEW next, Proceed(p, next)
  PROVE  \/ cmd'[p].at = "idle" /\ cmd'[p].path \notin Paths
         \/ /\ cmd'[p].at = IF next = "done" THEN "opened" ELSE next
            /\ cmd'[p].path = cmd[p].path /\ cmd'[p].loaded = cmd[p].loaded
<1>1. CASE next # "done"
  BY <1>1, GotoMoves DEF Proceed
<1>2. CASE next = "done" /\ cmd[p].saved
  BY <1>2, FinishMoves DEF Proceed
<1>3. CASE next = "done" /\ ~cmd[p].saved
  <2> DEFINE c == [cmd[p] EXCEPT !.at = "opened", !.target = 0, !.snapshot = NoRecord]
  <2>1. c.at = "opened" /\ c.path = cmd[p].path /\ c.loaded = cmd[p].loaded
    BY CommandTyped DEF CommandStates
  <2>2. cmd' = [cmd EXCEPT ![p] = c]
    BY <1>3 DEF Proceed
  <2> HIDE DEF c
  <2>3. cmd'[p] = c
    BY <2>2 DEF TypeOK
  <2> QED BY <1>3, <2>1, <2>3
<1> QED BY <1>1, <1>2, <1>3

LEMMA SaveMoves ==
  ASSUME TypeOK, NEW p \in Procs, Save(p)
  PROVE  \E g \in Bumped(Gen(p)) :
           /\ Put(cmd[p].path, [gen |-> g, id |-> saves + 1])
           /\ \/ cmd'[p].at = "idle" /\ cmd'[p].path \notin Paths
              \/ cmd'[p].at = "readbase" /\ cmd'[p].path = cmd[p].path /\ cmd'[p].loaded.gen = g
<1>1. PICK g \in Bumped(Gen(p)) :
        /\ Put(cmd[p].path, [gen |-> g, id |-> saves + 1])
        /\ IF g = 0
           THEN Finish(p)
           ELSE cmd' = [cmd EXCEPT ![p] =
                    [@ EXCEPT !.at = "readbase", !.loaded = [gen |-> g, id |-> saves + 1],
                              !.saved = TRUE]]
  BY DEF Save
<1>2. CASE g = 0
  BY <1>1, <1>2, FinishMoves
<1>3. CASE g # 0
  <2> DEFINE c == [cmd[p] EXCEPT !.at = "readbase", !.loaded = [gen |-> g, id |-> saves + 1],
                                 !.saved = TRUE]
  <2>1. c.at = "readbase" /\ c.path = cmd[p].path /\ c.loaded.gen = g
    BY CommandTyped DEF CommandStates
  <2>2. cmd' = [cmd EXCEPT ![p] = c]
    BY <1>1, <1>3
  <2> HIDE DEF c
  <2>3. cmd'[p] = c
    BY <2>2 DEF TypeOK
  <2> QED BY <1>1, <2>1, <2>3
<1> QED BY <1>2, <1>3

\* Who is half-way through rollback.toml after a step was there before it, or has just read.
LEMMA HalfWaySteps ==
  ASSUME TypeOK, [Next]_vars, NEW p \in Procs, HalfWay(p)'
  PROVE  \/ cmd'[p] = cmd[p]
         \/ /\ base' = base /\ cmd'[p].path = cmd[p].path /\ cmd'[p].loaded = cmd[p].loaded
            /\ \/ /\ cmd'[p].at = "rereadbase" /\ cmd[p].path \in Paths
                  /\ cmd'[p].target = Larger(base[cmd[p].path], Gen(p))
               \/ /\ cmd[p].at = "rereadbase" /\ cmd'[p].at = "writebase"
                  /\ cmd'[p].target = cmd[p].target /\ cmd'[p].snapshot = base
               \/ cmd'[p].at = "writeexact" /\ cmd'[p].snapshot = base
<1> SUFFICES ASSUME cmd'[p] # cmd[p]
             PROVE  ReadBase(p) \/ RereadBase(p) \/ RereadExact(p)
  <2>1. CASE ReadBase(p)
    BY <2>1, CommandTyped DEF ReadBase, At, TypeOK, CommandStates
  <2>2. CASE RereadBase(p)
    <3>1. cmd[p].at = "rereadbase" /\ base' = base
      BY <2>2 DEF RereadBase, Read, At
    <3> QED BY <2>2, <3>1, ReadMoves DEF RereadBase
  <2>3. CASE RereadExact(p)
    <3>1. base' = base
      BY <2>3 DEF RereadExact, Read
    <3> QED BY <2>3, <3>1, ReadMoves DEF RereadExact
  <2> QED BY <2>1, <2>2, <2>3
<1>1. cmd'[p].at \in {"rereadbase", "writebase", "writeexact"}
  BY DEF HalfWay
<1>2. PICK q \in Procs :
        \/ \E v \in Paths : Open(q, v) \/ StartRestore(q, v)
        \/ Opening(q) \/ RecordStep(q) \/ Saving(q) \/ RestoreStep(q)
        \/ Die(q)
  BY DEF Next, World, StoreSave, Copy, Replay, vars
<1>3. \E c : cmd' = [cmd EXCEPT ![q] = c]
  BY <1>2 DEF Open, StartRestore, Opening, CheckLocal, CheckSynced, CheckCounter,
     CheckGeneration, Unlock, RecordStep, ReadBase, RereadBase, ReadSynced, Read, WriteBase,
     WriteSynced, Count, Proceed, Saving, Close, Save, SaveConflict, RestoreStep,
     CopyAside, Overwrite, RereadExact, WriteExact, Die, Goto, Finish
<1>4. q = p
  BY <1>3, OthersStay
<1>5. \A v \in Paths : ~Open(p, v) /\ ~StartRestore(p, v)
  <2> SUFFICES ASSUME NEW v \in Paths, Open(p, v) \/ StartRestore(p, v) PROVE FALSE
    OBVIOUS
  <2>1. cmd'[p].at \in {"unlock", "checklocal", "copy"}
    BY DEF Open, StartRestore, TypeOK, NoCommand
  <2> QED BY <1>1, <2>1
<1>6. ~Opening(p)
  BY <1>1, GotoMoves, FinishMoves
     DEF Opening, CheckLocal, CheckSynced, CheckCounter, CheckGeneration, Unlock, AfterLocal, AfterSynced
<1>7. ~WriteBase(p) /\ ~WriteSynced(p) /\ ~Count(p)
  BY <1>1, ProceedMoves DEF WriteBase, WriteSynced, Count, AfterWriteBase, AfterWriteSynced
<1>8. ~ReadSynced(p)
  BY <1>1, ReadMoves DEF ReadSynced
<1>9. ~Saving(p) /\ ~Die(p)
  BY <1>1, SaveMoves, FinishMoves DEF Saving, Close, SaveConflict, Die
<1>10. ~CopyAside(p) /\ ~Overwrite(p) /\ ~WriteExact(p)
  BY <1>1, GotoMoves, FinishMoves DEF CopyAside, Overwrite, WriteExact
<1> QED
  BY <1>2, <1>4, <1>5, <1>6, <1>7, <1>8, <1>9, <1>10 DEF RecordStep, RestoreStep

\* Who writes rollback.toml was half-way through it, and is so no more.
LEMMA BaseSteps ==
  ASSUME TypeOK, [Next]_vars, base' # base
  PROVE  \E p \in Procs :
           /\ WriteBase(p) \/ WriteExact(p)
           /\ cmd[p].path \in Paths /\ ~HalfWay(p)'
<1>1. PICK p \in Procs : WriteBase(p) \/ WriteExact(p)
  BY DEF Next, vars, Open, StartRestore, Opening, CheckLocal, CheckSynced, CheckCounter,
     CheckGeneration, Unlock, RecordStep, ReadBase, RereadBase, ReadSynced, Read, WriteSynced, Count,
     Saving, Close, Save, SaveConflict, RestoreStep, CopyAside, Overwrite, RereadExact, Die,
     World, StoreSave, Copy, Replay
<1>2. cmd'[p].at \in {"idle", "opened", "readsynced", "count"}
  BY <1>1, ProceedMoves, FinishMoves DEF WriteBase, WriteExact, AfterWriteBase, AfterWriteSynced
<1> QED
  BY <1>1, <1>2 DEF WriteBase, WriteExact, At, HalfWay

------------------------------------------------------------------------------
\* RecordsStand, for any number of commands and restores that overlap.

HoldsNothingBelow(p) ==
    /\ cmd[p].at \in {"writebase", "writeexact"} =>
           \A v \in Paths : settled[v] <= cmd[p].snapshot[v]
    /\ cmd[p].at \in {"rereadbase", "writebase"} /\ cmd[p].path \in Paths =>
           settled[cmd[p].path] <= cmd[p].target

RecordsIInv ==
    /\ settled \in Baselines
    /\ RecordsStand
    /\ \A p \in Procs : HoldsNothingBelow(p)

LEMMA RecordsStep ==
  ASSUME TypeOK, TypeOK', RecordsIInv, [RecordsNext]_<<vars, settled>>
  PROVE  RecordsIInv'
<1>1. [Next]_vars
  BY DEF RecordsNext
<1>2. base \in Baselines /\ base' \in Baselines /\ settled \in Baselines
  BY DEF TypeOK, RecordsIInv
<1>3. ASSUME UNCHANGED <<vars, settled>> PROVE RecordsIInv'
  BY <1>3 DEF RecordsIInv, RecordsStand, HoldsNothingBelow, vars
<1>4. ASSUME Settle, \A p \in Procs : ~HalfWay(p)' PROVE RecordsIInv'
  <2>1. settled' = base'
    BY <1>4 DEF Settle
  <2>2. RecordsStand'
    BY <1>2, <2>1 DEF RecordsStand, Baselines
  <2> QED
    BY <1>2, <1>4, <2>1, <2>2 DEF RecordsIInv, HoldsNothingBelow, HalfWay
<1>5. ASSUME Settle, ~(\A p \in Procs : ~HalfWay(p)') PROVE RecordsIInv'
  <2>1. settled' = [v \in Paths |->
                      IF \E p \in Procs : WriteExact(p) /\ cmd[p].path = v
                      THEN Smaller(settled[v], base'[v])
                      ELSE settled[v]]
    BY <1>5 DEF Settle
  \* What is settled only falls, and not below the record a restore makes.
  <2>2. settled' \in Baselines /\ \A v \in Paths : settled'[v] <= settled[v]
    BY <1>2, <2>1 DEF Baselines, Smaller
  <2>3. \A p \in Procs : WriteExact(p) => settled'[cmd[p].path] <= base'[cmd[p].path]
    <3> SUFFICES ASSUME NEW p \in Procs, WriteExact(p)
                 PROVE  settled'[cmd[p].path] <= base'[cmd[p].path]
      OBVIOUS
    <3>1. cmd[p].path \in Paths
      BY DEF WriteExact, At
    <3> QED BY <1>2, <2>1, <3>1 DEF Baselines, Smaller
  <2>4. RecordsStand'
    <3> SUFFICES ASSUME NEW v \in Paths PROVE settled'[v] <= base'[v]
      BY DEF RecordsStand
    <3>1. CASE base' = base
      BY <1>2, <2>2, <3>1 DEF RecordsIInv, RecordsStand, Baselines
    <3>2. CASE base' # base
      <4>1. PICK p \in Procs : (WriteBase(p) \/ WriteExact(p)) /\ cmd[p].path \in Paths
        BY <1>1, <3>2, BaseSteps
      <4>2. cmd[p].snapshot \in Baselines /\ cmd[p].target \in Nat /\ Gen(p) \in Nat
        BY CommandTyped
      <4>3. settled[v] <= cmd[p].snapshot[v]
        BY <4>1 DEF WriteBase, WriteExact, At, RecordsIInv, HoldsNothingBelow
      <4>4. CASE WriteBase(p)
        <5>1. settled[cmd[p].path] <= cmd[p].target
          BY <4>1, <4>4 DEF WriteBase, At, RecordsIInv, HoldsNothingBelow
        <5>2. base' = [cmd[p].snapshot EXCEPT ![cmd[p].path] = cmd[p].target]
          BY <4>4 DEF WriteBase
        <5> QED BY <1>2, <2>2, <4>2, <4>3, <5>1, <5>2 DEF Baselines
      <4>5. CASE WriteExact(p)
        <5>1. base' = [cmd[p].snapshot EXCEPT ![cmd[p].path] = Gen(p)]
          BY <4>5 DEF WriteExact
        <5> QED BY <1>2, <2>2, <2>3, <4>2, <4>3, <4>5, <5>1 DEF Baselines
      <4> QED BY <4>1, <4>4, <4>5
    <3> QED BY <3>1, <3>2
  <2>5. ASSUME NEW p \in Procs, HalfWay(p)' PROVE HoldsNothingBelow(p)'
    <3>1. CASE cmd'[p] = cmd[p]
      <4>1. cmd[p].snapshot \in Baselines /\ cmd[p].target \in Nat
        BY CommandTyped
      <4> QED BY <1>2, <2>2, <3>1, <4>1 DEF RecordsIInv, HoldsNothingBelow, Baselines
    <3>2. CASE cmd'[p] # cmd[p]
      <4>1. cmd[p].target \in Nat /\ Gen(p) \in Nat
        BY CommandTyped
      <4>2. \A v \in Paths : settled'[v] <= base[v]
        BY <1>2, <2>2 DEF RecordsIInv, RecordsStand, Baselines
      <4>3. CASE /\ cmd'[p].at = "rereadbase" /\ cmd'[p].path = cmd[p].path
                 /\ cmd'[p].target = Larger(base[cmd[p].path], Gen(p))
        BY <1>2, <2>2, <4>1, <4>2, <4>3 DEF HoldsNothingBelow, Baselines, Larger
      <4>4. CASE /\ cmd[p].at = "rereadbase" /\ cmd'[p].at = "writebase"
                 /\ cmd'[p].path = cmd[p].path
                 /\ cmd'[p].target = cmd[p].target /\ cmd'[p].snapshot = base
        BY <1>2, <2>2, <4>1, <4>2, <4>4 DEF RecordsIInv, HoldsNothingBelow, Baselines
      <4>5. CASE cmd'[p].at = "writeexact" /\ cmd'[p].snapshot = base
        BY <4>2, <4>5 DEF HoldsNothingBelow
      <4> QED BY <1>1, <2>5, <3>2, <4>3, <4>4, <4>5, HalfWaySteps
    <3> QED BY <3>1, <3>2
  <2>6. ASSUME NEW p \in Procs, ~HalfWay(p)' PROVE HoldsNothingBelow(p)'
    BY <2>6 DEF HoldsNothingBelow, HalfWay
  <2> QED BY <2>2, <2>4, <2>5, <2>6 DEF RecordsIInv
<1> QED BY <1>3, <1>4, <1>5 DEF RecordsNext

\* "Record the highest generation seen for this vault": however many commands and
\* restores overlap on the vaults that share rollback.toml, and wherever they die, no
\* record that was there when none was half-way through the file is lost but by a restore.
THEOREM RecordsAlwaysStand == RecordsSpec => []RecordsStand
<1>1. RecordsInit /\ TypeOK => RecordsIInv
  BY DEF RecordsInit, Init, TypeOK, RecordsIInv, RecordsStand, HoldsNothingBelow, NoCommand, Baselines
<1>2. TypeOK /\ TypeOK' /\ RecordsIInv /\ [RecordsNext]_<<vars, settled>> => RecordsIInv'
  BY RecordsStep
<1>3. RecordsInit /\ [][RecordsNext]_<<vars, settled>> => Spec
  <2>1. RecordsInit => Init
    BY DEF RecordsInit
  <2>2. [RecordsNext]_<<vars, settled>> => [Next]_vars
    BY DEF RecordsNext
  <2> QED BY <2>1, <2>2, PTL DEF Spec
<1>4. RecordsIInv => RecordsStand
  BY DEF RecordsIInv
<1> QED
  BY <1>1, <1>2, <1>3, <1>4, Typing, PTL DEF RecordsSpec

------------------------------------------------------------------------------
\* RestoredV2VaultsOpen, for one command at a time.

OneAtATime == \A p, q \in Procs : p = q

\* What a command writes to rollback.toml is what is there now, but for the record
\* it is to make, which is not below the one that is there.
ReadsTheBase(p) ==
    /\ cmd[p].at \in {"rereadbase", "writebase"} =>
           cmd[p].target = Larger(base[cmd[p].path], Gen(p))
    /\ cmd[p].at \in {"writebase", "writeexact"} => cmd[p].snapshot = base

\* With one command, what it has read of rollback.toml is what is there.
LEMMA ReadsTheBaseStep ==
  ASSUME OneAtATime, TypeOK, \A p \in Procs : ReadsTheBase(p), [Next]_vars
  PROVE  \A p \in Procs : ReadsTheBase(p)'
<1> SUFFICES ASSUME NEW p \in Procs, HalfWay(p)' PROVE ReadsTheBase(p)'
  BY DEF ReadsTheBase, HalfWay
<1>1. base' = base
  BY BaseSteps DEF OneAtATime
<1>2. ReadsTheBase(p)
  OBVIOUS
<1>3. CASE cmd'[p] = cmd[p]
  BY <1>1, <1>2, <1>3 DEF ReadsTheBase, Gen
<1>4. CASE cmd'[p] # cmd[p]
  BY <1>1, <1>2, <1>4, HalfWaySteps DEF ReadsTheBase, Gen
<1> QED BY <1>3, <1>4

LEMMA AlwaysReadsTheBase ==
  ASSUME OneAtATime PROVE Spec => [](\A p \in Procs : ReadsTheBase(p))
<1> DEFINE I == \A p \in Procs : ReadsTheBase(p)
<1>1. Init => I
  BY DEF Init, NoCommand, ReadsTheBase
<1>2. TypeOK /\ I /\ [Next]_vars => I'
  BY ReadsTheBaseStep
<1> QED
  BY <1>1, <1>2, Typing, PTL DEF Spec

\* What a command has read of the vault is there, as far as the generation goes: nobody
\* else replaces it by another.  What it restores is one of the copies.
ReadsTheVault(p) ==
    cmd[p].path \in Paths =>
        /\ cmd[p].at \notin {"copy", "overwrite"} => Gen(p) = disk[cmd[p].path].gen
        /\ cmd[p].at \in Restoring => cmd[p].loaded \in copies[cmd[p].path]

LEMMA ReadsTheVaultStep ==
  ASSUME OneAtATime, ~Replays, TypeOK, \A p \in Procs : ReadsTheVault(p), [Next]_vars
  PROVE  \A p \in Procs : ReadsTheVault(p)'
<1> SUFFICES ASSUME NEW p \in Procs PROVE ReadsTheVault(p)'
  OBVIOUS
<1>0. ReadsTheVault(p) /\ \A q \in Procs : q = p
  BY DEF OneAtATime
<1>1. ASSUME UNCHANGED <<cmd, disk, copies>> PROVE ReadsTheVault(p)'
  BY <1>0, <1>1 DEF ReadsTheVault, Gen
<1>2. ASSUME cmd'[p].path \notin Paths PROVE ReadsTheVault(p)'
  BY <1>2 DEF ReadsTheVault
\* The command goes on with the vault as it is.
<1>3. ASSUME cmd'[p].path = cmd[p].path, cmd'[p].loaded = cmd[p].loaded, UNCHANGED <<disk, copies>>,
             cmd[p].at \notin {"copy", "overwrite"}, cmd'[p].at \in Restoring => cmd[p].at \in Restoring
      PROVE  ReadsTheVault(p)'
  BY <1>0, <1>3 DEF ReadsTheVault, Gen
<1>4. ASSUME NEW v \in Paths, Open(p, v) PROVE ReadsTheVault(p)'
  <2>1. /\ cmd'[p].at \in {"unlock", "checklocal"} /\ cmd'[p].path = v /\ cmd'[p].loaded = disk[v]
        /\ disk' = disk
    BY <1>4 DEF Open, TypeOK, NoCommand
  <2> QED BY <2>1 DEF ReadsTheVault, Gen, Restoring
<1>5. ASSUME NEW v \in Paths, StartRestore(p, v) PROVE ReadsTheVault(p)'
  <2>1. /\ cmd'[p].at = "copy" /\ cmd'[p].path = v /\ cmd'[p].loaded \in copies[v]
        /\ copies' = copies
    BY <1>5 DEF StartRestore, TypeOK, NoCommand
  <2> QED BY <2>1 DEF ReadsTheVault
<1>6. ASSUME Opening(p) PROVE ReadsTheVault(p)'
  <2>1. /\ UNCHANGED <<disk, copies>> /\ cmd[p].at \notin {"copy", "overwrite"}
        /\ \/ Finish(p)
           \/ \E step : Goto(p, step) /\ step \notin Restoring
    BY <1>6 DEF Opening, CheckLocal, CheckSynced, CheckCounter, CheckGeneration, Unlock, AfterLocal,
       AfterSynced, At, Restoring
  <2>2. CASE Finish(p)
    BY <1>2, <2>2, FinishMoves
  <2>3. ASSUME NEW step, Goto(p, step), step \notin Restoring PROVE ReadsTheVault(p)'
    BY <1>3, <2>1, <2>3, GotoMoves
  <2> QED BY <2>1, <2>2, <2>3
<1>7. ASSUME RecordStep(p) PROVE ReadsTheVault(p)'
  <2>1. UNCHANGED <<disk, copies>> /\ cmd[p].at \notin {"copy", "overwrite"}
    BY <1>7 DEF RecordStep, ReadBase, RereadBase, WriteBase, ReadSynced, WriteSynced, Count, Read, At
  <2>2. CASE ReadBase(p)
    <3>1. cmd'[p].at = "rereadbase" /\ cmd'[p].path = cmd[p].path /\ cmd'[p].loaded = cmd[p].loaded
      BY <2>2, CommandTyped DEF ReadBase, TypeOK, CommandStates
    <3> QED BY <1>3, <2>1, <3>1 DEF Restoring
  <2>3. CASE RereadBase(p) \/ ReadSynced(p)
    <3>1. /\ cmd'[p].at \in {"writebase", "writesynced"}
          /\ cmd'[p].path = cmd[p].path /\ cmd'[p].loaded = cmd[p].loaded
      BY <2>3, ReadMoves DEF RereadBase, ReadSynced
    <3> QED BY <1>3, <2>1, <3>1 DEF Restoring
  <2>4. CASE WriteBase(p) \/ WriteSynced(p) \/ Count(p)
    <3>1. \/ cmd'[p].path \notin Paths
          \/ /\ cmd'[p].at \in {"opened", "readsynced", "count"}
             /\ cmd'[p].path = cmd[p].path /\ cmd'[p].loaded = cmd[p].loaded
      BY <2>4, ProceedMoves DEF WriteBase, WriteSynced, Count, AfterWriteBase, AfterWriteSynced
    <3> QED BY <1>2, <1>3, <2>1, <3>1 DEF Restoring
  <2> QED BY <1>7, <2>2, <2>3, <2>4 DEF RecordStep
<1>8. ASSUME Saving(p) PROVE ReadsTheVault(p)'
  <2>1. CASE Save(p)
    <3>1. PICK g \in Bumped(Gen(p)) :
            /\ Put(cmd[p].path, [gen |-> g, id |-> saves + 1])
            /\ \/ cmd'[p].at = "idle" /\ cmd'[p].path \notin Paths
               \/ cmd'[p].at = "readbase" /\ cmd'[p].path = cmd[p].path /\ cmd'[p].loaded.gen = g
      BY <2>1, SaveMoves
    <3>2. cmd[p].path \in Paths => disk'[cmd[p].path].gen = g
      BY <3>1 DEF Put, TypeOK
    <3> QED BY <1>2, <3>1, <3>2 DEF ReadsTheVault, Gen, Restoring
  <2> QED BY <1>2, <1>8, <2>1, FinishMoves DEF Saving, Close, SaveConflict
<1>9. ASSUME RestoreStep(p) PROVE ReadsTheVault(p)'
  <2>1. CASE CopyAside(p)
    <3>1. /\ cmd'[p].at = "overwrite" /\ cmd'[p].path = cmd[p].path /\ cmd'[p].loaded = cmd[p].loaded
          /\ cmd[p].at = "copy" /\ cmd[p].path \in Paths
      BY <2>1, GotoMoves DEF CopyAside, At
    <3>2. copies[cmd[p].path] \subseteq copies'[cmd[p].path]
      BY <2>1, <3>1 DEF CopyAside, TypeOK
    <3> QED BY <1>0, <3>1, <3>2 DEF ReadsTheVault, Restoring
  <2>2. CASE Overwrite(p)
    <3>1. CASE Gen(p) = 0
      BY <1>2, <2>2, <3>1, FinishMoves DEF Overwrite
    <3>2. CASE Gen(p) # 0
      <4>1. /\ cmd'[p].at = "rereadexact" /\ cmd'[p].path = cmd[p].path /\ cmd'[p].loaded = cmd[p].loaded
            /\ cmd[p].at = "overwrite" /\ cmd[p].path \in Paths /\ copies' = copies
        BY <2>2, <3>2, GotoMoves DEF Overwrite, At
      <4>2. disk'[cmd[p].path] = cmd[p].loaded
        BY <2>2, <4>1 DEF Overwrite, Put, TypeOK
      <4> QED BY <1>0, <4>1, <4>2 DEF ReadsTheVault, Restoring, Gen
    <3> QED BY <3>1, <3>2
  <2>3. CASE RereadExact(p)
    <3>1. cmd'[p].at = "writeexact" /\ cmd'[p].path = cmd[p].path /\ cmd'[p].loaded = cmd[p].loaded
      BY <2>3, ReadMoves DEF RereadExact
    <3>2. UNCHANGED <<disk, copies>> /\ cmd[p].at = "rereadexact"
      BY <2>3 DEF RereadExact, Read, At
    <3> QED BY <1>3, <3>1, <3>2 DEF Restoring
  <2>4. CASE WriteExact(p)
    BY <1>2, <2>4, FinishMoves DEF WriteExact
  <2> QED BY <1>9, <2>1, <2>2, <2>3, <2>4 DEF RestoreStep
<1>10. ASSUME Die(p) PROVE ReadsTheVault(p)'
  BY <1>2, <1>10, FinishMoves DEF Die
<1>11. ASSUME NEW v \in Paths, World(v) PROVE ReadsTheVault(p)'
  <2>1. CASE StoreSave(v)
    <3>1. \A w \in Paths : disk'[w].gen = disk[w].gen
      BY <2>1, DiskTyped DEF StoreSave, Put, TypeOK, Files
    <3>2. UNCHANGED <<cmd, copies>>
      BY <2>1 DEF StoreSave
    <3> QED BY <1>0, <3>1, <3>2 DEF ReadsTheVault, Gen
  <2>2. CASE Copy(v)
    <3>1. \A w \in Paths : copies[w] \subseteq copies'[w]
      BY <2>2 DEF Copy, TypeOK
    <3>2. UNCHANGED <<cmd, disk>>
      BY <2>2 DEF Copy
    <3> QED BY <1>0, <3>1, <3>2 DEF ReadsTheVault, Gen
  <2> QED BY <1>11, <2>1, <2>2 DEF World, Replay
<1>12. CASE UNCHANGED vars
  BY <1>1, <1>12 DEF vars
<1> QED
  BY <1>0, <1>4, <1>5, <1>6, <1>7, <1>8, <1>9, <1>10, <1>11, <1>12 DEF Next

\* A step of RestoredV2VaultsOpen.
LEMMA RestoredStep ==
  ASSUME OneAtATime, ~Replays, TypeOK, TypeOK', RestoredV2VaultsOpen, [Next]_vars,
         \A p \in Procs : ReadsTheBase(p) /\ ReadsTheVault(p)
  PROVE  RestoredV2VaultsOpen'
<1> SUFFICES ASSUME NEW v \in Paths, (\A copy \in copies[v] : copy.gen > 0)', ~RestorePending(v)'
             PROVE  base'[v] <= disk'[v].gen
  BY DEF RestoredV2VaultsOpen
<1>0. /\ base[v] \in Nat /\ disk[v].gen \in Nat /\ base'[v] \in Nat /\ disk'[v].gen \in Nat
      /\ \A p, q \in Procs : q = p
  BY DEF TypeOK, Baselines, Files, OneAtATime
<1>1. ASSUME copies[v] \subseteq copies'[v], ~RestorePending(v) PROVE base[v] <= disk[v].gen
  BY <1>1 DEF RestoredV2VaultsOpen
\* Neither rollback.toml nor a vault is written.
<1>2. ASSUME UNCHANGED <<copies, base, disk, cut>>, NEW p \in Procs,
             cmd[p].at = "rereadexact" => cmd'[p].at = "writeexact" /\ cmd'[p].path = cmd[p].path,
             cmd[p].at # "writeexact"
      PROVE  base'[v] <= disk'[v].gen
  <2>1. ~RestorePending(v)
    BY <1>0, <1>2 DEF RestorePending, Unrecorded
  <2> QED BY <1>1, <1>2, <2>1
<1>3. ASSUME NEW p \in Procs, NEW w \in Paths, Open(p, w) \/ StartRestore(p, w)
      PROVE  base'[v] <= disk'[v].gen
  <2>1. cmd[p] = NoCommand /\ UNCHANGED <<copies, base, disk, cut>>
    BY <1>3 DEF Open, StartRestore
  <2>2. cmd[p].at = "idle"
    BY <2>1 DEF NoCommand
  <2> QED BY <1>2, <2>1, <2>2
<1>4. ASSUME NEW p \in Procs, Opening(p) PROVE base'[v] <= disk'[v].gen
  <2>1. cmd[p].at \notin {"rereadexact", "writeexact"} /\ UNCHANGED <<copies, base, disk, cut>>
    BY <1>4 DEF Opening, CheckLocal, CheckSynced, CheckCounter, CheckGeneration, Unlock, At
  <2> QED BY <1>2, <2>1
<1>5. ASSUME NEW p \in Procs, RecordStep(p) PROVE base'[v] <= disk'[v].gen
  <2>1. /\ cmd[p].at \notin {"rereadexact", "writeexact"} /\ UNCHANGED <<copies, disk, cut>>
        /\ cmd[p].path \in Paths
    BY <1>5 DEF RecordStep, ReadBase, RereadBase, WriteBase, ReadSynced, WriteSynced, Count, Read, At
  <2>2. CASE WriteBase(p)
    <3>1. base' = [base EXCEPT ![cmd[p].path] = Larger(base[cmd[p].path], Gen(p))]
      BY <2>2 DEF WriteBase, At, ReadsTheBase
    <3>2. Gen(p) = disk[cmd[p].path].gen
      BY <2>1, <2>2 DEF WriteBase, At, ReadsTheVault
    <3>3. ~RestorePending(v)
      BY <1>0, <2>1 DEF RestorePending, Unrecorded
    <3>4. base[v] <= disk[v].gen
      BY <1>1, <2>1, <3>3
    <3>5. base'[v] \in {base[v], disk[v].gen}
      BY <3>1, <3>2 DEF TypeOK, Baselines, Larger
    <3> QED BY <1>0, <2>1, <3>4, <3>5
  <2>3. CASE ~WriteBase(p)
    <3>1. base' = base
      BY <1>5, <2>3 DEF RecordStep, ReadBase, RereadBase, ReadSynced, WriteSynced, Count, Read
    <3> QED BY <1>2, <2>1, <3>1
  <2> QED BY <2>2, <2>3
<1>6. ASSUME NEW p \in Procs, Saving(p) PROVE base'[v] <= disk'[v].gen
  <2>1. CASE Save(p)
    <3>1. PICK g \in Bumped(Gen(p)) : Put(cmd[p].path, [gen |-> g, id |-> saves + 1])
      BY <2>1 DEF Save
    <3>2. /\ cmd[p].at = "opened" /\ cmd[p].path \in Paths /\ UNCHANGED <<copies, base, cut>>
          /\ Gen(p) = disk[cmd[p].path].gen /\ Gen(p) \in Nat
      BY <2>1, CommandTyped DEF Save, At, ReadsTheVault
    <3>3. disk[v].gen <= disk'[v].gen
      BY <1>0, <3>1, <3>2 DEF Put, Bumped, TypeOK
    <3>4. ~RestorePending(v)
      BY <1>0, <3>2 DEF RestorePending, Unrecorded
    <3>5. base[v] <= disk[v].gen
      BY <1>1, <3>2, <3>4
    <3> QED BY <1>0, <3>2, <3>3, <3>5
  <2>2. CASE Close(p) \/ SaveConflict(p)
    <3>1. cmd[p].at = "opened" /\ UNCHANGED <<copies, base, disk, cut>>
      BY <2>2 DEF Close, SaveConflict, At
    <3> QED BY <1>2, <3>1
  <2> QED BY <1>6, <2>1, <2>2 DEF Saving
<1>7. ASSUME NEW p \in Procs, RestoreStep(p) PROVE base'[v] <= disk'[v].gen
  <2>1. CASE CopyAside(p)
    <3>1. /\ cmd[p].at = "copy" /\ UNCHANGED <<base, disk, cut>> /\ copies[v] \subseteq copies'[v]
      BY <2>1 DEF CopyAside, At, TypeOK
    <3>2. ~RestorePending(v)
      BY <1>0, <3>1 DEF RestorePending, Unrecorded
    <3> QED BY <1>1, <3>1, <3>2
  <2>2. CASE Overwrite(p)
    <3>1. /\ cmd[p].at = "overwrite" /\ cmd[p].path \in Paths /\ UNCHANGED <<base, copies, cut>>
          /\ cmd[p].loaded \in copies[cmd[p].path]
      BY <2>2 DEF Overwrite, At, ReadsTheVault, Restoring
    <3>2. CASE cmd[p].path = v
      <4>1. Gen(p) # 0
        BY <3>1, <3>2, CommandTyped DEF Gen
      <4>2. cmd'[p].at = "rereadexact" /\ cmd'[p].path = v
        BY <2>2, <3>2, <4>1, GotoMoves DEF Overwrite
      <4> QED BY <4>2 DEF RestorePending, Unrecorded
    <3>3. CASE cmd[p].path # v
      <4>1. disk'[v] = disk[v]
        BY <2>2, <3>3 DEF Overwrite, Put, TypeOK
      <4>2. ~RestorePending(v)
        BY <1>0, <3>1 DEF RestorePending, Unrecorded
      <4> QED BY <1>1, <3>1, <4>1, <4>2
    <3> QED BY <3>2, <3>3
  <2>3. CASE RereadExact(p)
    <3>1. cmd'[p].at = "writeexact" /\ cmd'[p].path = cmd[p].path
      BY <2>3, ReadMoves DEF RereadExact
    <3>2. UNCHANGED <<copies, base, disk, cut>> /\ cmd[p].at = "rereadexact"
      BY <2>3 DEF RereadExact, Read, At
    <3> QED BY <1>2, <3>1, <3>2
  <2>4. CASE WriteExact(p)
    <3>1. /\ cmd[p].at = "writeexact" /\ cmd[p].path \in Paths /\ UNCHANGED <<disk, copies>>
          /\ cut' = cut \ {cmd[p].path}
          /\ base' = [base EXCEPT ![cmd[p].path] = Gen(p)]
      BY <2>4 DEF WriteExact, At, ReadsTheBase
    <3>2. CASE cmd[p].path = v
      <4>1. Gen(p) = disk[v].gen
        BY <3>1, <3>2 DEF ReadsTheVault
      <4> QED BY <1>0, <3>1, <3>2, <4>1 DEF TypeOK, Baselines
    <3>3. CASE cmd[p].path # v
      <4>1. base'[v] = base[v]
        BY <3>1, <3>3 DEF TypeOK, Baselines
      <4>2. ~RestorePending(v)
        BY <1>0, <3>1, <3>3 DEF RestorePending, Unrecorded
      <4> QED BY <1>1, <3>1, <4>1, <4>2
    <3> QED BY <3>2, <3>3
  <2> QED BY <1>7, <2>1, <2>2, <2>3, <2>4 DEF RestoreStep
<1>8. ASSUME NEW p \in Procs, Die(p) PROVE base'[v] <= disk'[v].gen
  <2>1. /\ UNCHANGED <<copies, base, disk>>
        /\ cut' = cut \cup {w \in Paths : w = cmd[p].path /\ Unrecorded(p)}
    BY <1>8 DEF Die
  <2>2. v \notin cut'
    BY DEF RestorePending, Unrecorded
  <2>3. ~RestorePending(v)
    BY <1>0, <2>1, <2>2 DEF RestorePending, Unrecorded
  <2> QED BY <1>1, <2>1, <2>3
<1>9. ASSUME NEW w \in Paths, World(w) PROVE base'[v] <= disk'[v].gen
  <2>1. /\ UNCHANGED <<cmd, base, cut>> /\ copies[v] \subseteq copies'[v]
        /\ disk'[v].gen = disk[v].gen
    BY <1>9, DiskTyped DEF World, StoreSave, Copy, Replay, Put, TypeOK, Files
  <2>2. ~RestorePending(v)
    BY <2>1 DEF RestorePending, Unrecorded
  <2> QED BY <1>1, <2>1, <2>2
<1>10. CASE UNCHANGED vars
  <2>1. ~RestorePending(v)
    BY <1>10 DEF RestorePending, Unrecorded, vars
  <2> QED BY <1>1, <1>10, <2>1 DEF vars
<1> QED
  BY <1>3, <1>4, <1>5, <1>6, <1>7, <1>8, <1>9, <1>10 DEF Next

\* The generation that a restore set is the baseline of what comes after: where commands
\* come one at a time and only restore-backup puts copies back, no vault of which all
\* copies are v2 is refused by rollback.toml, wherever commands stopped, unless it was
\* the last restore of it, before its record.
THEOREM RestoredVaultsOpen ==
  ASSUME OneAtATime, ~Replays
  PROVE  Spec => []RestoredV2VaultsOpen
<1> DEFINE I == RestoredV2VaultsOpen /\ \A p \in Procs : ReadsTheVault(p)
<1>1. Init => I
  BY RollbackAssumption DEF Init, NoCommand, ReadsTheVault, RestoredV2VaultsOpen, NoRecord, NewVault
<1>2. TypeOK /\ TypeOK' /\ (\A p \in Procs : ReadsTheBase(p)) /\ I /\ [Next]_vars => I'
  BY RestoredStep, ReadsTheVaultStep
<1> QED
  BY <1>1, <1>2, Typing, AlwaysReadsTheBase, PTL DEF Spec
==============================================================================
