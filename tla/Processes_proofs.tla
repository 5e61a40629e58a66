--------------------------- MODULE Processes_proofs ---------------------------
(***************************************************************************)
(* What processes of sshenv share on a machine besides a vault, for any    *)
(* number of processes and of what they keep there.                        *)
(*                                                                         *)
(* Sessions: what makes the registry right is the lock.  Who is between    *)
(* opening the file and leaving it holds sessions.toml.lock, so that what  *)
(* it read is what is there, and a process that starts in the meantime has *)
(* a token that no record has.                                             *)
(*                                                                         *)
(* Shims and reminders: two files that commands share without a lock,      *)
(* bindings.toml with the shims made from it and security-state.toml.      *)
(* Both proofs go by who is alone: a command that began while no other was *)
(* at work, and saw none begin since, has read what is there and will      *)
(* leave it right; one that is not alone may only not spoil what counts as *)
(* right.                                                                  *)
(*                                                                         *)
(* Operations: the invariant is the type of the variables and              *)
(* AnswersStand: a record changes only while it is vacant, and no answer   *)
(* is ever "vacant", so what is added takes nothing back.                  *)
(*                                                                         *)
(* Seals: a secret that is in a seal, or in one about to be saved, and     *)
(* that nobody contests is where its backend looks for it, and nobody is   *)
(* about to store another; one that is being stored and that nobody        *)
(* contests is stored by a process that is alone at the backend.           *)
(***************************************************************************)
EXTENDS Sessions, Shims, Reminders, DeviceSeal, OperationFactors, TLAPS

-----------------------------------------------------------------------------
(* Sessions.                                                                 *)

SessionSteps ==
  {"ended", "run", "kill", "program", "register", "save", "exec", "collect", "check", "signal",
   "reported", "leave"}

Processes ==
  [token : Tokens \cup {Nobody}, at : SessionSteps, label : Labels \cup {Nobody},
   scope : SUBSET Labels, view : SUBSET Records, todo : SUBSET Records,
   late : SUBSET Tokens, done : SUBSET Tokens]

SessionTypes ==
  /\ proc \in [Pids -> Processes]
  /\ registry \in SUBSET Records
  /\ registryLock \in Pids \cup {Nobody}

EveryProcessHasItsToken == \A p \in Pids : proc[p].at # "ended" => proc[p].token # Nobody

RecordOf(p, l) == [pid |-> p, token |-> proc[p].token, label |-> l]

\* The steps between opening the file and dropping the lock.
InTheFile == {"register", "save", "collect", "check", "signal"}

HoldsTheLock == \A p \in Pids : proc[p].at \in InTheFile => registryLock = p

\* Who has read the file and not yet written it has what is there.
ReadsWhatIsThere == \A p \in Pids : proc[p].at \in {"register", "collect"} => proc[p].view = registry

\* Who is about to save has the sessions that run, and its own.
SavesTheLive ==
  \A p \in Pids : proc[p].at = "save" =>
    /\ \A l \in proc[p].scope : RecordOf(p, l) \in proc[p].view
    /\ \A q \in Pids : proc[q].label # Nobody => RecordOf(q, proc[q].label) \in proc[p].view

\* What a kill has left to do: all that runs in its scope is signalled or waits for it.
LeavesNoneOut ==
  \A p \in Pids : proc[p].at \in {"check", "signal"} =>
    \A r \in registry :
      r.label \in proc[p].scope /\ IsSameProcess(r) => r \in proc[p].todo \/ r.token \in proc[p].done

InScope ==
  \A p \in Pids :
    /\ proc[p].at = "check" => \A r \in proc[p].todo : r.label \in proc[p].scope
    /\ proc[p].at = "signal" => \A r \in proc[p].todo \cup proc[p].view : r.label \in proc[p].scope

\* The pid a kill is about to signal has the process that was checked, none, or one
\* that came since.
CheckedOrLate ==
  \A p \in Pids : proc[p].at = "signal" =>
    \A r \in proc[p].view : proc[r.pid].token \in {r.token, Nobody} \cup proc[p].late

IInv ==
  /\ SessionTypes
  /\ EveryProcessHasItsToken
  /\ HoldsTheLock
  /\ ReadsWhatIsThere
  /\ SavesTheLive
  /\ LeavesNoneOut
  /\ InScope
  /\ CheckedOrLate
  /\ LiveSessionsAreListed

-----------------------------------------------------------------------------
LEMMA InitIInv == SessionInit => IInv
BY DEF SessionInit, IInv, SessionTypes, EveryProcessHasItsToken, HoldsTheLock, ReadsWhatIsThere, SavesTheLive,
       LeavesNoneOut, InScope, CheckedOrLate, LiveSessionsAreListed, NoProcess, Process,
       Processes, SessionSteps, InTheFile

\* What a command is started with.
LEMMA CommandTypes ==
  ASSUME NEW c \in Commands \cup {<<"program", {}>>}
  PROVE  c[1] \in {"run", "kill", "program"} /\ c[2] \in SUBSET Labels
BY DEF Commands, Scopes, Labels

LEMMA ProcessTypes ==
  ASSUME NEW t \in Tokens \cup {Nobody}, NEW at \in SessionSteps, NEW label \in Labels \cup {Nobody},
         NEW scope \in SUBSET Labels
  PROVE  Process(t, at, label, scope) \in Processes
BY DEF Process, Processes

LEMMA NoProcessTypes == NoProcess \in Processes
BY DEF NoProcess, Process, Processes, SessionSteps

LEMMA RecordTypes ==
  ASSUME SessionTypes, NEW r \in Records
  PROVE  /\ r.pid \in Pids /\ r.token \in Tokens /\ r.label \in Labels
         /\ r.token # Nobody /\ r.label # Nobody
BY NobodyAssumption DEF Records, Labels

LEMMA LiveTypes ==
  ASSUME NEW records \in SUBSET Records
  PROVE  Live(records) \in SUBSET Records
BY DEF Live

-----------------------------------------------------------------------------
(* One lemma per action.                                                     *)

LEMMA StartKeepsIInv ==
  ASSUME IInv, NEW p \in Pids, Start(p)
  PROVE  IInv'
<1>1. PICK t \in Tokens \ TokensInUse, c \in Commands \cup {<<"program", {}>>} :
        proc' = [q \in Pids |-> IF q = p THEN Process(t, c[1], Nobody, c[2])
                                ELSE [proc[q] EXCEPT !.late = IF proc[q].at = "signal"
                                                              THEN @ \cup {t} ELSE @]]
  BY DEF Start
<1>2. /\ proc[p].token = Nobody
      /\ UNCHANGED <<registry, registryLock>>
  BY DEF Start, Alive
<1>3. SessionTypes
  BY DEF IInv
<1>4. /\ proc'[p] \in Processes
      /\ proc'[p].at \in {"run", "kill", "program"}
      /\ proc'[p].label = Nobody /\ proc'[p].token = t
  BY <1>1, <1>3, CommandTypes, ProcessTypes DEF Process, SessionSteps
<1>5. ASSUME NEW q \in Pids, q # p
      PROVE  /\ proc'[q] \in Processes
             /\ proc'[q].token = proc[q].token /\ proc'[q].at = proc[q].at
             /\ proc'[q].label = proc[q].label /\ proc'[q].scope = proc[q].scope
             /\ proc'[q].view = proc[q].view /\ proc'[q].todo = proc[q].todo
             /\ proc'[q].done = proc[q].done
             /\ proc[q].late \subseteq proc'[q].late
             /\ proc[q].at = "signal" => t \in proc'[q].late
  BY <1>1, <1>3, <1>5 DEF SessionTypes, Processes
<1>6. \A r \in registry : r.token # t
  BY <1>1 DEF TokensInUse
<1>7. SessionTypes'
  BY <1>1, <1>2, <1>3, <1>4, <1>5 DEF SessionTypes
<1>8. EveryProcessHasItsToken' /\ HoldsTheLock' /\ ReadsWhatIsThere'
  BY <1>2, <1>4, <1>5, NobodyAssumption
     DEF IInv, EveryProcessHasItsToken, HoldsTheLock, ReadsWhatIsThere, InTheFile
<1>9. SavesTheLive'
  BY <1>2, <1>4, <1>5 DEF IInv, SavesTheLive, RecordOf
<1>10. LeavesNoneOut'
  <2> SUFFICES ASSUME NEW q \in Pids, proc'[q].at \in {"check", "signal"},
                      NEW r \in registry, r.label \in proc'[q].scope, proc'[r.pid].token = r.token
               PROVE  r \in proc'[q].todo \/ r.token \in proc'[q].done
    BY <1>2 DEF LeavesNoneOut, IsSameProcess
  <2>1. q # p /\ proc[q].at \in {"check", "signal"} /\ r.label \in proc[q].scope
    BY <1>4, <1>5
  <2>2. r.pid \in Pids
    BY <1>3, RecordTypes DEF SessionTypes
  <2>3. r.pid # p
    BY <1>4, <1>6
  <2>4. proc[r.pid].token = r.token
    BY <1>5, <2>2, <2>3
  <2> QED
    BY <1>5, <2>1, <2>4 DEF IInv, LeavesNoneOut, IsSameProcess
<1>11. InScope'
  BY <1>4, <1>5 DEF IInv, InScope
<1>12. CheckedOrLate'
  <2> SUFFICES ASSUME NEW q \in Pids, proc'[q].at = "signal", NEW r \in proc'[q].view
               PROVE  proc'[r.pid].token \in {r.token, Nobody} \cup proc'[q].late
    BY DEF CheckedOrLate
  <2>1. q # p /\ proc[q].at = "signal" /\ r \in proc[q].view
    BY <1>4, <1>5
  <2>2. r.pid \in Pids
    BY <1>3, <2>1, RecordTypes DEF SessionTypes, Processes
  <2>3. proc[r.pid].token \in {r.token, Nobody} \cup proc[q].late
    BY <2>1 DEF IInv, CheckedOrLate
  <2>4. CASE r.pid = p
    BY <1>4, <1>5, <2>1, <2>4
  <2>5. CASE r.pid # p
    BY <1>5, <2>1, <2>2, <2>3, <2>5
  <2> QED
    BY <2>4, <2>5
<1>13. LiveSessionsAreListed'
  BY <1>2, <1>4, <1>5 DEF IInv, LiveSessionsAreListed
<1> QED
  BY <1>7, <1>8, <1>9, <1>10, <1>11, <1>12, <1>13 DEF IInv

\* A step out of the file or outside it: the process ends, becomes another command or
\* goes on, and no record is written.
LEMMA OutsideKeepsIInv ==
  ASSUME IInv, NEW p \in Pids, proc' \in [Pids -> Processes],
         \A q \in Pids \ {p} : proc'[q] = proc[q],
         proc'[p].at \notin InTheFile, proc'[p].at # "ended" => proc'[p].token # Nobody,
         <<proc'[p].token, proc'[p].label>> \in {<<proc[p].token, proc[p].label>>, <<Nobody, Nobody>>},
         registryLock' \in {registryLock, IF registryLock = p THEN Nobody ELSE registryLock},
         registry' = registry
  PROVE  IInv'
<1>1. SessionTypes
  BY DEF IInv
<1>2. SessionTypes'
  BY <1>1 DEF SessionTypes
<1>3. ASSUME NEW q \in Pids, proc'[q].at \in InTheFile
      PROVE  q # p /\ proc'[q] = proc[q] /\ registryLock = q
  BY <1>3 DEF IInv, HoldsTheLock
<1>4. EveryProcessHasItsToken' /\ HoldsTheLock'
  BY <1>3 DEF IInv, EveryProcessHasItsToken, HoldsTheLock
<1>5. ReadsWhatIsThere' /\ InScope'
  BY <1>3 DEF IInv, ReadsWhatIsThere, InScope, InTheFile
<1>6. ASSUME NEW q \in Pids
      PROVE  /\ proc'[q].token \in {proc[q].token, Nobody}
             /\ proc'[q].label # Nobody => /\ proc'[q].label = proc[q].label
                                           /\ proc'[q].token = proc[q].token
  OBVIOUS
<1>7. SavesTheLive'
  BY <1>3, <1>6 DEF IInv, SavesTheLive, RecordOf, InTheFile
<1>8. LeavesNoneOut'
  <2> SUFFICES ASSUME NEW q \in Pids, proc'[q].at \in {"check", "signal"},
                      NEW r \in registry, r.label \in proc'[q].scope, proc'[r.pid].token = r.token
               PROVE  r \in proc'[q].todo \/ r.token \in proc'[q].done
    BY DEF LeavesNoneOut, IsSameProcess
  <2>1. r.pid \in Pids /\ r.token # Nobody
    BY <1>1, RecordTypes DEF SessionTypes
  <2>2. proc[r.pid].token = r.token
    BY <1>6, <2>1
  <2> QED
    BY <1>3, <2>2 DEF IInv, LeavesNoneOut, IsSameProcess, InTheFile
<1>9. CheckedOrLate'
  <2> SUFFICES ASSUME NEW q \in Pids, proc'[q].at = "signal", NEW r \in proc'[q].view
               PROVE  proc'[r.pid].token \in {r.token, Nobody} \cup proc'[q].late
    BY DEF CheckedOrLate
  <2>1. proc'[q] = proc[q]
    BY <1>3 DEF InTheFile
  <2>2. r.pid \in Pids
    BY <1>1, <2>1, RecordTypes DEF SessionTypes, Processes
  <2>3. proc'[r.pid].token \in {proc[r.pid].token, Nobody}
    BY <1>6, <2>2
  <2> QED
    BY <2>1, <2>3 DEF IInv, CheckedOrLate
<1>10. LiveSessionsAreListed'
  BY <1>6 DEF IInv, LiveSessionsAreListed
<1> QED
  BY <1>2, <1>4, <1>5, <1>7, <1>8, <1>9, <1>10 DEF IInv

LEMMA ExitKeepsIInv ==
  ASSUME IInv, NEW p \in Pids, Exit(p)
  PROVE  IInv'
<1>1. proc' \in [Pids -> Processes] /\ proc'[p] = NoProcess
      /\ \A q \in Pids \ {p} : proc'[q] = proc[q]
  BY NoProcessTypes DEF Exit, IInv, SessionTypes
<1>2. proc'[p].at = "ended" /\ proc'[p].token = Nobody /\ proc'[p].label = Nobody
  BY <1>1 DEF NoProcess, Process
<1> QED
  BY <1>1, <1>2, OutsideKeepsIInv DEF Exit, InTheFile

LEMMA ReexecKeepsIInv ==
  ASSUME IInv, NEW p \in Pids, Reexec(p)
  PROVE  IInv'
<1>1. PICK c \in Commands : proc' = [proc EXCEPT ![p] = Process(@.token, c[1], @.label, c[2])]
  BY DEF Reexec
<1>2. proc[p] \in Processes /\ c[1] \in {"run", "kill", "program"} /\ c[2] \in SUBSET Labels
  BY CommandTypes DEF IInv, SessionTypes
<1>3. Process(proc[p].token, c[1], proc[p].label, c[2]) \in Processes
  <2>1. proc[p].token \in Tokens \cup {Nobody} /\ proc[p].label \in Labels \cup {Nobody}
    BY <1>2 DEF Processes
  <2>2. c[1] \in SessionSteps
    BY <1>2 DEF SessionSteps
  <2> QED
    BY <1>2, <2>1, <2>2, ProcessTypes
<1>4. proc' \in [Pids -> Processes] /\ \A q \in Pids \ {p} : proc'[q] = proc[q]
  BY <1>1, <1>3 DEF IInv, SessionTypes
<1>5. /\ proc'[p].at \notin InTheFile
      /\ proc'[p].token = proc[p].token /\ proc'[p].label = proc[p].label
  BY <1>1, <1>2 DEF Process, InTheFile, IInv, SessionTypes
<1> QED
  BY <1>4, <1>5, OutsideKeepsIInv DEF Reexec, Alive

LEMMA ExecKeepsIInv ==
  ASSUME IInv, NEW p \in Pids, Exec(p)
  PROVE  IInv'
<1>1. /\ proc' \in [Pids -> Processes] /\ \A q \in Pids \ {p} : proc'[q] = proc[q]
      /\ proc'[p].at = "program"
      /\ proc'[p].token = proc[p].token /\ proc'[p].label = proc[p].label
  BY DEF Exec, IInv, SessionTypes, Processes, SessionSteps
<1> QED
  BY <1>1, OutsideKeepsIInv DEF Exec, IInv, EveryProcessHasItsToken, InTheFile

LEMMA SignalRefusedKeepsIInv ==
  ASSUME IInv, NEW p \in Pids, SignalRefused(p)
  PROVE  IInv'
<1>1. Process(proc[p].token, "leave", proc[p].label, {}) \in Processes
  BY ProcessTypes DEF IInv, SessionTypes, Processes, SessionSteps
<1>2. /\ proc' \in [Pids -> Processes] /\ \A q \in Pids \ {p} : proc'[q] = proc[q]
      /\ proc'[p].at = "leave"
      /\ proc'[p].token = proc[p].token /\ proc'[p].label = proc[p].label
  BY <1>1 DEF SignalRefused, IInv, SessionTypes, Process
<1> QED
  BY <1>2, OutsideKeepsIInv DEF SignalRefused, IInv, EveryProcessHasItsToken, InTheFile

LEMMA ReportKeepsIInv ==
  ASSUME IInv, NEW p \in Pids, Report(p)
  PROVE  IInv'
<1>1. /\ proc' \in [Pids -> Processes] /\ \A q \in Pids \ {p} : proc'[q] = proc[q]
      /\ proc'[p].at = "reported"
      /\ proc'[p].token = proc[p].token /\ proc'[p].label = proc[p].label
  BY DEF Report, IInv, SessionTypes, Processes, SessionSteps
<1> QED
  BY <1>1, OutsideKeepsIInv DEF Report, IInv, EveryProcessHasItsToken, Released, InTheFile

-----------------------------------------------------------------------------
(* In the file.                                                              *)

LEMMA OpenLockedKeepsIInv ==
  ASSUME IInv, NEW p \in Pids, OpenLocked(p)
  PROVE  IInv'
<1>1. SessionTypes /\ registryLock = Nobody /\ registryLock' = p /\ registry' = registry
  BY DEF IInv, OpenLocked
<1>2. /\ proc' \in [Pids -> Processes] /\ \A q \in Pids \ {p} : proc'[q] = proc[q]
      /\ proc'[p].at \in {"register", "collect"} /\ proc'[p].view = registry
      /\ proc'[p].token = proc[p].token /\ proc'[p].label = proc[p].label
      /\ proc'[p].token # Nobody
  <2> DEFINE at == IF proc[p].at = "run" THEN "register" ELSE "collect"
  <2>1. proc' = [proc EXCEPT ![p] = [proc[p] EXCEPT !.at = at, !.view = registry]]
    BY <1>1 DEF OpenLocked, SessionTypes
  <2>2. [proc[p] EXCEPT !.at = at, !.view = registry] \in Processes
    BY <1>1 DEF SessionTypes, Processes, SessionSteps
  <2>3. proc[p].token # Nobody
    BY DEF OpenLocked, IInv, EveryProcessHasItsToken
  <2> QED
    BY <1>1, <2>1, <2>2, <2>3 DEF SessionTypes, Processes
<1>3. SessionTypes'
  BY <1>1, <1>2 DEF SessionTypes
<1>4. \A q \in Pids : proc[q].at \notin InTheFile
  BY <1>1, NobodyAssumption DEF IInv, HoldsTheLock
<1>5. \A q \in Pids : proc'[q].at \in InTheFile => q = p
  BY <1>2, <1>4
<1>6. HoldsTheLock' /\ ReadsWhatIsThere' /\ SavesTheLive' /\ LeavesNoneOut' /\ InScope' /\ CheckedOrLate'
  BY <1>1, <1>2, <1>5 DEF HoldsTheLock, ReadsWhatIsThere, SavesTheLive, LeavesNoneOut, InScope,
                          CheckedOrLate, InTheFile
<1>7. LiveSessionsAreListed' /\ EveryProcessHasItsToken'
  BY <1>1, <1>2 DEF IInv, LiveSessionsAreListed, EveryProcessHasItsToken
<1> QED
  BY <1>3, <1>6, <1>7 DEF IInv

\* The rest of the way through the file: nobody else is in it.
LEMMA AloneInTheFile ==
  ASSUME IInv, NEW p \in Pids, proc[p].at \in InTheFile
  PROVE  \A q \in Pids \ {p} : proc[q].at \notin InTheFile
BY DEF IInv, HoldsTheLock

LEMMA RegisterKeepsIInv ==
  ASSUME IInv, NEW p \in Pids, Register(p)
  PROVE  IInv'
<1> DEFINE saved == Live(proc[p].view) \cup {RecordOf(p, l) : l \in proc[p].scope}
<1> DEFINE new == [proc[p] EXCEPT !.at = "save", !.view = saved]
<1>1. /\ SessionTypes /\ registryLock' = registryLock /\ registry' = registry
      /\ proc[p].at = "register" /\ proc[p].view = registry /\ proc[p].token # Nobody
  BY DEF IInv, Register, ReadsWhatIsThere, EveryProcessHasItsToken
<1>2. saved \in SUBSET Records
  <2>1. \A l \in proc[p].scope : RecordOf(p, l) \in Records
    BY <1>1 DEF SessionTypes, Processes, RecordOf, Records
  <2> QED
    BY <1>1, <2>1, LiveTypes DEF SessionTypes
<1>3. proc' = [proc EXCEPT ![p] = new]
  BY <1>1 DEF Register, SessionTypes, RecordOf
<1>4. new \in Processes
  BY <1>1, <1>2 DEF SessionTypes, Processes, SessionSteps
<1>5. /\ proc' \in [Pids -> Processes] /\ \A q \in Pids \ {p} : proc'[q] = proc[q]
      /\ proc'[p].at = "save" /\ proc'[p].view = saved /\ proc'[p].scope = proc[p].scope
      /\ proc'[p].token = proc[p].token /\ proc'[p].label = proc[p].label
  BY <1>1, <1>3, <1>4 DEF SessionTypes, Processes
<1> HIDE DEF new, saved
<1>6. \A q \in Pids : proc'[q].at \in InTheFile => q = p
  BY <1>1, <1>5, AloneInTheFile DEF InTheFile
<1>7. SessionTypes' /\ EveryProcessHasItsToken' /\ LiveSessionsAreListed'
  BY <1>1, <1>5 DEF IInv, SessionTypes, EveryProcessHasItsToken, LiveSessionsAreListed
<1>8. HoldsTheLock' /\ ReadsWhatIsThere' /\ LeavesNoneOut' /\ InScope' /\ CheckedOrLate'
  BY <1>1, <1>5, <1>6 DEF IInv, HoldsTheLock, ReadsWhatIsThere, LeavesNoneOut, InScope,
                          CheckedOrLate, InTheFile
<1>9. ASSUME NEW q \in Pids, proc[q].label # Nobody
      PROVE  RecordOf(q, proc[q].label) \in saved
  <2>1. RecordOf(q, proc[q].label) \in registry
    BY <1>9 DEF IInv, LiveSessionsAreListed, RecordOf
  <2>2. IsSameProcess(RecordOf(q, proc[q].label))
    BY DEF IsSameProcess, RecordOf
  <2> QED
    BY <1>1, <2>1, <2>2 DEF saved, Live
<1>10. \A q \in Pids : proc'[q].token = proc[q].token /\ proc'[q].label = proc[q].label
  BY <1>5
<1>11. SavesTheLive'
  <2>1. \A l \in proc[p].scope : RecordOf(p, l) \in saved
    BY DEF saved
  <2>2. proc[p].scope \subseteq Labels /\ \A q \in Pids : proc[q].label \in Labels \cup {Nobody}
    BY <1>1 DEF SessionTypes, Processes
  <2> QED
    BY <1>5, <1>6, <1>9, <1>10, <2>1, <2>2 DEF SavesTheLive, InTheFile, RecordOf
<1> QED
  BY <1>7, <1>8, <1>11 DEF IInv

LEMMA SaveRecordKeepsIInv ==
  ASSUME IInv, NEW p \in Pids, SaveRecord(p)
  PROVE  IInv'
<1>1. /\ SessionTypes /\ registryLock' \in Pids \cup {Nobody} /\ registry' = proc[p].view
      /\ proc[p].at = "save" /\ proc[p].token # Nobody /\ proc[p] \in Processes
  BY DEF IInv, SaveRecord, Released, EveryProcessHasItsToken, SessionTypes
<1>2. PICK l \in proc[p].scope : proc' = [proc EXCEPT ![p] = Process(@.token, "exec", l, {})]
  BY DEF SaveRecord
<1>3. l \in Labels /\ proc[p].token \in Tokens \cup {Nobody} /\ registry' \in SUBSET Records
  BY <1>1, <1>2 DEF Processes
<1>4. Process(proc[p].token, "exec", l, {}) \in Processes
  BY <1>3, ProcessTypes DEF SessionSteps
<1>5. /\ proc' \in [Pids -> Processes] /\ \A q \in Pids \ {p} : proc'[q] = proc[q]
      /\ proc'[p].at = "exec" /\ proc'[p].token = proc[p].token /\ proc'[p].label = l
  BY <1>1, <1>2, <1>4 DEF SessionTypes, Process
<1>6. \A q \in Pids : proc'[q].at \notin InTheFile
  BY <1>1, <1>5, AloneInTheFile DEF InTheFile
<1>7. SessionTypes' /\ EveryProcessHasItsToken'
  BY <1>1, <1>3, <1>5 DEF IInv, SessionTypes, EveryProcessHasItsToken
<1>8. HoldsTheLock' /\ ReadsWhatIsThere' /\ SavesTheLive' /\ LeavesNoneOut' /\ InScope' /\ CheckedOrLate'
  BY <1>6 DEF HoldsTheLock, ReadsWhatIsThere, SavesTheLive, LeavesNoneOut, InScope,
              CheckedOrLate, InTheFile
<1>9. ASSUME NEW q \in Pids, proc'[q].label # Nobody
      PROVE  [pid |-> q, token |-> proc'[q].token, label |-> proc'[q].label] \in registry'
  <2>1. CASE q = p
    BY <1>1, <1>2, <1>5, <2>1 DEF IInv, SavesTheLive, RecordOf
  <2>2. CASE q # p
    BY <1>1, <1>5, <1>9, <2>2 DEF IInv, SavesTheLive, RecordOf
  <2> QED
    BY <2>1, <2>2
<1>10. LiveSessionsAreListed'
  BY <1>9 DEF LiveSessionsAreListed
<1> QED
  BY <1>7, <1>8, <1>10 DEF IInv

LEMMA CollectKeepsIInv ==
  ASSUME IInv, NEW p \in Pids, Collect(p)
  PROVE  IInv'
<1> DEFINE live == Live(proc[p].view)
<1> DEFINE new == [proc[p] EXCEPT !.at = "check", !.view = {},
                                  !.todo = {r \in live : r.label \in proc[p].scope}]
<1>1. /\ SessionTypes /\ registryLock' = registryLock
      /\ proc[p].at = "collect" /\ proc[p].view = registry /\ proc[p].token # Nobody
  BY DEF IInv, Collect, ReadsWhatIsThere, EveryProcessHasItsToken
<1>2. registry' = live /\ live \in SUBSET Records
  BY <1>1, LiveTypes DEF Collect, SessionTypes
<1>3. proc' = [proc EXCEPT ![p] = new]
  BY <1>1 DEF Collect, SessionTypes
<1>4. new \in Processes
  BY <1>1, <1>2 DEF SessionTypes, Processes, SessionSteps
<1>5. /\ proc' \in [Pids -> Processes] /\ \A q \in Pids \ {p} : proc'[q] = proc[q]
      /\ proc'[p].at = "check" /\ proc'[p].scope = proc[p].scope
      /\ proc'[p].todo = {r \in live : r.label \in proc[p].scope}
      /\ proc'[p].token = proc[p].token /\ proc'[p].label = proc[p].label
  BY <1>1, <1>3, <1>4 DEF SessionTypes, Processes
<1> HIDE DEF new, live
<1>6. \A q \in Pids : proc'[q].at \in InTheFile => q = p
  BY <1>1, <1>5, AloneInTheFile DEF InTheFile
<1>7. SessionTypes' /\ EveryProcessHasItsToken'
  BY <1>1, <1>2, <1>5 DEF IInv, SessionTypes, EveryProcessHasItsToken
<1>8. HoldsTheLock' /\ ReadsWhatIsThere' /\ SavesTheLive' /\ LeavesNoneOut' /\ InScope' /\ CheckedOrLate'
  BY <1>1, <1>2, <1>5, <1>6 DEF IInv, HoldsTheLock, ReadsWhatIsThere, SavesTheLive, LeavesNoneOut,
                                InScope, CheckedOrLate, InTheFile
<1>9. ASSUME NEW q \in Pids, proc'[q].label # Nobody
      PROVE  [pid |-> q, token |-> proc'[q].token, label |-> proc'[q].label] \in registry'
  <2>1. proc'[q].label = proc[q].label /\ proc'[q].token = proc[q].token
    BY <1>5
  <2>2. RecordOf(q, proc[q].label) \in registry
    BY <1>9, <2>1 DEF IInv, LiveSessionsAreListed, RecordOf
  <2>3. IsSameProcess(RecordOf(q, proc[q].label))
    BY DEF IsSameProcess, RecordOf
  <2> QED
    BY <1>1, <1>2, <2>1, <2>2, <2>3 DEF live, Live, RecordOf
<1>10. LiveSessionsAreListed'
  BY <1>9 DEF LiveSessionsAreListed
<1> QED
  BY <1>7, <1>8, <1>10 DEF IInv

\* A kill goes on to the next record: it keeps the tokens and the registry, and what
\* it lets go of its list is signalled or no longer the process that was recorded.
LEMMA GoingOnKeepsIInv ==
  ASSUME IInv, NEW p \in Pids, proc[p].at \in {"check", "signal"},
         NEW new \in Processes, proc' = [proc EXCEPT ![p] = new],
         UNCHANGED <<registry, registryLock>>,
         new.token = proc[p].token, new.label = proc[p].label, new.scope = proc[p].scope,
         new.at \in {"check", "signal"}, new.todo \subseteq proc[p].todo,
         new.at = "signal" => /\ new.view \subseteq proc[p].todo
                              /\ \A r \in new.view : IsSameProcess(r),
         proc[p].done \subseteq new.done,
         \A r \in proc[p].todo \ new.todo : IsSameProcess(r) => r.token \in new.done
  PROVE  IInv'
<1>1. SessionTypes /\ proc[p].token # Nobody
  BY DEF IInv, EveryProcessHasItsToken
<1>2. /\ proc' \in [Pids -> Processes] /\ \A q \in Pids \ {p} : proc'[q] = proc[q]
      /\ proc'[p] = new
  BY <1>1 DEF SessionTypes
<1>3. \A q \in Pids : proc'[q].at \in InTheFile => q = p
  BY <1>2, AloneInTheFile DEF InTheFile
<1>4. \A q \in Pids : proc'[q].token = proc[q].token /\ proc'[q].label = proc[q].label
  BY <1>2
<1>5. SessionTypes' /\ EveryProcessHasItsToken' /\ LiveSessionsAreListed'
  BY <1>1, <1>2 DEF IInv, SessionTypes, EveryProcessHasItsToken, LiveSessionsAreListed
<1>6. HoldsTheLock' /\ ReadsWhatIsThere' /\ SavesTheLive'
  BY <1>2, <1>3 DEF IInv, HoldsTheLock, ReadsWhatIsThere, SavesTheLive, InTheFile
<1>7. LeavesNoneOut'
  <2> SUFFICES ASSUME NEW r \in registry, r.label \in proc[p].scope, IsSameProcess(r)'
               PROVE  r \in new.todo \/ r.token \in new.done
    BY <1>2, <1>3 DEF LeavesNoneOut, InTheFile
  <2>1. r.pid \in Pids
    BY <1>1, RecordTypes DEF SessionTypes
  <2>2. IsSameProcess(r)
    BY <1>4, <2>1 DEF IsSameProcess
  <2>3. r \in proc[p].todo \/ r.token \in proc[p].done
    BY <2>2 DEF IInv, LeavesNoneOut
  <2> QED
    BY <2>2, <2>3
<1>8. InScope'
  <2>1. \A r \in proc[p].todo : r.label \in proc[p].scope
    BY DEF IInv, InScope
  <2> QED
    BY <1>2, <1>3, <2>1 DEF InScope, InTheFile
<1>9. CheckedOrLate'
  <2> SUFFICES ASSUME new.at = "signal", NEW r \in new.view
               PROVE  proc'[r.pid].token = r.token
    BY <1>2, <1>3 DEF CheckedOrLate, InTheFile
  <2>1. r.pid \in Pids
    BY <1>1, RecordTypes DEF SessionTypes, Processes
  <2> QED
    BY <1>4, <2>1 DEF IsSameProcess
<1> QED
  BY <1>5, <1>6, <1>7, <1>8, <1>9 DEF IInv

LEMMA CheckKeepsIInv ==
  ASSUME IInv, NEW p \in Pids, Check(p)
  PROVE  IInv'
<1>1. /\ SessionTypes /\ proc[p] \in Processes /\ proc[p].at = "check"
      /\ UNCHANGED <<registry, registryLock>>
  BY DEF IInv, SessionTypes, Check
<1>2. PICK r \in proc[p].todo :
        proc' = IF IsSameProcess(r) THEN [proc EXCEPT ![p].at = "signal", ![p].view = {r}]
                ELSE [proc EXCEPT ![p].todo = @ \ {r}]
  BY DEF Check
<1>3. r \in Records
  BY <1>1, <1>2 DEF Processes
<1>4. CASE IsSameProcess(r)
  <2> DEFINE new == [proc[p] EXCEPT !.at = "signal", !.view = {r}]
  <2>1. proc' = [proc EXCEPT ![p] = new]
    BY <1>1, <1>2, <1>4 DEF SessionTypes
  <2>2. /\ new \in Processes /\ new.at = "signal" /\ new.view = {r}
        /\ new.token = proc[p].token /\ new.label = proc[p].label /\ new.scope = proc[p].scope
        /\ new.todo = proc[p].todo /\ new.done = proc[p].done
    BY <1>1, <1>3 DEF Processes, SessionSteps
  <2> HIDE DEF new
  <2> QED
    BY <1>1, <1>4, <2>1, <2>2, GoingOnKeepsIInv
<1>5. CASE ~IsSameProcess(r)
  <2> DEFINE new == [proc[p] EXCEPT !.todo = @ \ {r}]
  <2>1. proc' = [proc EXCEPT ![p] = new]
    BY <1>1, <1>2, <1>5 DEF SessionTypes
  <2>2. /\ new \in Processes /\ new.at = "check"
        /\ new.token = proc[p].token /\ new.label = proc[p].label /\ new.scope = proc[p].scope
        /\ new.todo = proc[p].todo \ {r} /\ new.done = proc[p].done
    BY <1>1 DEF Processes
  <2> HIDE DEF new
  <2> QED
    BY <1>1, <1>5, <2>1, <2>2, GoingOnKeepsIInv
<1> QED
  BY <1>4, <1>5

LEMMA SignalKeepsIInv ==
  ASSUME IInv, NEW p \in Pids, Signal(p)
  PROVE  IInv'
<1>1. /\ SessionTypes /\ proc[p] \in Processes /\ proc[p].at = "signal"
      /\ UNCHANGED <<registry, registryLock>>
  BY DEF IInv, SessionTypes, Signal
<1>2. PICK r \in proc[p].view :
        proc' = [proc EXCEPT ![p].at = "check", ![p].view = {}, ![p].late = {},
                             ![p].todo = @ \ {r},
                             ![p].done = IF Alive(r.pid) THEN @ \cup {proc[r.pid].token} ELSE @]
  BY DEF Signal
<1>3. r \in Records /\ r.pid \in Pids /\ r.token # Nobody
  BY <1>1, <1>2, RecordTypes DEF Processes
<1> DEFINE done == IF Alive(r.pid) THEN proc[p].done \cup {proc[r.pid].token} ELSE proc[p].done
<1> DEFINE new == [proc[p] EXCEPT !.at = "check", !.view = {}, !.late = {}, !.todo = @ \ {r},
                                  !.done = done]
<1>4. proc' = [proc EXCEPT ![p] = new]
  BY <1>1, <1>2 DEF SessionTypes
<1>5. done \in SUBSET Tokens
  BY <1>1, <1>3 DEF SessionTypes, Processes, Alive
<1>6. proc[p].done \subseteq done /\ (IsSameProcess(r) => r.token \in done)
  BY <1>3 DEF Alive, IsSameProcess
<1> HIDE DEF done
<1>7. /\ new \in Processes /\ new.at = "check"
      /\ new.token = proc[p].token /\ new.label = proc[p].label /\ new.scope = proc[p].scope
      /\ new.todo = proc[p].todo \ {r} /\ new.done = done
  BY <1>1, <1>5 DEF Processes, SessionSteps
<1> HIDE DEF new
<1> QED
  BY <1>1, <1>4, <1>6, <1>7, GoingOnKeepsIInv

LEMMA NextIInv == IInv /\ [SessionNext]_sessionVars => IInv'
<1> SUFFICES ASSUME IInv, [SessionNext]_sessionVars PROVE IInv'
  OBVIOUS
<1>1. CASE UNCHANGED sessionVars
  BY <1>1 DEF sessionVars, IInv, SessionTypes, EveryProcessHasItsToken, HoldsTheLock,
              ReadsWhatIsThere, SavesTheLive, RecordOf, LeavesNoneOut, InScope, CheckedOrLate,
              LiveSessionsAreListed, IsSameProcess
<1>2. CASE SessionNext
  BY <1>2, StartKeepsIInv, ReexecKeepsIInv, ExitKeepsIInv, OpenLockedKeepsIInv, RegisterKeepsIInv,
     SaveRecordKeepsIInv, ExecKeepsIInv, CollectKeepsIInv, CheckKeepsIInv, SignalKeepsIInv,
     SignalRefusedKeepsIInv, ReportKeepsIInv
     DEF SessionNext
<1> QED
  BY <1>1, <1>2

-----------------------------------------------------------------------------
\* Processes and records are of their types, and who reads or writes the registry
\* holds its lock.
THEOREM SessionTyping == SessionSpec => [](SessionTypes /\ HoldsTheLock)
<1>1. IInv => SessionTypes /\ HoldsTheLock
  BY DEF IInv
<1> QED
  BY <1>1, InitIInv, NextIInv, PTL DEF SessionSpec

\* A session that runs is in sessions.toml, whatever other commands read before and
\* write after it was recorded, and whenever they end.
THEOREM LiveSessionsAreAlwaysListed == SessionSpec => []LiveSessionsAreListed
<1>1. IInv => LiveSessionsAreListed
  BY DEF IInv
<1> QED
  BY <1>1, InitIInv, NextIInv, PTL DEF SessionSpec

\* What a signal is sent to: what `kill` verified, or what came since.
LEMMA SignalReachesTheChecked ==
  ASSUME IInv, NEW p \in Pids, Signal(p), NEW t \in proc'[p].done \ proc[p].done
  PROVE  (\E r \in proc[p].view : r.token = t /\ r.label \in proc[p].scope) \/ t \in proc[p].late
<1>1. PICK r \in proc[p].view :
        proc' = [proc EXCEPT ![p].at = "check", ![p].view = {}, ![p].late = {},
                             ![p].todo = @ \ {r},
                             ![p].done = IF Alive(r.pid) THEN @ \cup {proc[r.pid].token} ELSE @]
  BY DEF Signal
<1>2. proc[p] \in Processes /\ proc \in [Pids -> Processes]
  BY DEF IInv, SessionTypes
<1>3. Alive(r.pid) /\ t = proc[r.pid].token
  BY <1>1, <1>2 DEF Processes
<1>4. t \in {r.token} \cup proc[p].late
  BY <1>3 DEF Alive, IInv, CheckedOrLate, Signal
<1>5. r.label \in proc[p].scope
  BY DEF IInv, InScope, Signal
<1> QED
  BY <1>4, <1>5

\* Every other step leaves the signals as they are, or ends the command that sent them.
LEMMA OtherStepsSignalNothing ==
  ASSUME IInv, NEW q \in Pids,
         NEW p \in Pids,
         \/ Start(p) \/ Reexec(p) \/ Exit(p) \/ OpenLocked(p) \/ Register(p) \/ SaveRecord(p)
         \/ Exec(p) \/ Collect(p) \/ Check(p) \/ (Signal(p) /\ q # p) \/ SignalRefused(p) \/ Report(p)
  PROVE  proc'[q].done \subseteq proc[q].done
<1>1. proc \in [Pids -> Processes]
  BY DEF IInv, SessionTypes
<1>2. CASE Start(p)
  BY <1>1, <1>2 DEF Start, Process, Processes
<1>3. CASE Reexec(p) \/ Exit(p) \/ SaveRecord(p) \/ SignalRefused(p)
  BY <1>1, <1>3 DEF Reexec, Exit, SaveRecord, SignalRefused, Process, NoProcess
<1>4. CASE OpenLocked(p) \/ Register(p) \/ Exec(p) \/ Report(p)
  BY <1>1, <1>4 DEF OpenLocked, Register, Exec, Report, Processes
<1>5. CASE Collect(p)
  BY <1>1, <1>5 DEF Collect, Processes
<1>6. CASE Check(p)
  <2> PICK r \in proc[p].todo :
         proc' = IF IsSameProcess(r) THEN [proc EXCEPT ![p].at = "signal", ![p].view = {r}]
                 ELSE [proc EXCEPT ![p].todo = @ \ {r}]
    BY <1>6 DEF Check
  <2>1. CASE IsSameProcess(r)
    BY <1>1, <2>1 DEF Processes
  <2>2. CASE ~IsSameProcess(r)
    BY <1>1, <2>2 DEF Processes
  <2> QED
    BY <2>1, <2>2
<1>7. CASE Signal(p) /\ q # p
  BY <1>1, <1>7 DEF Signal
<1> QED
  BY <1>2, <1>3, <1>4, <1>5, <1>6, <1>7

\* `sessions kill` signals what it checked, or what started with the pid after the
\* check, never what was there before.
THEOREM OnlyTheCheckedIsSignalled == SessionSpec => SignalsOnlyWhatItChecked
<1>1. IInv /\ [SessionNext]_sessionVars =>
        [\A p \in Pids :
           \A t \in proc'[p].done \ proc[p].done :
             \/ \E r \in proc[p].view : r.token = t /\ r.label \in proc[p].scope
             \/ t \in proc[p].late]_sessionVars
  <2> SUFFICES ASSUME IInv, SessionNext, NEW q \in Pids, NEW t \in proc'[q].done \ proc[q].done
               PROVE  \/ \E r \in proc[q].view : r.token = t /\ r.label \in proc[q].scope
                      \/ t \in proc[q].late
    OBVIOUS
  <2> PICK p \in Pids :
         \/ Start(p) \/ Reexec(p) \/ Exit(p) \/ OpenLocked(p) \/ Register(p) \/ SaveRecord(p) \/ Exec(p)
         \/ Collect(p) \/ Check(p) \/ Signal(p) \/ SignalRefused(p) \/ Report(p)
    BY DEF SessionNext
  <2>1. Signal(p) /\ q = p
    <3>1. ~(proc'[q].done \subseteq proc[q].done)
      OBVIOUS
    <3> QED
      BY <3>1, OtherStepsSignalNothing
  <2> QED
    BY <2>1, SignalReachesTheChecked
<1> QED
  BY <1>1, InitIInv, NextIInv, PTL DEF SessionSpec, SignalsOnlyWhatItChecked

\* A kill that reports has signalled every session of its scope that is recorded and
\* runs: none it passed over, none recorded while it was at work.
THEOREM AKillReachesItsScope == SessionSpec => KillReachesItsScope
<1>1. IInv /\ [SessionNext]_sessionVars =>
        [\A p \in Pids :
           proc[p].at = "check" /\ proc'[p].at = "reported" =>
             \A r \in registry :
               r.label \in proc[p].scope /\ IsSameProcess(r) => r.token \in proc[p].done]_sessionVars
  <2> SUFFICES ASSUME IInv, SessionNext, NEW q \in Pids,
                      proc[q].at = "check", proc'[q].at = "reported"
               PROVE  proc[q].todo = {}
    BY DEF IInv, LeavesNoneOut
  <2> PICK p \in Pids :
         \/ Start(p) \/ Reexec(p) \/ Exit(p) \/ OpenLocked(p) \/ Register(p) \/ SaveRecord(p) \/ Exec(p)
         \/ Collect(p) \/ Check(p) \/ Signal(p) \/ SignalRefused(p) \/ Report(p)
    BY DEF SessionNext
  <2>1. proc \in [Pids -> Processes]
    BY DEF IInv, SessionTypes
  <2>2. CASE Start(p)
    <3>1. p # q
      BY <2>2 DEF Start, Alive, IInv, EveryProcessHasItsToken
    <3>2. proc'[q].at = proc[q].at
      BY <2>1, <2>2, <3>1 DEF Start, Processes
    <3> QED
      BY <3>2
  <2>3. CASE Report(p)
    BY <2>1, <2>3 DEF Report
  <2>4. CASE Check(p)
    <3>1. proc'[q].at \in {proc[q].at, "signal"}
      <4> PICK r \in proc[p].todo :
             proc' = IF IsSameProcess(r) THEN [proc EXCEPT ![p].at = "signal", ![p].view = {r}]
                     ELSE [proc EXCEPT ![p].todo = @ \ {r}]
        BY <2>4 DEF Check
      <4>1. CASE IsSameProcess(r)
        BY <2>1, <4>1 DEF Processes
      <4>2. CASE ~IsSameProcess(r)
        BY <2>1, <4>2 DEF Processes
      <4> QED
        BY <4>1, <4>2
    <3> QED
      BY <3>1
  <2>5. CASE Exit(p)
    BY <2>1, <2>5 DEF Exit, NoProcess, Process
  <2>6. CASE Reexec(p) \/ OpenLocked(p) \/ Register(p) \/ SaveRecord(p) \/ Exec(p) \/ Collect(p)
             \/ Signal(p) \/ SignalRefused(p)
    <3>1. p # q
      BY <2>6 DEF Reexec, OpenLocked, Register, SaveRecord, Exec, Collect, Signal, SignalRefused
    <3> QED
      BY <2>1, <2>6, <3>1
         DEF Reexec, OpenLocked, Register, SaveRecord, Exec, Collect, Signal, SignalRefused
  <2> QED
    BY <2>2, <2>3, <2>4, <2>5, <2>6
<1> QED
  BY <1>1, InitIInv, NextIInv, PTL DEF SessionSpec, KillReachesItsScope

-----------------------------------------------------------------------------
(* Reminders.                                                                *)

UpdatingRecords ==
  [at : {"rest", "read", "write"}, vault : ReminderVaults \cup {NoVault}, advise : BOOLEAN,
   view : SUBSET ReminderVaults, alone : BOOLEAN]

ReminderTypes ==
  /\ second \in SUBSET ReminderVaults
  /\ exposed \in SUBSET ReminderVaults
  /\ reminders \in SUBSET ReminderVaults
  /\ updating \in [ReminderProcs -> UpdatingRecords]
  /\ settled \in SUBSET ReminderVaults
  /\ \A p \in ReminderProcs : updating[p].at # "rest" => updating[p].vault \in ReminderVaults

\* Who is alone is the only one at work, and its reminder is the one its vault needs.
AloneIsRight ==
  \A p \in ReminderProcs : updating[p].alone =>
    /\ Busy = {p}
    /\ updating[p].advise <=> updating[p].vault \in exposed

\* Whoever is about to write has what is right of every vault that is settled: what
\* it lost since it read belongs to vaults that are not.
ViewsAreRight ==
  \A p \in ReminderProcs : updating[p].at = "write" =>
    \A v \in settled : v \in updating[p].view <=> v \in exposed

ReminderIInv == ReminderTypes /\ AloneIsRight /\ ViewsAreRight /\ SettledRemindersAreRight

LEMMA ReminderInitIInv == ReminderInit => ReminderIInv
BY DEF ReminderInit, ReminderIInv, ReminderTypes, AloneIsRight, ViewsAreRight,
       SettledRemindersAreRight, Resting, Updating, UpdatingRecords

\* Steps that change the vaults, or what is settled of them.
LEMMA VaultStepKeepsIInv ==
  ASSUME ReminderIInv, ReminderTypes', AloneIsRight', reminders' = reminders,
         \A q \in ReminderProcs : updating'[q].at = "write" =>
            updating[q].at = "write" /\ updating'[q].view = updating[q].view,
         settled' \subseteq settled, \A v \in settled' : v \in exposed' <=> v \in exposed
  PROVE  ReminderIInv'
BY DEF ReminderIInv, ViewsAreRight, SettledRemindersAreRight

LEMMA SavedKeepsIInv ==
  ASSUME ReminderIInv, NEW p \in ReminderProcs, NEW v \in ReminderVaults, NEW known \in BOOLEAN,
         Saved(p, v, known), second' \in SUBSET ReminderVaults
  PROVE  ReminderIInv'
<1> DEFINE new == [Updating("read", v, known) EXCEPT !.alone = Busy = {}]
<1>1. /\ ReminderTypes /\ updating[p].at = "rest" /\ reminders' = reminders
      /\ exposed' = With(exposed, v, known) /\ settled' = settled \ {v}
  BY DEF ReminderIInv, Saved
<1>2. /\ new \in UpdatingRecords /\ new.at = "read" /\ new.vault = v /\ new.advise = known
      /\ new.alone => Busy = {}
  BY DEF Updating, UpdatingRecords
<1>3. /\ updating' \in [ReminderProcs -> UpdatingRecords] /\ updating'[p] = new
      /\ \A q \in ReminderProcs \ {p} : /\ updating'[q].at = updating[q].at
                                        /\ updating'[q].vault = updating[q].vault
                                        /\ updating'[q].view = updating[q].view
                                        /\ ~updating'[q].alone
  BY <1>1, <1>2 DEF Saved, ReminderTypes, UpdatingRecords
<1> HIDE DEF new
<1>4. ReminderTypes'
  BY <1>1, <1>2, <1>3 DEF ReminderTypes, With
<1>5. AloneIsRight'
  <2> SUFFICES ASSUME NEW q \in ReminderProcs, updating'[q].alone
               PROVE  Busy' = {q} /\ (updating'[q].advise <=> updating'[q].vault \in exposed')
    BY DEF AloneIsRight
  <2>1. q = p
    BY <1>3
  <2>2. \A r \in ReminderProcs \ {p} : updating[r].at = "rest"
    BY <1>2, <1>3, <2>1 DEF Busy
  <2>3. Busy' = {p}
    BY <1>2, <1>3, <2>2 DEF Busy
  <2> QED
    BY <1>1, <1>2, <1>3, <2>1, <2>3 DEF With
<1> QED
  BY <1>1, <1>2, <1>3, <1>4, <1>5, VaultStepKeepsIInv DEF With

LEMMA ReadStateKeepsIInv ==
  ASSUME ReminderIInv, NEW p \in ReminderProcs, ReadState(p)
  PROVE  ReminderIInv'
<1> DEFINE new == [updating[p] EXCEPT !.at = "write", !.view = reminders]
<1>1. /\ ReminderTypes /\ updating[p].at = "read"
      /\ UNCHANGED <<second, exposed, reminders, settled>>
  BY DEF ReminderIInv, ReadState
<1>2. updating' = [updating EXCEPT ![p] = new]
  BY <1>1 DEF ReadState, ReminderTypes
<1>3. /\ new \in UpdatingRecords /\ new.at = "write" /\ new.view = reminders
      /\ new.vault = updating[p].vault /\ new.advise = updating[p].advise
      /\ new.alone = updating[p].alone
  BY <1>1 DEF ReminderTypes, UpdatingRecords
<1> HIDE DEF new
<1>4. /\ updating' \in [ReminderProcs -> UpdatingRecords] /\ updating'[p] = new
      /\ \A q \in ReminderProcs \ {p} : updating'[q] = updating[q]
  BY <1>1, <1>2, <1>3 DEF ReminderTypes
<1>5. ReminderTypes'
  BY <1>1, <1>3, <1>4 DEF ReminderTypes
<1>6. Busy' = Busy
  BY <1>1, <1>3, <1>4 DEF Busy
<1>7. AloneIsRight'
  BY <1>1, <1>3, <1>4, <1>6 DEF ReminderIInv, AloneIsRight
<1>8. ViewsAreRight'
  BY <1>1, <1>3, <1>4 DEF ReminderIInv, ViewsAreRight, SettledRemindersAreRight
<1> QED
  BY <1>1, <1>5, <1>7, <1>8 DEF ReminderIInv, SettledRemindersAreRight

\* A command is done or gives up: who is alone was and stays the only one at work.
LEMMA RestingTypes ==
  ASSUME ReminderIInv, NEW p \in ReminderProcs, updating[p].at # "rest",
         updating' = [updating EXCEPT ![p] = Resting], exposed' = exposed
  PROVE  /\ updating' \in [ReminderProcs -> UpdatingRecords]
         /\ updating'[p].at = "rest" /\ \A q \in ReminderProcs \ {p} : updating'[q] = updating[q]
         /\ AloneIsRight'
<1>1. Resting \in UpdatingRecords /\ Resting.at = "rest" /\ ~Resting.alone
  BY DEF Resting, Updating, UpdatingRecords
<1>2. /\ updating' \in [ReminderProcs -> UpdatingRecords] /\ updating'[p] = Resting
      /\ \A q \in ReminderProcs \ {p} : updating'[q] = updating[q]
  BY <1>1 DEF ReminderIInv, ReminderTypes
<1>3. p \in Busy
  BY DEF Busy
<1>4. \A q \in ReminderProcs : ~updating'[q].alone
  BY <1>1, <1>2, <1>3 DEF ReminderIInv, AloneIsRight
<1> QED
  BY <1>1, <1>2, <1>4 DEF AloneIsRight

LEMMA WriteStateKeepsIInv ==
  ASSUME ReminderIInv, NEW p \in ReminderProcs, WriteState(p)
  PROVE  ReminderIInv'
<1> DEFINE v == updating[p].vault
<1>1. /\ ReminderTypes /\ updating[p].at = "write" /\ UNCHANGED <<second, exposed>>
      /\ updating' = [updating EXCEPT ![p] = Resting]
      /\ reminders' = With(updating[p].view, v, updating[p].advise)
      /\ settled' = With(settled, v, updating[p].alone)
  BY DEF ReminderIInv, WriteState
<1>2. /\ updating' \in [ReminderProcs -> UpdatingRecords]
      /\ updating'[p].at = "rest" /\ \A q \in ReminderProcs \ {p} : updating'[q] = updating[q]
      /\ AloneIsRight'
  BY <1>1, RestingTypes
<1>3. v \in ReminderVaults /\ updating[p].view \in SUBSET ReminderVaults
  BY <1>1 DEF ReminderTypes, UpdatingRecords
<1>4. ReminderTypes'
  BY <1>1, <1>2, <1>3 DEF ReminderTypes, With
<1>5. \A w \in settled : w \in updating[p].view <=> w \in exposed
  BY <1>1 DEF ReminderIInv, ViewsAreRight
<1>6. CASE updating[p].alone
  <2>1. (updating[p].advise <=> v \in exposed) /\ Busy = {p}
    BY <1>6 DEF ReminderIInv, AloneIsRight
  <2>2. \A q \in ReminderProcs : updating'[q].at = "rest"
    BY <1>2, <2>1 DEF Busy
  <2>3. SettledRemindersAreRight'
    BY <1>1, <1>3, <1>5, <1>6, <2>1 DEF SettledRemindersAreRight, With
  <2> QED
    BY <1>2, <1>4, <2>2, <2>3 DEF ReminderIInv, ViewsAreRight
<1>7. CASE ~updating[p].alone
  <2>1. settled' = settled \ {v}
    BY <1>1, <1>7 DEF With
  <2>2. SettledRemindersAreRight'
    BY <1>1, <1>5, <2>1 DEF SettledRemindersAreRight, With
  <2>3. ViewsAreRight'
    BY <1>1, <1>2, <2>1 DEF ReminderIInv, ViewsAreRight
  <2> QED
    BY <1>2, <1>4, <2>2, <2>3 DEF ReminderIInv
<1> QED
  BY <1>6, <1>7

LEMMA StopUpdateKeepsIInv ==
  ASSUME ReminderIInv, NEW p \in ReminderProcs, StopUpdate(p)
  PROVE  ReminderIInv'
<1>1. /\ UNCHANGED <<second, exposed, reminders, settled>> /\ ReminderTypes
      /\ updating' \in [ReminderProcs -> UpdatingRecords]
      /\ updating'[p].at = "rest" /\ \A q \in ReminderProcs \ {p} : updating'[q] = updating[q]
      /\ AloneIsRight'
  BY RestingTypes DEF StopUpdate, ReminderIInv
<1>2. ReminderTypes'
  BY <1>1 DEF ReminderTypes
<1> QED
  BY <1>1, <1>2, VaultStepKeepsIInv

LEMMA RestoreCopyKeepsIInv ==
  ASSUME ReminderIInv, NEW v \in ReminderVaults, RestoreCopy(v)
  PROVE  ReminderIInv'
<1>1. ReminderTypes /\ reminders' = reminders /\ settled' = settled \ {v}
  BY DEF ReminderIInv, RestoreCopy
<1>2. PICK known \in BOOLEAN, more \in BOOLEAN :
        exposed' = With(exposed, v, known) /\ second' = With(second, v, more)
  BY DEF RestoreCopy
<1>3. /\ updating' \in [ReminderProcs -> UpdatingRecords]
      /\ \A q \in ReminderProcs : /\ updating'[q].at = updating[q].at
                                  /\ updating'[q].vault = updating[q].vault
                                  /\ updating'[q].view = updating[q].view
                                  /\ ~updating'[q].alone
  BY <1>1 DEF RestoreCopy, ReminderTypes, UpdatingRecords
<1>4. ReminderTypes' /\ AloneIsRight'
  BY <1>1, <1>2, <1>3 DEF ReminderTypes, AloneIsRight, With
<1> QED
  BY <1>1, <1>2, <1>3, <1>4, VaultStepKeepsIInv DEF With

LEMMA ReminderNextIInv == ReminderIInv /\ [ReminderNext]_reminderVars => ReminderIInv'
<1> SUFFICES ASSUME ReminderIInv, [ReminderNext]_reminderVars PROVE ReminderIInv'
  OBVIOUS
<1>1. CASE UNCHANGED reminderVars
  BY <1>1 DEF reminderVars, ReminderIInv, ReminderTypes, AloneIsRight, ViewsAreRight,
              SettledRemindersAreRight, Busy
<1>2. ASSUME NEW v \in ReminderVaults, AddRecipient(v)
      PROVE  ReminderIInv'
  <2>1. second' \in SUBSET ReminderVaults /\ UNCHANGED <<exposed, reminders, updating, settled>>
    BY <1>2 DEF AddRecipient, ReminderIInv, ReminderTypes
  <2> QED
    BY <2>1 DEF ReminderIInv, ReminderTypes, AloneIsRight, ViewsAreRight, SettledRemindersAreRight,
                Busy
<1>3. ASSUME NEW p \in ReminderProcs, NEW v \in ReminderVaults, RemoveRecipient(p, v)
      PROVE  ReminderIInv'
  <2>1. second' \in SUBSET ReminderVaults
    BY <1>3 DEF RemoveRecipient, ReminderIInv, ReminderTypes
  <2>2. PICK rotate \in BOOLEAN : Saved(p, v, ~rotate)
    BY <1>3 DEF RemoveRecipient
  <2>3. (~rotate) \in BOOLEAN
    OBVIOUS
  <2> QED
    BY <2>1, <2>2, <2>3, SavedKeepsIInv
<1>4. ASSUME NEW p \in ReminderProcs, NEW v \in ReminderVaults, RotateKey(p, v)
      PROVE  ReminderIInv'
  BY <1>4, SavedKeepsIInv DEF RotateKey, ReminderIInv, ReminderTypes
<1> QED
  BY <1>1, <1>2, <1>3, <1>4, RestoreCopyKeepsIInv, ReadStateKeepsIInv, WriteStateKeepsIInv,
     StopUpdateKeepsIInv
     DEF ReminderNext

\* Vaults and commands are of their types; a command that is alone is the only one at
\* work and has the right reminder for its vault.
THEOREM ReminderTyping == ReminderSpec => [](ReminderTypes /\ AloneIsRight)
<1>1. ReminderIInv => ReminderTypes /\ AloneIsRight
  BY DEF ReminderIInv
<1> QED
  BY <1>1, ReminderInitIInv, ReminderNextIInv, PTL DEF ReminderSpec

\* A vault whose last command had security-state.toml for itself has the reminder it
\* should have, however commands on other vaults overlap, stop or restore.
THEOREM SettledRemindersAreAlwaysRight == ReminderSpec => []SettledRemindersAreRight
<1>1. ReminderIInv => SettledRemindersAreRight
  BY DEF ReminderIInv
<1> QED
  BY <1>1, ReminderInitIInv, ReminderNextIInv, PTL DEF ReminderSpec

-----------------------------------------------------------------------------
(* Shims.                                                                    *)

DoingRecords ==
  [at : {"idle", "save", "resave", "write"}, sync : BOOLEAN, view : Bindings,
   todo : SUBSET ShimCommands, alone : BOOLEAN]

ShimTypes ==
  /\ primary \in Bindings /\ fragment \in Bindings
  /\ dirs \in ShimDirs
  /\ files \in [Dirs -> [ShimCommands -> Contents]]
  /\ doing \in [ShimProcs -> DoingRecords]
  /\ trusted \in BOOLEAN
  /\ \A s \in ShimProcs : /\ doing[s].todo \subseteq DOMAIN doing[s].view
                          /\ doing[s].sync => doing[s].at = "write"

AloneAtWork ==
  \A s \in ShimProcs : doing[s].alone => doing[s].at # "idle" /\ NobodyElse(s)

TrustedWorkIsAlone ==
  trusted => \A s \in ShimProcs : doing[s].at # "idle" => doing[s].alone

\* Who writes alone writes the bindings that are there, and has written those that
\* are not left to do.
AloneWritesWhatIsBound ==
  \A s \in ShimProcs : doing[s].alone =>
    /\ doing[s].at = "save" => doing[s].todo = DOMAIN doing[s].view
    /\ doing[s].at = "resave" => doing[s].view = primary
    /\ doing[s].at = "write" =>
         /\ doing[s].view = IF doing[s].sync THEN Merged ELSE primary
         /\ \A c \in DOMAIN doing[s].view \ doing[s].todo :
              files[SyncDir(s)][c] = doing[s].view[c]

\* ShimsFollowBindings, also while the bindings are only about to be saved.
TrustedShimsFollow ==
  trusted /\ PrimaryDir = MergedDir /\ (\A s \in ShimProcs : doing[s].at # "write") =>
    \A c \in ShimCommands :
      /\ Managed(files[PrimaryDir][c]) =>
           \E b \in {primary, fragment} : c \in DOMAIN b /\ files[PrimaryDir][c] = b[c]
      /\ c \in DOMAIN primary => files[PrimaryDir][c] = primary[c]

ShimIInv ==
  /\ ShimTypes
  /\ AloneAtWork
  /\ TrustedWorkIsAlone
  /\ AloneWritesWhatIsBound
  /\ TrustedShimsFollow

LEMMA BindingsFacts ==
  /\ \A b \in Bindings : DOMAIN b \subseteq ShimCommands /\ b \in [DOMAIN b -> ShimProfiles]
  /\ \A C \in SUBSET ShimCommands : [C -> ShimProfiles] \subseteq Bindings
  /\ <<>> \in Bindings /\ DOMAIN <<>> = {}
<1>1. <<>> \in [{} -> ShimProfiles]
  OBVIOUS
<1> QED
  BY <1>1 DEF Bindings

\* What an operation makes of bindings are bindings.
LEMMA ChangedTypes ==
  ASSUME NEW b \in Bindings, NEW op \in Ops
  PROVE  Changed(b, op) \subseteq Bindings
<1>1. DOMAIN b \in SUBSET ShimCommands /\ b \in [DOMAIN b -> ShimProfiles]
  BY BindingsFacts
<1>2. ASSUME NEW d \in Bindings, NEW q \in ShimProfiles, NEW c \in ShimCommands
      PROVE  Bound(d, q, c) \in Bindings
  <2>1. Bound(d, q, c) \in [DOMAIN d \cup {c} -> ShimProfiles]
    BY BindingsFacts DEF Bound
  <2> QED
    BY <2>1, BindingsFacts
<1>3. ASSUME NEW d \in Bindings, NEW c \in ShimCommands
      PROVE  Unbound(d, c) \in Bindings
  <2>1. Unbound(d, c) \in [DOMAIN d \ {c} -> ShimProfiles]
    BY BindingsFacts DEF Unbound, Restrict
  <2> QED
    BY <2>1, BindingsFacts
<1>4. CASE op.kind = "bind"
  BY <1>2, <1>4 DEF Ops, Op, Changed
<1>5. CASE op.kind = "unbind"
  BY <1>3, <1>5 DEF Ops, Op, Changed
<1>6. CASE op.kind = "rename"
  <2>1. op.x \in ShimCommands /\ op.y \in ShimCommands
    BY <1>6 DEF Ops, Op
  <2>2. op.x \in DOMAIN b => Unbound(Bound(b, b[op.x], op.y), op.x) \in Bindings
    BY <1>1, <1>2, <1>3, <2>1
  <2> QED
    BY <1>6, <2>2 DEF Changed, Recommanded
<1>7. CASE op.kind = "reprofile"
  <2>1. op.x \in ShimProfiles /\ op.y \in ShimProfiles
    BY <1>7 DEF Ops, Op
  <2>2. Reprofiled(b, op.x, op.y) \in [DOMAIN b -> ShimProfiles]
    BY <1>1, <2>1 DEF Reprofiled
  <2> QED
    BY <1>1, <1>7, <2>2, BindingsFacts DEF Changed
<1> QED
  BY <1>4, <1>5, <1>6, <1>7 DEF Ops, Op

LEMMA MergedTypes ==
  ASSUME primary \in Bindings, fragment \in Bindings
  PROVE  /\ Merged \in Bindings
         /\ DOMAIN Merged = DOMAIN primary \cup DOMAIN fragment
         /\ \A c \in DOMAIN primary : Merged[c] = primary[c]
         /\ \A c \in DOMAIN Merged \ DOMAIN primary : Merged[c] = fragment[c]
<1>1. Merged \in [DOMAIN primary \cup DOMAIN fragment -> ShimProfiles]
  BY BindingsFacts DEF Merged
<1> QED
  BY <1>1, BindingsFacts DEF Merged

\* No file but a shim is what a profile is called.
LEMMA Unmanaged == ~Managed("foreign") /\ ~Managed(Absent)
BY AbsentAssumption DEF Managed

LEMMA ShimInitIInv == ShimInit => ShimIInv
<1> SUFFICES ASSUME ShimInit PROVE ShimIInv
  OBVIOUS
<1>1. primary = <<>> /\ fragment \in Bindings /\ dirs \in ShimDirs /\ trusted = TRUE
  BY DEF ShimInit
<1>2. /\ Idle \in DoingRecords /\ Idle.at = "idle" /\ Idle.sync = FALSE /\ Idle.todo = {}
      /\ Idle.alone = FALSE
  BY BindingsFacts DEF Idle, DoingRecords
<1>3. files \in [Dirs -> [ShimCommands -> {"foreign", Absent}]]
  BY DEF ShimInit
<1>4. doing = [s \in ShimProcs |-> Idle]
  BY DEF ShimInit
<1>5. ShimTypes
  BY <1>1, <1>2, <1>3, <1>4, BindingsFacts DEF ShimTypes, Contents
<1>6. AloneAtWork /\ TrustedWorkIsAlone /\ AloneWritesWhatIsBound
  BY <1>2, <1>4 DEF AloneAtWork, TrustedWorkIsAlone, AloneWritesWhatIsBound
<1>7. PrimaryDir = MergedDir => PrimaryDir \in Dirs
  BY <1>1, DirsAssumption DEF PrimaryDir, MergedDir, ResolveDir, Dirs
<1>8. TrustedShimsFollow
  BY <1>1, <1>3, <1>7, BindingsFacts, Unmanaged DEF TrustedShimsFollow
<1> QED
  BY <1>5, <1>6, <1>8 DEF ShimIInv

LEMMA DirTypes ==
  ASSUME dirs \in ShimDirs
  PROVE  PrimaryDir \in Dirs /\ MergedDir \in Dirs /\ \A s \in ShimProcs : SyncDir(s) \in Dirs
BY DirsAssumption DEF PrimaryDir, MergedDir, SyncDir, ResolveDir, Dirs

\* A command begins: it knows what it is to do, and whether it is alone.
LEMMA BeginsKeepsIInv ==
  ASSUME ShimIInv, NEW s \in ShimProcs, NEW next \in DoingRecords, Begins(s, next),
         next.at # "idle", next.sync => next.at = "write", next.todo \subseteq DOMAIN next.view,
         next.at = "save" => next.todo = DOMAIN next.view,
         next.at = "resave" => next.view = primary,
         next.at = "write" => next.sync /\ next.view = Merged /\ next.todo = DOMAIN next.view
  PROVE  ShimIInv'
<1> DEFINE alone == NobodyElse(s)
<1> DEFINE new == [next EXCEPT !.alone = alone]
<1>1. /\ ShimTypes /\ doing[s].at = "idle" /\ UNCHANGED <<primary, fragment, dirs, files>>
      /\ trusted' = (trusted /\ alone)
  BY DEF ShimIInv, Begins
<1>2. alone \in BOOLEAN
  BY DEF NobodyElse
<1>3. /\ new \in DoingRecords /\ new.at = next.at /\ new.sync = next.sync /\ new.view = next.view
      /\ new.todo = next.todo /\ new.alone = alone
  BY <1>2 DEF DoingRecords
<1>4. doing' = [t \in ShimProcs |-> IF t = s THEN new ELSE [doing[t] EXCEPT !.alone = FALSE]]
  BY DEF Begins
<1> HIDE DEF new
<1>5. /\ doing' \in [ShimProcs -> DoingRecords] /\ doing'[s] = new
      /\ \A t \in ShimProcs \ {s} : /\ doing'[t].at = doing[t].at
                                    /\ doing'[t].sync = doing[t].sync
                                    /\ doing'[t].view = doing[t].view
                                    /\ doing'[t].todo = doing[t].todo
                                    /\ doing'[t].alone = FALSE
  BY <1>1, <1>3, <1>4 DEF ShimTypes, DoingRecords
<1>6. ShimTypes'
  BY <1>1, <1>2, <1>3, <1>5 DEF ShimTypes
<1>7. AloneAtWork'
  BY <1>3, <1>5 DEF AloneAtWork, NobodyElse
<1>8. TrustedWorkIsAlone'
  BY <1>1, <1>3, <1>5 DEF TrustedWorkIsAlone, NobodyElse
<1>9. AloneWritesWhatIsBound'
  BY <1>1, <1>3, <1>5 DEF AloneWritesWhatIsBound, Merged
<1>10. TrustedShimsFollow'
  <2> SUFFICES ASSUME trusted', PrimaryDir = MergedDir, \A t \in ShimProcs : doing'[t].at # "write"
               PROVE  \A t \in ShimProcs : doing[t].at # "write"
    BY <1>1 DEF ShimIInv, TrustedShimsFollow, PrimaryDir, MergedDir
  <2> QED
    BY <1>1, <1>5
<1> QED
  BY <1>6, <1>7, <1>8, <1>9, <1>10 DEF ShimIInv

LEMMA ChangeKeepsIInv ==
  ASSUME ShimIInv, NEW s \in ShimProcs, NEW op \in Ops, Change(s, op)
  PROVE  ShimIInv'
<1>1. PICK b \in Changed(primary, op) :
        Begins(s, [Idle EXCEPT !.at = IF b = primary THEN "resave" ELSE "save",
                               !.view = b, !.todo = IF b = primary THEN {} ELSE DOMAIN b])
  BY DEF Change
<1> DEFINE next == [Idle EXCEPT !.at = IF b = primary THEN "resave" ELSE "save",
                                !.view = b, !.todo = IF b = primary THEN {} ELSE DOMAIN b]
<1>2. b \in Bindings /\ DOMAIN b \subseteq ShimCommands
  BY ChangedTypes, BindingsFacts DEF ShimIInv, ShimTypes
<1>3. /\ next \in DoingRecords /\ next.view = b /\ next.sync = FALSE
      /\ \/ next.at = "resave" /\ b = primary /\ next.todo = {}
         \/ next.at = "save" /\ next.todo = DOMAIN b
  BY <1>2 DEF Idle, DoingRecords
<1> HIDE DEF next
<1> QED
  BY <1>1, <1>3, BeginsKeepsIInv DEF next

LEMMA SyncKeepsIInv ==
  ASSUME ShimIInv, NEW s \in ShimProcs, Sync(s)
  PROVE  ShimIInv'
<1> DEFINE next == [Idle EXCEPT !.at = "write", !.sync = TRUE, !.view = Merged,
                                !.todo = DOMAIN Merged]
<1>1. Merged \in Bindings /\ DOMAIN Merged \subseteq ShimCommands
  BY MergedTypes, BindingsFacts DEF ShimIInv, ShimTypes
<1>2. /\ next \in DoingRecords /\ next.view = Merged /\ next.at = "write" /\ next.sync = TRUE
      /\ next.todo = DOMAIN Merged
  BY <1>1 DEF Idle, DoingRecords
<1>3. Begins(s, next)
  BY DEF Sync
<1> HIDE DEF next
<1> QED
  BY <1>2, <1>3, BeginsKeepsIInv

\* A command that is alone is the only one at work.
LEMMA NoneBesidesOneAlone ==
  ASSUME ShimIInv, NEW s \in ShimProcs, doing[s].at # "idle",
         NEW t \in ShimProcs, t # s
  PROVE  ~doing[t].alone
BY DEF ShimIInv, AloneAtWork, NobodyElse

\* A command is done with the bindings or the shims, or stops.
LEMMA EndsFacts ==
  ASSUME ShimIInv, NEW s \in ShimProcs, doing[s].at # "idle", Ends(s)
  PROVE  /\ doing' \in [ShimProcs -> DoingRecords] /\ doing'[s] = Idle
         /\ Idle.at = "idle" /\ Idle.sync = FALSE /\ Idle.todo = {} /\ Idle.alone = FALSE
         /\ \A t \in ShimProcs \ {s} : doing'[t] = doing[t] /\ ~doing[t].alone
         /\ AloneAtWork' /\ AloneWritesWhatIsBound'
<1>1. /\ Idle \in DoingRecords /\ Idle.at = "idle" /\ Idle.sync = FALSE /\ Idle.todo = {}
      /\ Idle.alone = FALSE
  BY BindingsFacts DEF Idle, DoingRecords
<1>2. /\ doing' \in [ShimProcs -> DoingRecords] /\ doing'[s] = Idle
      /\ \A t \in ShimProcs \ {s} : doing'[t] = doing[t]
  BY <1>1 DEF Ends, ShimIInv, ShimTypes
<1>3. \A t \in ShimProcs \ {s} : ~doing[t].alone
  BY NoneBesidesOneAlone
<1> QED
  BY <1>1, <1>2, <1>3 DEF AloneAtWork, AloneWritesWhatIsBound

LEMMA SaveBindingsKeepsIInv ==
  ASSUME ShimIInv, NEW s \in ShimProcs, SaveBindings(s)
  PROVE  ShimIInv'
<1>1. /\ ShimTypes /\ doing[s].at \in {"save", "resave"} /\ doing[s] \in DoingRecords
      /\ primary' = doing[s].view /\ UNCHANGED <<fragment, dirs, files, trusted>>
      /\ doing[s].view \in Bindings
  BY DEF ShimIInv, SaveBindings, ShimTypes, DoingRecords
<1>2. \A t \in ShimProcs \ {s} : ~doing[t].alone
  BY <1>1, NoneBesidesOneAlone
<1>3. CASE doing[s].at = "resave"
  <2>1. Ends(s)
    BY <1>3 DEF SaveBindings
  <2>2. ShimTypes' /\ AloneAtWork' /\ AloneWritesWhatIsBound' /\ TrustedWorkIsAlone'
    BY <1>1, <1>3, <2>1, EndsFacts DEF ShimTypes, ShimIInv, TrustedWorkIsAlone
  <2>3. ASSUME trusted
        PROVE  primary' = primary /\ \A t \in ShimProcs : doing[t].at # "write"
    <3>1. doing[s].alone
      BY <1>1, <2>3 DEF ShimIInv, TrustedWorkIsAlone
    <3> QED
      BY <1>1, <1>3, <3>1 DEF ShimIInv, AloneWritesWhatIsBound, AloneAtWork, NobodyElse
  <2>4. TrustedShimsFollow'
    BY <1>1, <2>3 DEF ShimIInv, TrustedShimsFollow, PrimaryDir, MergedDir
  <2> QED
    BY <2>2, <2>4 DEF ShimIInv
<1>4. CASE doing[s].at = "save"
  <2> DEFINE new == [doing[s] EXCEPT !.at = "write"]
  <2>1. doing' = [doing EXCEPT ![s] = new]
    BY <1>1, <1>4 DEF SaveBindings, ShimTypes
  <2>2. /\ new \in DoingRecords /\ new.at = "write" /\ new.sync = doing[s].sync
        /\ new.view = doing[s].view /\ new.todo = doing[s].todo /\ new.alone = doing[s].alone
    BY <1>1 DEF DoingRecords
  <2> HIDE DEF new
  <2>3. /\ doing' \in [ShimProcs -> DoingRecords] /\ doing'[s] = new
        /\ \A t \in ShimProcs \ {s} : doing'[t] = doing[t]
    BY <1>1, <2>1, <2>2 DEF ShimTypes
  <2>4. ShimTypes'
    BY <1>1, <2>2, <2>3 DEF ShimTypes
  <2>5. AloneAtWork' /\ TrustedWorkIsAlone'
    BY <1>1, <1>2, <2>2, <2>3 DEF ShimIInv, AloneAtWork, TrustedWorkIsAlone, NobodyElse
  <2>6. AloneWritesWhatIsBound'
    <3>1. doing[s].sync = FALSE
      BY <1>1, <1>4 DEF ShimTypes, DoingRecords
    <3>2. doing[s].alone => doing[s].todo = DOMAIN doing[s].view
      BY <1>4 DEF ShimIInv, AloneWritesWhatIsBound
    <3> QED
      BY <1>1, <1>2, <2>2, <2>3, <3>1, <3>2 DEF AloneWritesWhatIsBound
  <2>7. TrustedShimsFollow'
    BY <2>2, <2>3 DEF TrustedShimsFollow
  <2> QED
    BY <2>4, <2>5, <2>6, <2>7 DEF ShimIInv
<1> QED
  BY <1>1, <1>3, <1>4

LEMMA WriteShimKeepsIInv ==
  ASSUME ShimIInv, NEW s \in ShimProcs, WriteShim(s)
  PROVE  ShimIInv'
<1> DEFINE dir == SyncDir(s)
<1>1. /\ ShimTypes /\ doing[s].at = "write" /\ doing[s] \in DoingRecords
      /\ UNCHANGED <<primary, fragment, dirs, trusted>>
  BY DEF ShimIInv, WriteShim, ShimTypes
<1>2. PICK c \in doing[s].todo :
        /\ files' = [files EXCEPT ![dir][c] = doing[s].view[c]]
        /\ doing' = [doing EXCEPT ![s].todo = @ \ {c}]
  BY DEF WriteShim
<1>3. /\ dir \in Dirs /\ c \in ShimCommands /\ c \in DOMAIN doing[s].view
      /\ doing[s].view[c] \in ShimProfiles
  <2>1. doing[s].view \in Bindings /\ doing[s].todo \subseteq DOMAIN doing[s].view
    BY <1>1 DEF ShimTypes, DoingRecords
  <2> QED
    BY <1>1, <1>2, <2>1, BindingsFacts, DirTypes DEF ShimTypes
<1> HIDE DEF dir
<1>4. /\ files' \in [Dirs -> [ShimCommands -> Contents]]
      /\ files'[dir][c] = doing[s].view[c]
      /\ \A d \in ShimCommands \ {c} : files'[dir][d] = files[dir][d]
  BY <1>1, <1>2, <1>3 DEF ShimTypes, Contents
<1> DEFINE new == [doing[s] EXCEPT !.todo = @ \ {c}]
<1>5. doing' = [doing EXCEPT ![s] = new]
  BY <1>1, <1>2 DEF ShimTypes
<1>6. /\ new \in DoingRecords /\ new.at = "write" /\ new.sync = doing[s].sync
      /\ new.view = doing[s].view /\ new.todo = doing[s].todo \ {c} /\ new.alone = doing[s].alone
  BY <1>1 DEF DoingRecords
<1> HIDE DEF new
<1>7. /\ doing' \in [ShimProcs -> DoingRecords] /\ doing'[s] = new
      /\ \A t \in ShimProcs \ {s} : doing'[t] = doing[t]
  BY <1>1, <1>5, <1>6 DEF ShimTypes
<1>8. ShimTypes'
  BY <1>1, <1>4, <1>6, <1>7 DEF ShimTypes
<1>9. AloneAtWork' /\ TrustedWorkIsAlone'
  BY <1>1, <1>6, <1>7 DEF ShimIInv, AloneAtWork, TrustedWorkIsAlone, NobodyElse
<1>10. AloneWritesWhatIsBound'
  <2> SUFFICES ASSUME doing[s].alone
               PROVE  /\ doing[s].view = IF doing[s].sync THEN Merged ELSE primary
                      /\ \A d \in DOMAIN doing[s].view \ (doing[s].todo \ {c}) :
                           files'[dir][d] = doing[s].view[d]
    <3>1. \A t \in ShimProcs \ {s} : ~doing'[t].alone
      BY <1>1, <1>7, NoneBesidesOneAlone
    <3>2. SyncDir(s)' = dir /\ Merged' = Merged
      BY <1>1, <1>6, <1>7 DEF dir, SyncDir, PrimaryDir, MergedDir, Merged
    <3> QED
      BY <1>1, <1>6, <1>7, <3>1, <3>2 DEF AloneWritesWhatIsBound
  <2>1. /\ doing[s].view = IF doing[s].sync THEN Merged ELSE primary
        /\ \A d \in DOMAIN doing[s].view \ doing[s].todo : files[dir][d] = doing[s].view[d]
    BY <1>1 DEF ShimIInv, AloneWritesWhatIsBound, dir
  <2>2. DOMAIN doing[s].view \subseteq ShimCommands
    BY <1>1, BindingsFacts DEF DoingRecords
  <2> QED
    BY <1>4, <2>1, <2>2
<1>11. TrustedShimsFollow'
  BY <1>6, <1>7 DEF TrustedShimsFollow
<1> QED
  BY <1>8, <1>9, <1>10, <1>11 DEF ShimIInv

LEMMA StopKeepsIInv ==
  ASSUME ShimIInv, NEW s \in ShimProcs, Stop(s)
  PROVE  ShimIInv'
<1>1. /\ ShimTypes /\ doing[s].at # "idle" /\ Ends(s) /\ trusted' = FALSE
      /\ UNCHANGED <<primary, fragment, dirs, files>>
  BY DEF ShimIInv, Stop
<1>2. ShimTypes' /\ AloneAtWork' /\ AloneWritesWhatIsBound'
  BY <1>1, EndsFacts DEF ShimTypes
<1>3. TrustedWorkIsAlone' /\ TrustedShimsFollow'
  BY <1>1 DEF TrustedWorkIsAlone, TrustedShimsFollow
<1> QED
  BY <1>2, <1>3 DEF ShimIInv

\* What removing the stale shims leaves.
LEMMA RemoveStaleLeaves ==
  ASSUME ShimIInv, NEW s \in ShimProcs, RemoveStale(s)
  PROVE  /\ files' \in [Dirs -> [ShimCommands -> Contents]]
         /\ \A c \in ShimCommands :
              /\ c \in DOMAIN doing[s].view => files'[SyncDir(s)][c] = files[SyncDir(s)][c]
              /\ Managed(files'[SyncDir(s)][c]) => c \in DOMAIN doing[s].view
         /\ \A d \in Dirs, c \in ShimCommands : files[d][c] = "foreign" => files'[d][c] = "foreign"
<1> DEFINE dir == SyncDir(s)
<1> DEFINE gone == Unwanted(dir, doing[s].view)
<1>1. files \in [Dirs -> [ShimCommands -> Contents]] /\ dir \in Dirs
  BY DirTypes DEF ShimIInv, ShimTypes
<1>2. files' = [files EXCEPT ![dir] = [c \in ShimCommands |-> IF c \in gone THEN Absent ELSE @[c]]]
  BY DEF RemoveStale
<1> HIDE DEF dir
<1>3. /\ \A d \in Dirs \ {dir} : files'[d] = files[d]
      /\ \A c \in ShimCommands : files'[dir][c] = IF c \in gone THEN Absent ELSE files[dir][c]
      /\ files' \in [Dirs -> [ShimCommands -> Contents]]
  BY <1>1, <1>2 DEF Contents
<1>4. \A c \in ShimCommands :
        c \in gone <=> c \notin DOMAIN doing[s].view /\ Managed(files[dir][c])
  BY DEF Unwanted
<1>5. \A d \in Dirs, c \in ShimCommands : files[d][c] = "foreign" => files'[d][c] = "foreign"
  BY <1>3, <1>4, Unmanaged
<1> QED
  BY <1>3, <1>4, <1>5, Unmanaged DEF dir

\* After a command that was alone, the files follow the bindings.
LEMMA AloneLeavesWhatIsBound ==
  ASSUME ShimIInv, NEW s \in ShimProcs, RemoveStale(s), doing[s].alone, PrimaryDir = MergedDir,
         NEW c \in ShimCommands
  PROVE  /\ Managed(files'[PrimaryDir][c]) =>
              \E b \in {primary, fragment} : c \in DOMAIN b /\ files'[PrimaryDir][c] = b[c]
         /\ c \in DOMAIN primary => files'[PrimaryDir][c] = primary[c]
<1> DEFINE view == doing[s].view
<1>1. /\ doing[s].at = "write" /\ doing[s].todo = {} /\ ShimTypes
      /\ SyncDir(s) = PrimaryDir
  BY DEF ShimIInv, RemoveStale, SyncDir
<1>2. /\ view = IF doing[s].sync THEN Merged ELSE primary
      /\ \A d \in DOMAIN view : files[PrimaryDir][d] = view[d]
  BY <1>1 DEF ShimIInv, AloneWritesWhatIsBound
<1>3. /\ c \in DOMAIN view => files'[PrimaryDir][c] = view[c]
      /\ Managed(files'[PrimaryDir][c]) => c \in DOMAIN view
  BY <1>1, <1>2, RemoveStaleLeaves
<1>4. CASE doing[s].sync
  BY <1>1, <1>2, <1>3, <1>4, MergedTypes DEF ShimTypes
<1>5. CASE ~doing[s].sync
  BY <1>2, <1>3, <1>5
<1> QED
  BY <1>4, <1>5

LEMMA RemoveStaleKeepsIInv ==
  ASSUME ShimIInv, NEW s \in ShimProcs, RemoveStale(s)
  PROVE  ShimIInv'
<1>1. /\ ShimTypes /\ doing[s].at = "write" /\ Ends(s)
      /\ UNCHANGED <<primary, fragment, dirs>>
      /\ trusted' = (trusted \/ (doing[s].sync /\ doing[s].alone))
  BY DEF ShimIInv, RemoveStale
<1>2. doing[s].sync \in BOOLEAN /\ doing[s].alone \in BOOLEAN
  BY <1>1 DEF ShimTypes, DoingRecords
<1>3. ShimTypes' /\ AloneAtWork' /\ AloneWritesWhatIsBound'
  <2>1. trusted' \in BOOLEAN
    BY <1>1
  <2>2. /\ doing' \in [ShimProcs -> DoingRecords] /\ doing'[s] = Idle
        /\ Idle.at = "idle" /\ Idle.sync = FALSE /\ Idle.todo = {}
        /\ \A t \in ShimProcs \ {s} : doing'[t] = doing[t]
        /\ AloneAtWork' /\ AloneWritesWhatIsBound'
    BY <1>1, EndsFacts
  <2>3. files' \in [Dirs -> [ShimCommands -> Contents]]
    BY RemoveStaleLeaves
  <2> QED
    BY <1>1, <2>1, <2>2, <2>3 DEF ShimTypes
<1>4. trusted' => doing[s].alone
  BY <1>1, <1>2 DEF ShimIInv, TrustedWorkIsAlone
<1>5. doing[s].alone => \A t \in ShimProcs : doing'[t].at = "idle"
  <2>1. /\ doing'[s].at = "idle"
        /\ \A t \in ShimProcs \ {s} : doing'[t] = doing[t]
    BY <1>1, EndsFacts
  <2> QED
    BY <2>1 DEF ShimIInv, AloneAtWork, NobodyElse
<1>6. TrustedWorkIsAlone'
  BY <1>4, <1>5 DEF TrustedWorkIsAlone
<1>7. TrustedShimsFollow'
  <2> SUFFICES ASSUME doing[s].alone, PrimaryDir = MergedDir, NEW c \in ShimCommands
               PROVE  /\ Managed(files'[PrimaryDir][c]) =>
                           \E b \in {primary, fragment} : c \in DOMAIN b /\ files'[PrimaryDir][c] = b[c]
                      /\ c \in DOMAIN primary => files'[PrimaryDir][c] = primary[c]
    BY <1>1, <1>4 DEF TrustedShimsFollow, PrimaryDir, MergedDir, Managed
  <2> QED
    BY AloneLeavesWhatIsBound
<1> QED
  BY <1>3, <1>6, <1>7 DEF ShimIInv

LEMMA ShimNextIInv == ShimIInv /\ [ShimNext]_shimVars => ShimIInv'
<1> SUFFICES ASSUME ShimIInv, [ShimNext]_shimVars PROVE ShimIInv'
  OBVIOUS
<1>1. CASE UNCHANGED shimVars
  <2>1. ShimTypes' /\ AloneAtWork' /\ TrustedWorkIsAlone'
    BY <1>1 DEF shimVars, ShimIInv, ShimTypes, AloneAtWork, TrustedWorkIsAlone, NobodyElse
  <2>2. AloneWritesWhatIsBound' /\ TrustedShimsFollow'
    BY <1>1 DEF shimVars, ShimIInv, AloneWritesWhatIsBound, TrustedShimsFollow, SyncDir, PrimaryDir,
                MergedDir, Merged, Managed
  <2> QED
    BY <2>1, <2>2 DEF ShimIInv
<1>2. CASE ShimNext
  BY <1>2, ChangeKeepsIInv, SyncKeepsIInv, SaveBindingsKeepsIInv, WriteShimKeepsIInv,
     RemoveStaleKeepsIInv, StopKeepsIInv
     DEF ShimNext
<1> QED
  BY <1>1, <1>2

\* Bindings, files and commands are of their types; what a command has left to write
\* it has a binding for.
THEOREM ShimTyping == ShimSpec => []ShimTypes
<1>1. ShimIInv => ShimTypes
  BY DEF ShimIInv
<1> QED
  BY <1>1, ShimInitIInv, ShimNextIInv, PTL DEF ShimSpec

\* As long as commands run one at a time and to their end, or since a `shims sync` that
\* did, no shim is of another profile than its command is bound to, none is left of a
\* binding that is gone, and every binding of bindings.toml has its shim.
THEOREM ShimsAlwaysFollowBindings == ShimSpec => []ShimsFollowBindings
<1>1. ShimIInv => ShimsFollowBindings
  <2> SUFFICES ASSUME ShimIInv, trusted, PrimaryDir = MergedDir, NEW s \in ShimProcs,
                      doing[s].at = "idle", NobodyElse(s)
               PROVE  \A t \in ShimProcs : doing[t].at # "write"
    BY DEF ShimsFollowBindings, ShimIInv, TrustedShimsFollow
  <2> QED
    BY DEF NobodyElse
<1> QED
  BY <1>1, ShimInitIInv, ShimNextIInv, PTL DEF ShimSpec

\* A file that is no shim is replaced only when a command that is being carried out
\* binds its name.
THEOREM OtherFilesAlwaysStay == ShimSpec => OtherFilesStay
<1>1. ShimIInv /\ [ShimNext]_shimVars =>
        [\A d \in Dirs, c \in ShimCommands :
           files[d][c] = "foreign" /\ files'[d][c] # "foreign"
             => \E s \in ShimProcs : c \in DOMAIN doing[s].view]_shimVars
  <2> SUFFICES ASSUME ShimIInv, ShimNext, NEW d \in Dirs, NEW c \in ShimCommands,
                      files[d][c] = "foreign", files'[d][c] # "foreign"
               PROVE  \E s \in ShimProcs : c \in DOMAIN doing[s].view
    OBVIOUS
  <2>1. PICK s \in ShimProcs : WriteShim(s)
    BY RemoveStaleLeaves DEF ShimNext, Change, Sync, Begins, SaveBindings, Stop
  <2>2. PICK b \in doing[s].todo :
          files' = [files EXCEPT ![SyncDir(s)][b] = doing[s].view[b]]
    BY <2>1 DEF WriteShim
  <2>3. files \in [Dirs -> [ShimCommands -> Contents]] /\ doing[s].todo \subseteq DOMAIN doing[s].view
    BY DEF ShimIInv, ShimTypes
  <2>4. c = b
    BY <2>2, <2>3
  <2> QED
    BY <2>3, <2>4
<1> QED
  BY <1>1, ShimInitIInv, ShimNextIInv, PTL DEF ShimSpec, OtherFilesStay

\* A `shims sync` that was alone from beginning to end leaves a shim for everything
\* that is bound, whatever was lost before it.
THEOREM SyncAlwaysRepairs == ShimSpec => SyncRepairs
<1>1. ShimIInv /\ [ShimNext]_shimVars =>
        [\A s \in ShimProcs :
           doing[s].sync /\ doing[s].at = "write" /\ doing[s].alone
               /\ doing'[s].at = "idle" /\ trusted'
             => \A c \in DOMAIN Merged : files'[MergedDir][c] = Merged[c]]_shimVars
  <2> SUFFICES ASSUME ShimIInv, ShimNext, NEW s \in ShimProcs,
                      doing[s].sync, doing[s].at = "write", doing[s].alone,
                      doing'[s].at = "idle", trusted',
                      NEW c \in DOMAIN Merged
               PROVE  files'[MergedDir][c] = Merged[c]
    OBVIOUS
  <2>1. RemoveStale(s)
    <3>1. PICK t \in ShimProcs :
            \/ \E op \in Ops : Change(t, op)
            \/ Sync(t) \/ SaveBindings(t) \/ WriteShim(t) \/ RemoveStale(t) \/ Stop(t)
      BY DEF ShimNext
    <3>2. /\ doing \in [ShimProcs -> DoingRecords] /\ doing[s].at = "write"
          /\ trusted' # FALSE
      BY DEF ShimIInv, ShimTypes
    <3>3. ~Stop(t)
      BY <3>2 DEF Stop
    <3>4. ASSUME NEW next, Begins(t, next)
          PROVE  FALSE
      BY <3>4 DEF Begins, ShimIInv, AloneAtWork, NobodyElse
    <3>5. t = s
      BY <3>1, <3>2, <3>3, <3>4 DEF Change, Sync, SaveBindings, WriteShim, RemoveStale, Ends
    <3>6. ~SaveBindings(t) /\ ~WriteShim(t)
      <4>1. ASSUME NEW d, doing' = [doing EXCEPT ![s].todo = @ \ {d}]
            PROVE  doing'[s].at = "write"
        BY <3>2, <4>1 DEF DoingRecords
      <4> QED
        BY <3>2, <3>5, <4>1 DEF SaveBindings, WriteShim
    <3> QED
      BY <3>1, <3>3, <3>4, <3>5, <3>6 DEF Change, Sync
  <2>2. /\ doing[s].todo = {} /\ doing[s].view = Merged /\ SyncDir(s) = MergedDir
        /\ \A d \in DOMAIN Merged : files[MergedDir][d] = Merged[d]
    BY <2>1 DEF RemoveStale, ShimIInv, AloneWritesWhatIsBound, SyncDir
  <2>3. c \in ShimCommands
    BY MergedTypes, BindingsFacts DEF ShimIInv, ShimTypes
  <2> QED
    BY <2>1, <2>2, <2>3, RemoveStaleLeaves
<1> QED
  BY <1>1, ShimInitIInv, ShimNextIInv, PTL DEF ShimSpec, SyncRepairs

-----------------------------------------------------------------------------
(* Operations.                                                               *)

OperationIInv == OperationTypeOK /\ AnswersStand

LEMMA OperationInitIInv == OperationInit => OperationIInv
<1> SUFFICES ASSUME OperationInit PROVE OperationIInv
  OBVIOUS
<1>1. OperationTypeOK
  BY DEF OperationInit, OperationTypeOK, Callings
<1>2. AnswersStand
  BY DEF OperationInit, AnswersStand
<1> QED
  BY <1>1, <1>2 DEF OperationIInv

\* A caller that is at work has named an operation.
LEMMA AtWork ==
  ASSUME OperationTypeOK, NEW c \in Callers, calling[c].at # "rest"
  PROVE  /\ calling[c] \in [call : Calls, op : Operations, at : {"read", "add", "readback"},
                            key : Keys \cup {Vacant}]
         /\ calling[c].op \in Operations
<1>1. calling[c] \in Callings
  BY DEF OperationTypeOK
<1> QED
  BY <1>1 DEF Callings, NotCalling

LEMMA EndsTyped ==
  ASSUME OperationTypeOK, NEW c \in Callers, EndsCall(c)
  PROVE  calling' \in [Callers -> Callings]
BY DEF OperationTypeOK, EndsCall, Callings

\* An answer is what the record holds, and the record stays.
LEMMA AnsweringKeepsIInv ==
  ASSUME OperationIInv, NEW c \in Callers, calling[c].at # "rest",
         Answerable(c, record[calling[c].op]), Says(c, record[calling[c].op])
  PROVE  OperationIInv'
<1> DEFINE op == calling[c].op
<1>1. op \in Operations
  BY AtWork DEF OperationIInv
<1>2. record[op] \in Keys \cup {Tombstone}
  BY DEF Answerable
<1>3. record' = record /\ answers' = [answers EXCEPT ![op] = @ \cup {record[op]}]
  BY DEF Says
<1>4. answers' \in [Operations -> SUBSET (Keys \cup {Tombstone})]
  BY <1>1, <1>2, <1>3 DEF OperationIInv, OperationTypeOK
<1>5. calling' \in [Callers -> Callings]
  BY EndsTyped DEF Says, OperationIInv
<1>6. OperationTypeOK'
  BY <1>3, <1>4, <1>5 DEF OperationIInv, OperationTypeOK
<1>7. AnswersStand'
  BY <1>1, <1>3 DEF OperationIInv, AnswersStand, OperationTypeOK
<1> QED
  BY <1>6, <1>7 DEF OperationIInv

\* Steps of a caller that leave the Keychain and the answers alone.
LEMMA CallingKeepsIInv ==
  ASSUME OperationIInv, calling' \in [Callers -> Callings], UNCHANGED <<record, answers>>
  PROVE  OperationIInv'
BY DEF OperationIInv, OperationTypeOK, AnswersStand

\* What is added takes the place of nothing that was answered.
LEMMA AddingKeepsIInv ==
  ASSUME OperationIInv, NEW c \in Callers, AddRecord(c)
  PROVE  OperationIInv'
<1> DEFINE op == calling[c].op
<1>1. /\ op \in Operations
      /\ calling[c] \in [call : Calls, op : Operations, at : {"read", "add", "readback"},
                         key : Keys \cup {Vacant}]
  BY AtWork DEF AddRecord, OperationIInv
<1>2. Own(c) \in Keys \cup {Tombstone, Vacant}
  BY <1>1 DEF Own
<1>3. record' \in [Operations -> Keys \cup {Tombstone, Vacant}]
  BY <1>1, <1>2 DEF AddRecord, OperationIInv, OperationTypeOK
<1>4. calling' \in [Callers -> Callings]
  BY <1>1 DEF AddRecord, OperationIInv, OperationTypeOK, Callings
<1>5. OperationTypeOK'
  BY <1>3, <1>4 DEF AddRecord, OperationIInv, OperationTypeOK
<1>6. ASSUME NEW o \in Operations
      PROVE  answers[o] \subseteq {record'[o]}
  <2>1. answers[o] \subseteq {record[o]} /\ Vacant \notin answers[o]
    BY OperationAssumption DEF OperationIInv, AnswersStand, OperationTypeOK
  <2>2. CASE record[o] = Vacant
    BY <2>1, <2>2
  <2>3. CASE record[o] # Vacant
    BY <1>1, <2>1, <2>3 DEF AddRecord, OperationIInv, OperationTypeOK
  <2> QED
    BY <2>2, <2>3
<1>7. AnswersStand'
  BY <1>6 DEF AnswersStand, AddRecord
<1> QED
  BY <1>5, <1>7 DEF OperationIInv

LEMMA OperationNextIInv == OperationIInv /\ [OperationNext]_operationVars => OperationIInv'
<1> SUFFICES ASSUME OperationIInv, [OperationNext]_operationVars PROVE OperationIInv'
  OBVIOUS
<1>1. ASSUME NEW c \in Callers, NEW call \in Calls, NEW op \in Operations, Call(c, call, op)
      PROVE  OperationIInv'
  <2>1. calling' \in [Callers -> Callings]
    BY <1>1 DEF Call, OperationIInv, OperationTypeOK, Callings
  <2> QED
    BY <1>1, <2>1, CallingKeepsIInv DEF Call
<1>2. ASSUME NEW c \in Callers, ReadRecord(c)
      PROVE  OperationIInv'
  BY <1>2, AnsweringKeepsIInv DEF ReadRecord
<1>3. ASSUME NEW c \in Callers, FindVacant(c)
      PROVE  OperationIInv'
  <2>1. calling[c] \in [call : Calls, op : Operations, at : {"read", "add", "readback"},
                        key : Keys \cup {Vacant}]
    BY <1>3, AtWork DEF FindVacant, OperationIInv
  <2>2. calling' \in [Callers -> Callings]
    BY <1>3, <2>1 DEF FindVacant, OperationIInv, OperationTypeOK, Callings
  <2> QED
    BY <1>3, <2>2, CallingKeepsIInv DEF FindVacant
<1>4. ASSUME NEW c \in Callers, AddRecord(c)
      PROVE  OperationIInv'
  BY <1>4, AddingKeepsIInv
<1>5. ASSUME NEW c \in Callers, ReadBack(c)
      PROVE  OperationIInv'
  BY <1>5, AnsweringKeepsIInv DEF ReadBack
<1>6. ASSUME NEW c \in Callers, Break(c)
      PROVE  OperationIInv'
  <2>1. calling' \in [Callers -> Callings]
    BY <1>6, EndsTyped DEF Break, OperationIInv
  <2> QED
    BY <1>6, <2>1, CallingKeepsIInv DEF Break
<1>7. CASE UNCHANGED operationVars
  BY <1>7 DEF operationVars, OperationIInv, OperationTypeOK, AnswersStand
<1> QED
  BY <1>1, <1>2, <1>3, <1>4, <1>5, <1>6, <1>7 DEF OperationNext

\* The variables hold what they should: keys, tombstones, callers at their steps.
THEOREM OperationTyping == OperationSpec => []OperationTypeOK
<1>1. OperationIInv => OperationTypeOK
  BY DEF OperationIInv
<1> QED
  BY <1>1, OperationInitIInv, OperationNextIInv, PTL DEF OperationSpec

\* What any retrieve, provision or reconcile ever answered of an operation is what
\* the Keychain has, however the calls overlap and wherever they break off.
THEOREM AnswersAlwaysStand == OperationSpec => []AnswersStand
<1>1. OperationIInv => AnswersStand
  BY DEF OperationIInv
<1> QED
  BY <1>1, OperationInitIInv, OperationNextIInv, PTL DEF OperationSpec

-----------------------------------------------------------------------------
(* Device seals.                                                             *)

SealSteps   == {"load", "store", "fill", "context", "save"}
KeptSecrets == [store : Secrets \cup {NoSecret, Torn}, file : Secrets \cup {NoSecret, Torn}]
SealRecords == [backend : SealBackends, key : Secrets]
SealingRecords ==
  [at : SealSteps, vault : SealedVaults, backend : SealBackends, secret : Secrets \cup {NoSecret}]

SealTypes ==
  /\ kept \in [SealBackends -> KeptSecrets]
  /\ \A b \in SealBackends \ Tpms : kept[b].store # Torn /\ kept[b].file # Torn
  /\ seals \in [SealedVaults -> SealRecords \cup {NoSeal}]
  /\ sealing \in [Sealers -> SealingRecords \cup {NotSealing}]
  /\ \A p \in Sealers : sealing[p].at \in SealSteps \ {"load"} => sealing[p].secret \in Secrets
  /\ contested \in [SealBackends -> SUBSET Secrets]

\* Where a seal with the key k is looked up in backend b, k is found.
Held(b, k) ==
  \/ kept[b].store = k
  \/ b \in WithFallback /\ kept[b].store \notin Secrets /\ kept[b].file = k

\* A vault is sealed with the key k of backend b, or about to be.
InASeal(b, k) ==
  \/ \E v \in SealedVaults : seals[v] # NoSeal /\ seals[v].backend = b /\ seals[v].key = k
  \/ \E p \in Sealers : Sealing(p, "save", b) /\ sealing[p].secret = k

\* What nobody contests is kept, and nobody is about to store another.
SealsAreHeld(b) ==
  \A k \in Secrets \ contested[b] : InASeal(b, k) => Held(b, k) /\ Storing(b) = {}

\* Who stores a secret that nobody contests is the only one to store, and nothing hides it.
StoresAlone(b) ==
  \A p \in Storing(b) :
    sealing[p].secret \notin contested[b] =>
      /\ Storing(b) = {p}
      /\ b \in WithFallback => kept[b].store \notin Secrets
      /\ sealing[p].at = "context" => kept[b].file = sealing[p].secret

\* A fallback file that an item hides, or is about to hide, is contested.
HiddenIsContested(b) ==
  b \in WithFallback /\ kept[b].file \in Secrets
    /\ (kept[b].store \in Secrets \/ \E p \in Storing(b) : sealing[p].at = "store")
    => kept[b].file \in contested[b]

BackendIsRight(b) == SealsAreHeld(b) /\ StoresAlone(b) /\ HiddenIsContested(b)

SealIInv == SealTypes /\ \A b \in SealBackends : BackendIsRight(b)

LEMMA SealInitIInv == SealInit => SealIInv
<1> SUFFICES ASSUME SealInit PROVE SealIInv
  OBVIOUS
<1>1. SealTypes
  BY SealAssumption DEF SealInit, SealTypes, KeptSecrets, NotSealing, SealSteps
<1>2. \A b \in SealBackends : Storing(b) = {} /\ \A k \in Secrets : ~InASeal(b, k)
  BY DEF SealInit, Storing, Sealing, NotSealing, InASeal
<1>3. \A b \in SealBackends : kept[b].file \notin Secrets
  BY SealAssumption DEF SealInit
<1> QED
  BY <1>1, <1>2, <1>3
     DEF SealIInv, BackendIsRight, SealsAreHeld, StoresAlone, HiddenIsContested

\* A process that seals names a vault and a backend.
LEMMA AtSealing ==
  ASSUME SealTypes, NEW p \in Sealers, sealing[p].at # "rest"
  PROVE  sealing[p] \in SealingRecords
BY DEF SealTypes, NotSealing

\* A backend that a step neither writes to nor is about to be written to by anybody new.
LEMMA BackendStaysRight ==
  ASSUME NEW b \in SealBackends, BackendIsRight(b), kept'[b] = kept[b],
         contested'[b] = contested[b],
         \A k \in Secrets : InASeal(b, k)' => InASeal(b, k),
         \A p \in Storing(b)' : p \in Storing(b) /\ sealing'[p] = sealing[p]
  PROVE  BackendIsRight(b)'
<1>1. SealsAreHeld(b)'
  <2> SUFFICES ASSUME NEW k \in Secrets \ contested[b], InASeal(b, k)
               PROVE  Held(b, k)' /\ Storing(b)' = {}
    BY DEF SealsAreHeld
  <2>1. Held(b, k) /\ Storing(b) = {}
    BY DEF BackendIsRight, SealsAreHeld
  <2> QED
    BY <2>1 DEF Held
<1>2. StoresAlone(b)'
  BY DEF BackendIsRight, StoresAlone
<1>3. HiddenIsContested(b)'
  BY DEF BackendIsRight, HiddenIsContested
<1> QED
  BY <1>1, <1>2, <1>3 DEF BackendIsRight

\* A step of one process at a backend leaves the others alone.
LEMMA OtherBackendsStayRight ==
  ASSUME SealIInv, NEW p \in Sealers, NEW b \in SealBackends, sealing[p].backend = b,
         sealing'[p].backend = b, UNCHANGED seals,
         \A q \in Sealers \ {p} : sealing'[q] = sealing[q],
         \A c \in SealBackends \ {b} : kept'[c] = kept[c] /\ contested'[c] = contested[c],
         NEW c \in SealBackends \ {b}
  PROVE  BackendIsRight(c)'
<1>1. BackendIsRight(c)
  BY DEF SealIInv
<1>2. \A k \in Secrets : InASeal(c, k)' => InASeal(c, k)
  BY DEF InASeal, Sealing
<1>3. \A q \in Storing(c)' : q \in Storing(c) /\ sealing'[q] = sealing[q]
  BY DEF Storing, Sealing
<1> QED
  BY <1>1, <1>2, <1>3, BackendStaysRight

-----------------------------------------------------------------------------
\* What a step of process p makes of its record.
LEMMA SealingTyped ==
  ASSUME SealTypes, NEW p \in Sealers, NEW b \in SealBackends, sealing[p] \in SealingRecords,
         sealing[p].backend = b, NEW at \in SealSteps, NEW s \in Secrets,
         sealing' = [sealing EXCEPT ![p].at = at, ![p].secret = s]
  PROVE  /\ sealing' \in [Sealers -> SealingRecords \cup {NotSealing}]
         /\ \A q \in Sealers : sealing'[q].at \in SealSteps \ {"load"} => sealing'[q].secret \in Secrets
         /\ sealing'[p].at = at /\ sealing'[p].secret = s /\ sealing'[p].backend = b
         /\ \A q \in Sealers \ {p} : sealing'[q] = sealing[q]
<1> DEFINE new == [sealing[p] EXCEPT !.at = at, !.secret = s]
<1>1. new \in SealingRecords /\ new.at = at /\ new.secret = s /\ new.backend = b
  BY DEF SealingRecords
<1>2. sealing' = [sealing EXCEPT ![p] = new]
  BY DEF SealTypes, SealingRecords
<1> HIDE DEF new
<1> QED
  BY <1>1, <1>2 DEF SealTypes

\* The same, of a step that keeps the secret.
LEMMA SealingMoves ==
  ASSUME SealTypes, NEW p \in Sealers, NEW b \in SealBackends, sealing[p] \in SealingRecords,
         sealing[p].backend = b, NEW at \in SealSteps, NEW s \in Secrets, sealing[p].secret = s,
         sealing' = [sealing EXCEPT ![p].at = at]
  PROVE  /\ sealing' \in [Sealers -> SealingRecords \cup {NotSealing}]
         /\ \A q \in Sealers : sealing'[q].at \in SealSteps \ {"load"} => sealing'[q].secret \in Secrets
         /\ sealing'[p].at = at /\ sealing'[p].secret = s /\ sealing'[p].backend = b
         /\ \A q \in Sealers \ {p} : sealing'[q] = sealing[q]
<1> DEFINE new == [sealing[p] EXCEPT !.at = at]
<1>1. new \in SealingRecords /\ new.at = at /\ new.secret = s /\ new.backend = b
  BY DEF SealingRecords
<1>2. sealing' = [sealing EXCEPT ![p] = new]
  BY DEF SealTypes, SealingRecords
<1> HIDE DEF new
<1> QED
  BY <1>1, <1>2 DEF SealTypes

LEMMA FindSecretKeepsIInv ==
  ASSUME SealIInv, NEW p \in Sealers, NEW b \in SealBackends, NEW reached \in BOOLEAN,
         Sealing(p, "load", b), FindSecret(p, b, reached), UNCHANGED seals
  PROVE  SealIInv'
<1> DEFINE s == Reading(b, reached)
<1>1. SealTypes /\ sealing[p] \in SealingRecords /\ sealing[p].at = "load" /\ sealing[p].backend = b
  BY AtSealing DEF Sealing, SealIInv
<1>2. kept[b] \in KeptSecrets /\ (b \notin Tpms => kept[b].file # Torn)
  BY <1>1 DEF SealTypes
<1>3. s \in Secrets /\ s \in {kept[b].store, kept[b].file}
  <2>1. s # NoSecret
    BY DEF FindSecret
  <2>2. CASE reached /\ kept[b].store \in Secrets
    BY <2>2 DEF Reading
  <2>3. CASE ~(reached /\ kept[b].store \in Secrets)
    BY <1>2, <2>1, <2>3, SealAssumption DEF Reading, ToLoad, Loadable, KeptSecrets
  <2> QED
    BY <2>2, <2>3
<1>4. /\ sealing' \in [Sealers -> SealingRecords \cup {NotSealing}]
      /\ \A q \in Sealers : sealing'[q].at \in SealSteps \ {"load"} => sealing'[q].secret \in Secrets
      /\ sealing'[p].at = "save" /\ sealing'[p].secret = s /\ sealing'[p].backend = b
      /\ \A q \in Sealers \ {p} : sealing'[q] = sealing[q]
  <2>1. sealing' = [sealing EXCEPT ![p].at = "save", ![p].secret = s]
    BY DEF FindSecret
  <2> QED
    BY <1>1, <1>3, <2>1, SealingTyped DEF SealSteps
<1>5. /\ kept' \in [SealBackends -> KeptSecrets]
      /\ \A c \in SealBackends \ {b} : kept'[c] = kept[c]
      /\ kept'[b].file = kept[b].file
      /\ kept'[b].store = IF ToLoad(b) THEN kept[b].file ELSE kept[b].store
  BY <1>1, <1>2 DEF FindSecret, Loaded, SealTypes, KeptSecrets
<1>6. /\ contested' \in [SealBackends -> SUBSET Secrets]
      /\ \A c \in SealBackends \ {b} : contested'[c] = contested[c]
      /\ contested'[b] = contested[b] \cup (IF Storing(b) = {} THEN {} ELSE {s})
  BY <1>1, <1>3 DEF FindSecret, Contest, SealTypes
<1>7. SealTypes'
  BY <1>1, <1>4, <1>5, <1>6 DEF SealTypes, ToLoad, Loadable
<1>8. Storing(b)' = Storing(b) /\ p \notin Storing(b)
  BY <1>1, <1>4 DEF Storing, Sealing
<1>9. SealsAreHeld(b)'
  <2> SUFFICES ASSUME NEW k \in Secrets \ contested'[b], InASeal(b, k)'
               PROVE  Held(b, k)' /\ Storing(b) = {}
    BY <1>8 DEF SealsAreHeld
  <2>1. BackendIsRight(b) /\ k \notin contested[b]
    BY <1>6 DEF SealIInv
  <2>2. CASE InASeal(b, k)
    <3>1. Held(b, k) /\ Storing(b) = {}
      BY <2>1, <2>2 DEF BackendIsRight, SealsAreHeld
    <3>2. kept'[b].store = kept[b].store
      BY <1>5, <3>1, SealAssumption DEF Held, ToLoad, Loadable
    <3> QED
      BY <1>5, <3>1, <3>2 DEF Held
  <2>3. CASE ~InASeal(b, k)
    <3>1. k = s
      BY <1>4, <2>3 DEF InASeal, Sealing
    <3>2. Storing(b) = {}
      BY <1>6, <3>1
    <3>3. CASE s = kept[b].store
      BY <1>3, <1>5, <3>1, <3>2, <3>3, SealAssumption DEF Held, ToLoad
    <3>4. CASE s # kept[b].store /\ ToLoad(b)
      BY <1>3, <1>5, <3>1, <3>2, <3>4 DEF Held
    <3>5. CASE s # kept[b].store /\ ~ToLoad(b)
      <4>1. b \in WithFallback /\ s = kept[b].file
        BY <3>5 DEF FindSecret, Reading
      <4>2. kept[b].store \notin Secrets
        BY <1>3, <2>1, <3>1, <4>1 DEF BackendIsRight, HiddenIsContested
      <4> QED
        BY <1>5, <3>1, <3>2, <3>5, <4>1, <4>2 DEF Held
    <3> QED
      BY <3>3, <3>4, <3>5
  <2> QED
    BY <2>2, <2>3
<1>10. StoresAlone(b)' /\ HiddenIsContested(b)'
  <2>1. BackendIsRight(b)
    BY DEF SealIInv
  <2>2. \A q \in Storing(b) : sealing'[q] = sealing[q]
    BY <1>4, <1>8 DEF Storing
  <2>3. b \in WithFallback => kept'[b].store = kept[b].store
    BY <1>5, SealAssumption DEF ToLoad, Loadable
  <2>4. StoresAlone(b)'
    BY <1>5, <1>6, <1>8, <2>1, <2>2, <2>3 DEF BackendIsRight, StoresAlone
  <2>5. HiddenIsContested(b)'
    BY <1>5, <1>6, <1>8, <2>1, <2>2, <2>3 DEF BackendIsRight, HiddenIsContested
  <2> QED
    BY <2>4, <2>5
<1>11. \A c \in SealBackends \ {b} : BackendIsRight(c)'
  BY <1>1, <1>4, <1>5, <1>6, OtherBackendsStayRight
<1> QED
  BY <1>7, <1>9, <1>10, <1>11 DEF SealIInv, BackendIsRight

LEMMA MissSecretKeepsIInv ==
  ASSUME SealIInv, NEW p \in Sealers, NEW b \in SealBackends, NEW reached \in BOOLEAN,
         Sealing(p, "load", b), MissSecret(p, b, reached), UNCHANGED seals
  PROVE  SealIInv'
<1>1. SealTypes /\ sealing[p] \in SealingRecords /\ sealing[p].at = "load" /\ sealing[p].backend = b
  BY AtSealing DEF Sealing, SealIInv
<1>2. PICK s \in Secrets :
        /\ sealing' = [sealing EXCEPT ![p].at = "store", ![p].secret = s]
        /\ Contest(b, There(b) \cup BeingStored(b) \cup
             (IF Storing(b) # {} \/ (b \in WithFallback /\ There(b) # {}) THEN {s} ELSE {}))
  BY DEF MissSecret
<1>3. kept[b] \in KeptSecrets /\ (b \notin Tpms => kept[b].file # Torn)
  BY <1>1 DEF SealTypes
<1>4. /\ sealing' \in [Sealers -> SealingRecords \cup {NotSealing}]
      /\ \A q \in Sealers : sealing'[q].at \in SealSteps \ {"load"} => sealing'[q].secret \in Secrets
      /\ sealing'[p].at = "store" /\ sealing'[p].secret = s /\ sealing'[p].backend = b
      /\ \A q \in Sealers \ {p} : sealing'[q] = sealing[q]
  BY <1>1, <1>2, SealingTyped DEF SealSteps
<1>5. /\ kept' \in [SealBackends -> KeptSecrets]
      /\ \A c \in SealBackends \ {b} : kept'[c] = kept[c]
      /\ kept'[b].file = kept[b].file
      /\ b \notin Tpms => kept'[b] = kept[b]
  BY <1>1, <1>3 DEF MissSecret, Loaded, ToLoad, Loadable, SealTypes, KeptSecrets
<1>6. BeingStored(b) \in SUBSET Secrets
  BY <1>1 DEF BeingStored, Storing, Sealing, SealTypes, SealSteps
<1>7. /\ contested' \in [SealBackends -> SUBSET Secrets]
      /\ \A c \in SealBackends \ {b} : contested'[c] = contested[c]
      /\ contested[b] \cup There(b) \cup BeingStored(b) \subseteq contested'[b]
      /\ Storing(b) # {} \/ (b \in WithFallback /\ There(b) # {}) => s \in contested'[b]
  BY <1>1, <1>2, <1>6 DEF Contest, SealTypes, There
<1>8. SealTypes'
  BY <1>1, <1>4, <1>5, <1>7 DEF SealTypes
<1>9. BackendIsRight(b)
  BY DEF SealIInv
<1>10. Storing(b)' = Storing(b) \cup {p} /\ \A q \in Storing(b) : sealing'[q] = sealing[q]
  BY <1>1, <1>4 DEF Storing, Sealing
<1>11. SealsAreHeld(b)'
  <2> SUFFICES ASSUME NEW k \in Secrets \ contested'[b], InASeal(b, k)' PROVE FALSE
    BY DEF SealsAreHeld
  <2>1. InASeal(b, k)
    BY <1>4 DEF InASeal, Sealing
  <2>2. Held(b, k)
    BY <1>7, <1>9, <2>1 DEF BackendIsRight, SealsAreHeld
  <2> QED
    BY <1>7, <2>2 DEF Held, There
<1>12. StoresAlone(b)'
  <2> SUFFICES ASSUME NEW q \in Storing(b)', sealing'[q].secret \notin contested'[b]
               PROVE  /\ Storing(b)' = {q}
                      /\ b \in WithFallback => kept'[b].store \notin Secrets
                      /\ sealing'[q].at = "context" => kept'[b].file = sealing'[q].secret
    BY DEF StoresAlone
  <2>1. q = p
    BY <1>7, <1>10 DEF BeingStored
  <2>2. Storing(b) = {} /\ (b \in WithFallback => There(b) = {})
    BY <1>4, <1>7, <2>1
  <2>3. b \in WithFallback => kept'[b] = kept[b]
    BY <1>5, SealAssumption
  <2> QED
    BY <1>4, <1>10, <2>1, <2>2, <2>3 DEF There
<1>13. HiddenIsContested(b)'
  <2>1. b \in WithFallback => kept[b].file \notin Secrets
    BY SealAssumption DEF MissSecret, Reading
  <2> QED
    BY <1>5, <2>1 DEF HiddenIsContested
<1>14. \A c \in SealBackends \ {b} : BackendIsRight(c)'
  BY <1>1, <1>4, <1>5, <1>7, OtherBackendsStayRight
<1> QED
  BY <1>8, <1>11, <1>12, <1>13, <1>14 DEF SealIInv, BackendIsRight

\* Where others are storing, or one that is contested, nothing uncontested is in a seal.
LEMMA StoringAlone ==
  ASSUME SealIInv, NEW b \in SealBackends, NEW p \in Storing(b)
  PROVE  /\ \A k \in Secrets \ contested[b] : ~InASeal(b, k)
         /\ \A q \in Storing(b) \ {p} : sealing[q].secret \in contested[b]
BY DEF SealIInv, BackendIsRight, SealsAreHeld, StoresAlone

\* A step of a store that goes on, as long as it leaves the place of the uncontested right.
LEMMA StoreGoesOn ==
  ASSUME SealIInv, NEW p \in Sealers, NEW b \in SealBackends, p \in Storing(b), UNCHANGED seals,
         NEW s \in Secrets, sealing[p].secret = s,
         NEW at \in {"fill", "context"}, sealing' = [sealing EXCEPT ![p].at = at],
         kept' \in [SealBackends -> KeptSecrets], b \notin Tpms => kept'[b].store # Torn /\ kept'[b].file # Torn,
         \A c \in SealBackends \ {b} : kept'[c] = kept[c], UNCHANGED contested,
         b \in WithFallback => kept'[b].store = kept[b].store /\ kept'[b].file \notin Secrets,
         at = "context" => kept'[b].file = s \/ s \in contested[b]
  PROVE  SealIInv'
<1>1. SealTypes /\ sealing[p] \in SealingRecords /\ sealing[p].backend = b
  BY AtSealing DEF Storing, Sealing, SealIInv
<1>2. /\ sealing' \in [Sealers -> SealingRecords \cup {NotSealing}]
      /\ \A q \in Sealers : sealing'[q].at \in SealSteps \ {"load"} => sealing'[q].secret \in Secrets
      /\ sealing'[p].at = at /\ sealing'[p].secret = s /\ sealing'[p].backend = b
      /\ \A q \in Sealers \ {p} : sealing'[q] = sealing[q]
  BY <1>1, SealingMoves DEF SealSteps
<1>3. SealTypes'
  BY <1>1, <1>2 DEF SealTypes
<1>4. Storing(b)' = Storing(b) /\ \A k \in Secrets : InASeal(b, k)' => InASeal(b, k)
  BY <1>2 DEF Storing, Sealing, InASeal
<1>5. SealsAreHeld(b)'
  BY <1>4, StoringAlone DEF SealsAreHeld
<1>6. StoresAlone(b)' /\ HiddenIsContested(b)'
  <2>1. StoresAlone(b)
    BY DEF SealIInv, BackendIsRight
  <2>2. \A q \in Storing(b) \ {p} : sealing[q].secret \in contested[b] /\ sealing'[q] = sealing[q]
    BY <1>2, StoringAlone DEF Storing
  <2> QED
    BY <1>2, <1>4, <2>1, <2>2 DEF StoresAlone, HiddenIsContested
<1>7. \A c \in SealBackends \ {b} : BackendIsRight(c)'
  BY <1>1, <1>2, OtherBackendsStayRight
<1> QED
  BY <1>3, <1>5, <1>6, <1>7 DEF SealIInv, BackendIsRight

\* The last step of a store, which leaves what was stored where it is looked up.
LEMMA StoreEnds ==
  ASSUME SealIInv, NEW p \in Sealers, NEW b \in SealBackends, p \in Storing(b), UNCHANGED seals,
         NEW s \in Secrets, sealing[p].secret = s, sealing' = [sealing EXCEPT ![p].at = "save"],
         kept' \in [SealBackends -> KeptSecrets], b \notin Tpms => kept'[b].store # Torn /\ kept'[b].file # Torn,
         \A c \in SealBackends \ {b} : kept'[c] = kept[c], UNCHANGED contested,
         s \notin contested[b] => Held(b, s)',
         HiddenIsContested(b)'
  PROVE  SealIInv'
<1>1. SealTypes /\ sealing[p] \in SealingRecords /\ sealing[p].backend = b
  BY AtSealing DEF Storing, Sealing, SealIInv
<1>2. /\ sealing' \in [Sealers -> SealingRecords \cup {NotSealing}]
      /\ \A q \in Sealers : sealing'[q].at \in SealSteps \ {"load"} => sealing'[q].secret \in Secrets
      /\ sealing'[p].at = "save" /\ sealing'[p].secret = s /\ sealing'[p].backend = b
      /\ \A q \in Sealers \ {p} : sealing'[q] = sealing[q]
  BY <1>1, SealingMoves DEF SealSteps
<1>3. SealTypes'
  BY <1>1, <1>2 DEF SealTypes
<1>4. Storing(b)' = Storing(b) \ {p}
  BY <1>2 DEF Storing, Sealing
<1>5. SealsAreHeld(b)'
  <2> SUFFICES ASSUME NEW k \in Secrets \ contested[b], InASeal(b, k)'
               PROVE  Held(b, k)' /\ Storing(b)' = {}
    BY DEF SealsAreHeld
  <2>1. k = s
    <3>1. ~InASeal(b, k)
      BY StoringAlone
    <3> QED
      BY <1>2, <3>1 DEF InASeal, Sealing
  <2> QED
    BY <1>4, <2>1 DEF SealIInv, BackendIsRight, StoresAlone
<1>6. StoresAlone(b)'
  <2>1. \A q \in Storing(b) \ {p} : sealing[q].secret \in contested[b] /\ sealing'[q] = sealing[q]
    BY <1>2, StoringAlone DEF Storing
  <2> QED
    BY <1>4, <2>1 DEF StoresAlone
<1>7. \A c \in SealBackends \ {b} : BackendIsRight(c)'
  BY <1>1, <1>2, OtherBackendsStayRight
<1> QED
  BY <1>3, <1>5, <1>6, <1>7 DEF SealIInv, BackendIsRight

LEMMA PutSecretTyped ==
  ASSUME SealTypes, NEW p \in Sealers, NEW b \in SealBackends, NEW place \in {"store", "file"},
         NEW content \in Secrets \cup {NoSecret, Torn}, NEW next \in SealSteps,
         PutSecret(p, b, place, content, next), content = Torn => b \in Tpms
  PROVE  /\ sealing' = [sealing EXCEPT ![p].at = next]
         /\ kept' \in [SealBackends -> KeptSecrets]
         /\ b \notin Tpms => kept'[b].store # Torn /\ kept'[b].file # Torn
         /\ \A c \in SealBackends \ {b} : kept'[c] = kept[c]
         /\ kept'[b].store = IF place = "store" THEN content ELSE kept[b].store
         /\ kept'[b].file = IF place = "file" THEN content ELSE kept[b].file
<1>1. kept[b] \in KeptSecrets
  BY DEF SealTypes
<1>2. kept' = [kept EXCEPT ![b] = [@ EXCEPT ![place] = content]]
  BY DEF PutSecret
<1> DEFINE new == [kept[b] EXCEPT ![place] = content]
<1>3. /\ new \in KeptSecrets
      /\ new.store = IF place = "store" THEN content ELSE kept[b].store
      /\ new.file = IF place = "file" THEN content ELSE kept[b].file
  BY <1>1 DEF KeptSecrets
<1>4. kept'[b] = new /\ kept' \in [SealBackends -> KeptSecrets] /\ \A c \in SealBackends \ {b} : kept'[c] = kept[c]
  <2> HIDE DEF new
  <2>1. kept' = [kept EXCEPT ![b] = new]
    BY <1>2 DEF new
  <2> QED
    BY <1>3, <2>1 DEF SealTypes
<1> QED
  BY <1>3, <1>4 DEF PutSecret, SealTypes

LEMMA StoreSecretKeepsIInv ==
  ASSUME SealIInv, NEW p \in Sealers, NEW b \in SealBackends, NEW reached \in BOOLEAN,
         StoreSecret(p, b, reached)
  PROVE  SealIInv'
<1>1. SealTypes /\ UNCHANGED <<seals, contested>> /\ BackendIsRight(b)
  BY DEF StoreSecret, SealIInv
<1>2. PICK s \in Secrets : p \in Storing(b) /\ sealing[p].secret = s
  BY <1>1 DEF StoreSecret, StoreAtOnce, EmptyPlace, FillPlace, SealObject, LoadObject, Storing, Sealing,
              SealTypes, SealSteps
\* Nothing uncontested is hidden by, or hides, what p stores.
<1>3. s \notin contested[b] =>
        /\ b \in WithFallback => kept[b].store \notin Secrets
        /\ sealing[p].at = "context" => kept[b].file = s
        /\ Storing(b) = {p}
  BY <1>1, <1>2 DEF BackendIsRight, StoresAlone
<1>4. ASSUME StoreAtOnce(p, b, reached) PROVE SealIInv'
  <2>1. PutSecret(p, b, "store", s, "save") /\ sealing[p].at = "store"
    BY <1>2, <1>4 DEF StoreAtOnce, Sealing
  <2>2. Held(b, s)'
    BY <1>1, <1>2, <2>1, PutSecretTyped, SealAssumption DEF Held, SealSteps
  <2>3. kept'[b].file = kept[b].file
    BY <1>1, <1>2, <2>1, PutSecretTyped, SealAssumption DEF SealSteps
  <2>4. HiddenIsContested(b)'
    BY <1>1, <1>2, <2>1, <2>3 DEF BackendIsRight, HiddenIsContested
  <2> QED
    BY <1>1, <1>2, <2>1, <2>2, <2>4, PutSecretTyped, SealAssumption, StoreEnds DEF SealSteps
<1>5. ASSUME EmptyPlace(p, b, reached) PROVE SealIInv'
  <2>1. PICK place \in {"store", "file"} :
          /\ PutSecret(p, b, place, NoSecret, "fill")
          /\ b \in WithFallback => place = "file"
    BY <1>5, SealAssumption DEF EmptyPlace
  <2>2. b \in WithFallback => kept'[b].store = kept[b].store /\ kept'[b].file \notin Secrets
    BY <1>1, <2>1, PutSecretTyped, SealAssumption DEF SealSteps
  <2> QED
    BY <1>1, <1>2, <2>1, <2>2, PutSecretTyped, SealAssumption, StoreGoesOn DEF SealSteps
<1>6. ASSUME FillPlace(p, b) PROVE SealIInv'
  <2> DEFINE place == IF b \in WithFallback THEN "file" ELSE "store"
  <2>1. PutSecret(p, b, place, s, "save")
    BY <1>2, <1>6 DEF FillPlace
  <2>2. s \notin contested[b] => Held(b, s)'
    BY <1>1, <1>2, <1>3, <2>1, PutSecretTyped, SealAssumption DEF Held, SealSteps
  <2>3. HiddenIsContested(b)'
    <3>1. \A q \in Storing(b)' : q \in Storing(b) /\ q # p
      BY <1>1, <1>2, <2>1 DEF PutSecret, Storing, Sealing, SealTypes
    <3>2. b \in WithFallback => kept'[b].file = s /\ kept'[b].store = kept[b].store
      BY <1>1, <1>2, <2>1, PutSecretTyped, SealAssumption DEF SealSteps
    <3> QED
      BY <1>1, <1>3, <3>1, <3>2 DEF HiddenIsContested
  <2> QED
    BY <1>1, <1>2, <2>1, <2>2, <2>3, PutSecretTyped, SealAssumption, StoreEnds DEF SealSteps
<1>7. ASSUME SealObject(p, b) PROVE SealIInv'
  <2>1. PICK content \in Secrets \cup {NoSecret, Torn} :
          /\ PutSecret(p, b, "file", content, "context") /\ b \in Tpms \ WithFallback
          /\ content = s \/ Storing(b) # {p}
    BY <1>2, <1>7, SealAssumption DEF SealObject
  <2>2. kept'[b].file = s \/ s \in contested[b]
    BY <1>1, <1>2, <1>3, <2>1, PutSecretTyped, SealAssumption DEF SealSteps
  <2> QED
    BY <1>1, <1>2, <2>1, <2>2, PutSecretTyped, SealAssumption, StoreGoesOn DEF SealSteps
<1>8. ASSUME LoadObject(p, b) PROVE SealIInv'
  <2>1. PICK k \in Secrets :
          /\ PutSecret(p, b, "store", k, "save") /\ b \notin WithFallback
          /\ kept[b].file = k /\ sealing[p].at = "context"
    BY <1>8, SealAssumption DEF LoadObject, Loadable, Sealing
  <2>2. s \notin contested[b] => Held(b, s)'
    BY <1>1, <1>3, <2>1, PutSecretTyped, SealAssumption DEF Held, SealSteps
  <2>3. HiddenIsContested(b)'
    BY <2>1 DEF HiddenIsContested
  <2> QED
    BY <1>1, <1>2, <2>1, <2>2, <2>3, PutSecretTyped, SealAssumption, StoreEnds DEF SealSteps
<1> QED
  BY <1>4, <1>5, <1>6, <1>7, <1>8 DEF StoreSecret

\* What is cut off can only lose what is contested.
LEMMA AbandonSealKeepsIInv ==
  ASSUME SealIInv, NEW p \in Sealers, AbandonSeal(p)
  PROVE  SealIInv'
<1>1. /\ SealTypes /\ UNCHANGED <<seals, contested>>
      /\ sealing' = [sealing EXCEPT ![p] = NotSealing]
  BY DEF AbandonSeal, StopSealing, SealIInv
<1>2. /\ sealing' \in [Sealers -> SealingRecords \cup {NotSealing}]
      /\ \A q \in Sealers : sealing'[q].at \in SealSteps \ {"load"} => sealing'[q].secret \in Secrets
      /\ sealing'[p].at = "rest" /\ \A q \in Sealers \ {p} : sealing'[q] = sealing[q]
  BY <1>1 DEF SealTypes, NotSealing, SealSteps
<1>3. \A b \in SealBackends :
        /\ Storing(b)' = Storing(b) \ {p}
        /\ \A k \in Secrets : InASeal(b, k)' => InASeal(b, k)
  BY <1>1, <1>2 DEF Storing, Sealing, InASeal
<1>4. ASSUME NEW b \in SealBackends, kept'[b] = kept[b] PROVE BackendIsRight(b)'
  <2>1. \A q \in Storing(b)' : q \in Storing(b) /\ sealing'[q] = sealing[q]
    BY <1>2, <1>3 DEF Storing
  <2> QED
    BY <1>1, <1>3, <1>4, <2>1, BackendStaysRight DEF SealIInv
<1>5. CASE UNCHANGED kept
  BY <1>1, <1>2, <1>4, <1>5 DEF SealIInv, SealTypes
<1>6. ASSUME NEW b \in Tpms, TearObject(p, b) \/ TearContext(p, b) PROVE SealIInv'
  <2>1. b \in SealBackends /\ b \notin WithFallback
    BY SealAssumption
  <2>2. /\ kept' \in [SealBackends -> KeptSecrets]
        /\ \A c \in SealBackends \ {b} : kept'[c] = kept[c]
    BY <1>1, <1>6, <2>1 DEF TearObject, TearContext, SealTypes, KeptSecrets
  <2>3. SealTypes'
    BY <1>1, <1>2, <2>2 DEF SealTypes
  <2>4. SealsAreHeld(b)'
    <3> SUFFICES ASSUME NEW k \in Secrets \ contested[b], InASeal(b, k)'
                 PROVE  Held(b, k)' /\ Storing(b)' = {}
      BY <1>1 DEF SealsAreHeld
    <3>1. InASeal(b, k)
      BY <1>3, <2>1
    <3>2. p \notin Storing(b)
      BY <2>1, <3>1, StoringAlone
    <3>3. Sealing(p, "load", b) /\ ToLoad(b)
      BY <1>6, <3>2 DEF TearObject, TearContext, Storing
    <3>4. kept[b].store = k
      BY <2>1, <3>1 DEF SealIInv, BackendIsRight, SealsAreHeld, Held
    <3> QED
      BY <3>3, <3>4, SealAssumption DEF ToLoad
  <2>5. StoresAlone(b)'
    <3> SUFFICES ASSUME NEW q \in Storing(b)', sealing'[q].secret \notin contested[b]
                 PROVE  /\ Storing(b)' = {q}
                        /\ sealing'[q].at = "context" => kept'[b].file = sealing'[q].secret
      BY <1>1, <2>1 DEF StoresAlone
    <3>1. q \in Storing(b) /\ q # p /\ sealing'[q] = sealing[q]
      BY <1>2, <1>3, <2>1 DEF Storing
    <3>2. /\ Storing(b) = {q}
          /\ sealing[q].at = "context" => kept[b].file = sealing[q].secret
      BY <2>1, <3>1 DEF SealIInv, BackendIsRight, StoresAlone
    <3>3. TearContext(p, b)
      BY <1>6, <3>1, <3>2 DEF TearObject, Storing
    <3>4. kept'[b].file = kept[b].file
      BY <1>1, <2>1, <3>3 DEF TearContext, SealTypes, KeptSecrets
    <3> QED
      BY <1>3, <2>1, <3>1, <3>2, <3>4
  <2>6. HiddenIsContested(b)'
    BY <2>1 DEF HiddenIsContested
  <2> QED
    BY <1>4, <2>2, <2>3, <2>4, <2>5, <2>6 DEF SealIInv, BackendIsRight
<1> QED
  BY <1>5, <1>6 DEF AbandonSeal

LEMMA SealNextIInv == SealIInv /\ [SealNext]_sealVars => SealIInv'
<1> SUFFICES ASSUME SealIInv, [SealNext]_sealVars PROVE SealIInv'
  OBVIOUS
\* Steps that leave the backends alone.
<1>1. ASSUME UNCHANGED <<kept, contested>>, SealTypes',
             \A b \in SealBackends :
               /\ \A k \in Secrets : InASeal(b, k)' => InASeal(b, k)
               /\ \A q \in Storing(b)' : q \in Storing(b) /\ sealing'[q] = sealing[q]
      PROVE  SealIInv'
  BY <1>1, BackendStaysRight DEF SealIInv
<1>2. CASE UNCHANGED sealVars
  BY <1>1, <1>2 DEF sealVars, SealIInv, SealTypes, InASeal, Storing, Sealing
<1>3. ASSUME NEW p \in Sealers, NEW v \in SealedVaults, NEW b \in SealBackends, StartSeal(p, v, b)
      PROVE  SealIInv'
  <2> DEFINE new == [NotSealing EXCEPT !.at = "load", !.vault = v, !.backend = b]
  <2>1. new \in SealingRecords /\ new.at = "load"
    BY DEF NotSealing, SealingRecords, SealSteps
  <2>2. sealing' = [sealing EXCEPT ![p] = new] /\ UNCHANGED <<kept, seals, contested>>
    BY <1>3 DEF StartSeal
  <2> HIDE DEF new
  <2>3. SealTypes'
    BY <2>1, <2>2 DEF SealIInv, SealTypes
  <2>4. \A q \in Sealers : sealing'[q] = sealing[q] \/ sealing'[q].at = "load"
    BY <2>1, <2>2 DEF SealIInv, SealTypes
  <2> QED
    BY <1>1, <2>2, <2>3, <2>4 DEF InASeal, Storing, Sealing
<1>4. ASSUME NEW p \in Sealers, NEW b \in SealBackends, NEW reached \in BOOLEAN, LoadSecret(p, b, reached)
      PROVE  SealIInv'
  BY <1>4, FindSecretKeepsIInv, MissSecretKeepsIInv DEF LoadSecret
<1>5. ASSUME NEW p \in Sealers, SaveSeal(p) PROVE SealIInv'
  <2>1. /\ SealTypes /\ sealing[p] \in SealingRecords /\ sealing[p].at = "save"
        /\ sealing[p].secret \in Secrets /\ UNCHANGED <<kept, contested>>
        /\ sealing' = [sealing EXCEPT ![p] = NotSealing]
    BY <1>5, AtSealing DEF SaveSeal, StopSealing, SealIInv, SealTypes, SealSteps
  <2> DEFINE new == [backend |-> sealing[p].backend, key |-> sealing[p].secret]
  <2>2. new \in SealRecords /\ new.backend = sealing[p].backend /\ new.key = sealing[p].secret
    BY <2>1 DEF SealingRecords, SealRecords
  <2>3. seals' = [seals EXCEPT ![sealing[p].vault] = new] /\ sealing[p].vault \in SealedVaults
    BY <1>5, <2>1 DEF SaveSeal, SealingRecords
  <2> HIDE DEF new
  <2>4. SealTypes'
    BY <2>1, <2>2, <2>3 DEF SealTypes, NotSealing, SealSteps
  <2>5. \A q \in Sealers : sealing'[q] = sealing[q] \/ sealing'[q].at = "rest"
    BY <2>1 DEF SealTypes, NotSealing
  <2>6. \A v \in SealedVaults : seals'[v] = seals[v] \/ seals'[v] = new
    BY <2>1, <2>3 DEF SealTypes
  <2>7. \A b \in SealBackends, k \in Secrets : InASeal(b, k)' => InASeal(b, k)
    BY <2>1, <2>2, <2>5, <2>6 DEF InASeal, Sealing
  <2>8. \A b \in SealBackends : \A q \in Storing(b)' : q \in Storing(b) /\ sealing'[q] = sealing[q]
    BY <2>5 DEF Storing, Sealing
  <2> QED
    BY <1>1, <2>1, <2>4, <2>7, <2>8
<1>6. ASSUME NEW v \in SealedVaults, RemoveSeal(v) PROVE SealIInv'
  <2>1. SealTypes' /\ UNCHANGED <<kept, sealing, contested>>
    BY <1>6 DEF RemoveSeal, SealIInv, SealTypes
  <2>2. \A b \in SealBackends, k \in Secrets : InASeal(b, k)' => InASeal(b, k)
    BY <1>6, <2>1 DEF RemoveSeal, InASeal, Sealing, SealIInv, SealTypes
  <2> QED
    BY <1>1, <2>1, <2>2 DEF Storing, Sealing
<1>7. CASE AllLost
  BY <1>2, <1>7 DEF AllLost
<1> QED
  BY <1>2, <1>3, <1>4, <1>5, <1>6, <1>7, StoreSecretKeepsIInv, AbandonSealKeepsIInv DEF SealNext

\* Backends, seals, processes and the secrets that are contested are of their types.
THEOREM SealTyping == SealSpec => []SealTypes
<1>1. SealIInv => SealTypes
  BY DEF SealIInv
<1> QED
  BY <1>1, SealInitIInv, SealNextIInv, PTL DEF SealSpec

\* Whatever steps of a store fail, and wherever a process dies in one, a sealed vault opens
\* unless its secret was there, or being stored, when a sealing read none and made another,
\* or was made or read while others were being stored.
THEOREM SealsAlwaysHold == SealSpec => []SealsHold
<1>1. SealIInv => SealsHold
  <2> SUFFICES ASSUME SealIInv, NEW v \in SealedVaults, seals[v] # NoSeal,
                      seals[v].key \notin contested[seals[v].backend]
               PROVE  Unseals(v)
    BY DEF SealsHold
  <2>1. seals[v].backend \in SealBackends /\ seals[v].key \in Secrets
    BY DEF SealIInv, SealTypes, SealRecords
  <2>2. Held(seals[v].backend, seals[v].key)
    BY <2>1 DEF SealIInv, BackendIsRight, SealsAreHeld, InASeal
  <2> QED
    BY <2>1, <2>2 DEF Held, Reading, Unseals
<1> QED
  BY <1>1, SealInitIInv, SealNextIInv, PTL DEF SealSpec
===============================================================================
