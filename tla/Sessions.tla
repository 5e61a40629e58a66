------------------------------- MODULE Sessions -------------------------------
(***************************************************************************)
(* The session registry: `sshenv run` writes itself down before it becomes *)
(* the command it runs, `sessions list` and `sessions kill` drop records   *)
(* of processes that ended and signal the others.  A record names a        *)
(* process by its pid, which the system uses again, and by a token (boot   *)
(* and start time), which it does not.                                     *)
(***************************************************************************)
EXTENDS FiniteSets

CONSTANTS Pids,             \* process ids
          Tokens,           \* process-start tokens; a reused pid gets a new one
          SessionVaults, SessionProfiles,
          Nobody            \* not a pid, not a token, not a label

ASSUME NobodyAssumption == Nobody \notin Pids \cup Tokens \cup (SessionVaults \X SessionProfiles)

VARIABLES proc,             \* what runs under each pid
          registry,         \* sessions.toml
          registryLock      \* the pid that holds sessions.toml.lock

sessionVars == <<proc, registry, registryLock>>

Labels  == SessionVaults \X SessionProfiles       \* what a record says is running
Records == [pid : Pids, token : Tokens, label : Labels]

\* What `kill` may be asked for: a profile of the current vault, or all of them.
Scopes == {{l} : l \in Labels} \cup {{v} \X SessionProfiles : v \in SessionVaults}

\* at:    how far the process is; a "program" is no sshenv process (any more)
\* label: what the process is recorded as; scope: what it is to record or to kill
\* view:  the registry it loaded; todo: the records left to signal
\* late:  the tokens that started since the last check; done: those signalled
Process(t, at, label, scope) ==
  [token |-> t, at |-> at, label |-> label, scope |-> scope,
   view |-> {}, todo |-> {}, late |-> {}, done |-> {}]
NoProcess == Process(Nobody, "ended", Nobody, {})

Alive(p)    == proc[p].token # Nobody
TokensInUse == {r.token : r \in registry}
                 \cup UNION {{proc[p].token} \cup proc[p].late \cup proc[p].done
                               \cup {r.token : r \in proc[p].view \cup proc[p].todo} : p \in Pids}

(* Mutant: alive is enough. *)
IsSamePid(r) == Alive(r.pid)

\* is_same_process: the pid is alive and has the token of the record.
IsSameProcess(r) == proc[r.pid].token = r.token

SessionInit ==
  /\ proc = [p \in Pids |-> NoProcess]
  /\ registry = {}
  /\ registryLock = Nobody

-----------------------------------------------------------------------------
(* A process starts as a `run` that is tracked, as a `kill` or `list`, or    *)
(* as a program of no concern.  A program that runs in a session may start   *)
(* sshenv in its place: it keeps its pid, its token and its record.          *)

Commands == {<<"run", {l}>> : l \in Labels} \cup {<<"kill", s>> : s \in Scopes \cup {{}}}

Start(p) ==
  /\ ~Alive(p)
  /\ \E t \in Tokens \ TokensInUse,
        c \in Commands \cup {<<"program", {}>>} :
       proc' = [q \in Pids |-> IF q = p THEN Process(t, c[1], Nobody, c[2])
                               ELSE [proc[q] EXCEPT !.late = IF proc[q].at = "signal"
                                                             THEN @ \cup {t} ELSE @]]
  /\ UNCHANGED <<registry, registryLock>>

Reexec(p) ==
  /\ Alive(p)
  /\ proc[p].at = "program"
  /\ \E c \in Commands :
       proc' = [proc EXCEPT ![p] = Process(@.token, c[1], @.label, c[2])]
  /\ UNCHANGED <<registry, registryLock>>

\* A process ends or is killed, at any point; the system releases its lock.
Exit(p) ==
  /\ Alive(p)
  /\ proc' = [proc EXCEPT ![p] = NoProcess]
  /\ registryLock' = IF registryLock = p THEN Nobody ELSE registryLock
  /\ UNCHANGED registry

(* Mutant: the file is read before the lock is there. *)
OpenUnlocked(p) ==
  /\ proc[p].at \in {"run", "kill"}
  /\ proc' = [proc EXCEPT ![p].at = IF @ = "run" THEN "register" ELSE "collect",
                          ![p].view = registry]
  /\ UNCHANGED <<registry, registryLock>>

OpenLocked(p) ==
  /\ proc[p].at \in {"run", "kill"}
  /\ registryLock = Nobody
  /\ registryLock' = p
  /\ proc' = [proc EXCEPT ![p].at = IF @ = "run" THEN "register" ELSE "collect",
                          ![p].view = registry]
  /\ UNCHANGED registry

Live(records) == {r \in records : IsSameProcess(r)}

\* register_current_process: gc_stale and push, then save and drop the lock.
Register(p) ==
  /\ proc[p].at = "register"
  /\ proc' = [proc EXCEPT ![p].at = "save",
                          ![p].view = Live(@) \cup {[pid |-> p, token |-> proc[p].token, label |-> l] :
                                                      l \in proc[p].scope}]
  /\ UNCHANGED <<registry, registryLock>>

Released(p) == registryLock' = IF registryLock = p THEN Nobody ELSE registryLock

\* The record is saved, the lock dropped; then the process is the program.
SaveRecord(p) ==
  /\ proc[p].at = "save"
  /\ registry' = proc[p].view
  /\ \E l \in proc[p].scope : proc' = [proc EXCEPT ![p] = Process(@.token, "exec", l, {})]
  /\ Released(p)

Exec(p) ==
  /\ proc[p].at = "exec"
  /\ proc' = [proc EXCEPT ![p].at = "program"]
  /\ UNCHANGED <<registry, registryLock>>

\* kill and list: gc_stale, save when something went, match.  `list` matches
\* what it shows and is done; here it is a kill with an empty scope.
Collect(p) ==
  /\ proc[p].at = "collect"
  /\ LET live == Live(proc[p].view)
     IN  /\ registry' = IF live = proc[p].view THEN registry ELSE live
         /\ proc' = [proc EXCEPT ![p].at = "check", ![p].view = {},
                                 ![p].todo = {r \in live : r.label \in proc[p].scope}]
  /\ UNCHANGED registryLock

(* Mutant: the first record that is stale ends the command. *)
CheckOrStop(p) ==
  /\ proc[p].at = "check"
  /\ \E r \in proc[p].todo :
       proc' = IF IsSameProcess(r) THEN [proc EXCEPT ![p].at = "signal", ![p].view = {r}]
               ELSE [proc EXCEPT ![p].todo = {}]
  /\ UNCHANGED <<registry, registryLock>>

\* One record after the other: check again, then signal.
Check(p) ==
  /\ proc[p].at = "check"
  /\ \E r \in proc[p].todo :
       proc' = IF IsSameProcess(r) THEN [proc EXCEPT ![p].at = "signal", ![p].view = {r}]
               ELSE [proc EXCEPT ![p].todo = @ \ {r}]
  /\ UNCHANGED <<registry, registryLock>>

\* Whoever has the pid now gets the signal; nobody when the process is gone.
\* What it does of it, ending or not, is its own: Exit.
Signal(p) ==
  /\ proc[p].at = "signal"
  /\ \E r \in proc[p].view :
       proc' = [proc EXCEPT ![p].at = "check", ![p].view = {}, ![p].late = {},
                            ![p].todo = @ \ {r},
                            ![p].done = IF Alive(r.pid) THEN @ \cup {proc[r.pid].token} ELSE @]
  /\ UNCHANGED <<registry, registryLock>>

\* The system refuses the signal (EPERM): the command ends, the rest is not tried.
SignalRefused(p) ==
  /\ proc[p].at = "signal"
  /\ \E r \in proc[p].view : Alive(r.pid)
  /\ proc' = [proc EXCEPT ![p] = Process(@.token, "leave", @.label, {})]
  /\ UNCHANGED <<registry, registryLock>>

\* Every record is dealt with: the command reports and drops the lock.
Report(p) ==
  /\ proc[p].at = "check"
  /\ proc[p].todo = {}
  /\ proc' = [proc EXCEPT ![p].at = "reported"]
  /\ Released(p)
  /\ UNCHANGED registry

SessionNext ==
  \E p \in Pids :
    \/ Start(p) \/ Reexec(p) \/ Exit(p) \/ OpenLocked(p) \/ Register(p) \/ SaveRecord(p) \/ Exec(p)
    \/ Collect(p) \/ Check(p) \/ Signal(p) \/ SignalRefused(p) \/ Report(p)

SessionSpec == SessionInit /\ [][SessionNext]_sessionVars

-----------------------------------------------------------------------------
\* A session that runs is in the registry: no other command, whatever it read
\* and whenever it ended, writes its record away.
LiveSessionsAreListed ==
  \A p \in Pids :
    proc[p].label # Nobody => [pid |-> p, token |-> proc[p].token, label |-> proc[p].label] \in registry

\* `kill` signals what it verified: the process it checked, or one that started
\* with the pid since the check, never one that was there before.
SignalsOnlyWhatItChecked ==
  [][\A p \in Pids :
       \A t \in proc'[p].done \ proc[p].done :
         \/ \E r \in proc[p].view : r.token = t /\ r.label \in proc[p].scope
         \/ t \in proc[p].late
    ]_sessionVars

\* A kill that reports has reached every session in its scope: none that is
\* recorded and still running is left without the signal, whatever ended, started
\* or waited to be recorded in between.
KillReachesItsScope ==
  [][\A p \in Pids :
       proc[p].at = "check" /\ proc'[p].at = "reported" =>
         \A r \in registry : r.label \in proc[p].scope /\ IsSameProcess(r) => r.token \in proc[p].done
    ]_sessionVars
==============================================================================
